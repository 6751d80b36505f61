----------------------------- MODULE VectorWire -----------------------------
(***************************************************************************)
(* Vectors between P0 and P1 (NetPeer of mpc/network.hpp): a vector is     *)
(* sent as its length and then its data, in two writes, and read in two    *)
(* reads.  Three calls exchange vectors:                                   *)
(*                                                                         *)
(*   dot          mpc_dotproduct: two vectors each way, all four transfers *)
(*                awaited together with &&;                                *)
(*   reconstruct  reconstruct_remote_vector: one vector each way, both     *)
(*                parties write before they read;                          *)
(*   locoram      Locoram::reconstruct_with_ctx: P0 writes first, P1 reads *)
(*                first.                                                   *)
(*                                                                         *)
(* A socket serves the operations of one direction in the order in which   *)
(* they were started.  async_write and async_read move part of their       *)
(* buffer at a time and queue up again for the rest, behind the other      *)
(* operations of that direction: so the transfers of two coroutines take   *)
(* turns.  The unit of data is one word; a length is one word too.         *)
(***************************************************************************)
EXTENDS Words, Sequences, Functions

CONSTANTS
  Calls,    \* which of the three calls is made
  Lens,     \* the lengths of the vectors that a role may pass
  XIn, YIn, \* XIn[p], YIn[p]: the vectors of p, cut to the length chosen
  Cap,      \* the words that the socket buffers of one direction hold
  Chunk,    \* the words that one transfer moves at most
  Prg,      \* Prg[k][s]: the blocks that PRG makes of seed s with AES_KEY k
  Draws,    \* the seeds that P2 may draw for the x and y of the parties
  None      \* a result that is not there yet

Parties == {"P0", "P1"}
Roles == Parties \cup {"P2"}
Peer(p) == IF p = "P0" THEN "P1" ELSE "P0"
Keys == DOMAIN Prg

ASSUME VectorAssumption ==
  /\ Calls \subseteq {"dot", "reconstruct", "locoram"}
  /\ Lens \subseteq Nat /\ Cap \in Nat \ {0} /\ Chunk \in Nat \ {0}
  /\ \A p \in Parties : \A v \in {XIn[p], YIn[p]} :
       v \in Seq(AWord) /\ \A n \in Lens : n <= Len(v)
  /\ \A k \in Keys, d \in Draws, p \in Parties : \A s \in {d[p].x, d[p].y} :
       Prg[k][s] \in Seq(AWord \X AWord) /\ \A n \in Lens : n <= 2 * Len(Prg[k][s])

VARIABLES
  call,     \* the call that the parties make
  len,      \* len[r]: the length of the vectors of r
  aes,      \* aes[r]: the AES_KEY of r, a local variable that nothing sets
  st,       \* st[r]: "run", or how r ended the call
  phase,    \* phase[p]: how many phases of its plan p has started
  dealt,    \* dealt[p]: the seeds and the gamma that P2 sent to p
  stream,   \* stream[p]: the words in flight from the peer to p
  wq,       \* wq[p]: the writes of p: each coroutine's operations to come
  rq,       \* rq[p]: the reads of p
  vecs,     \* vecs[p]: the vectors that p has received, by coroutine
  out,      \* out[p]: the result of mpc_dotproduct
  whole     \* whether each transfer so far moved all that was asked for

vars == <<call, len, aes, st, phase, dealt, stream, wq, rq, vecs, out, whole>>

\* The operators on vectors, of equal lengths.
Plus(a, b) == [i \in DOMAIN a |-> Wrap(a[i] + b[i])]
Times(a, b) ==
  LET sum[i \in 0 .. Len(a)] == IF i = 0 THEN 0 ELSE Wrap(sum[i - 1] + a[i] * b[i])
  IN  sum[Len(a)]

\* fill_vector_with_prg: the two halves of each block in turn, n words in all.
fill_vector_with_prg(k, s, n) ==
  [i \in 1 .. n |-> Prg[k][s][(i + 1) \div 2][2 - (i % 2)]]

X(p) == SubSeq(XIn[p], 1, len[p])
Y(p) == SubSeq(YIn[p], 1, len[p])

Blind(p, s) == fill_vector_with_prg(aes[p], s, len[p])

\* What p sends: by coroutine, in the order in which they start.
Sends(p) ==
  IF call = "dot"
  THEN <<Plus(X(p), Blind(p, dealt[p].x)), Plus(Y(p), Blind(p, dealt[p].y))>>
  ELSE <<X(p)>>

\* Mutant of send: the data goes out before its length.
SendDataFirst(v) == IF v = <<>> THEN <<<<0>>>> ELSE <<v, <<Len(v)>>>>

\* The two operations of NetPeer::send, the second only if there is data.
send(v) == IF v = <<>> THEN <<<<0>>>> ELSE <<<<Len(v)>>, v>>

\* recv_vector: the read of the length comes first.
recv_vector(i) == [id |-> i, length |-> TRUE, need |-> 1, got |-> <<>>]

\* Mutant of Plan: P0 and P1 of a dot product write before they read.
PlanInTurn(p) ==
  IF call = "locoram" /\ p = "P1" THEN <<{"read"}, {"write"}>>
  ELSE <<{"write"}, {"read"}>>

\* What a party awaits, one after the other; && awaits several together.
Plan(p) ==
  IF call = "dot" THEN <<{"write", "read"}>>
  ELSE IF call = "locoram" /\ p = "P1" THEN <<{"read"}, {"write"}>>
  ELSE <<{"write"}, {"read"}>>

-----------------------------------------------------------------------------
(* The dot product's randomness.                                           *)

\* P2 draws four seeds and expands them with its own key, to its own length.
Deal ==
  /\ call = "dot" /\ st["P2"] = "run"
  /\ \E s \in Draws :
       LET v(p, f) == fill_vector_with_prg(aes["P2"], s[p][f], len["P2"])
       IN  dealt' = [p \in Parties |->
                      [x |-> s[p].x, y |-> s[p].y,
                       gamma |-> Times(v(p, "x"), v(Peer(p), "y"))]]
  /\ st' = [st EXCEPT !["P2"] = "done"]
  /\ UNCHANGED <<call, len, aes, phase, stream, wq, rq, vecs, out, whole>>

-----------------------------------------------------------------------------
(* The transfers of a party.                                               *)

Idle(p) == st[p] = "run" /\ wq[p] = <<>> /\ rq[p] = <<>>

\* The next phase of the plan; a dot product needs the seeds of P2 first.
Proceed(p) ==
  /\ Idle(p) /\ phase[p] < Len(Plan(p))
  /\ call = "dot" => dealt[p] # None
  /\ LET now == Plan(p)[phase[p] + 1]
         v == Sends(p)
     IN  /\ wq' = [wq EXCEPT ![p] =
                    IF "write" \in now THEN [i \in DOMAIN v |-> send(v[i])] ELSE <<>>]
         /\ rq' = [rq EXCEPT ![p] =
                    IF "read" \in now THEN [i \in DOMAIN v |-> recv_vector(i)] ELSE <<>>]
  /\ phase' = [phase EXCEPT ![p] = @ + 1]
  /\ UNCHANGED <<call, len, aes, st, dealt, stream, vecs, out, whole>>

Fewest(a, b) == IF a < b THEN a ELSE b

\* A queue after a transfer of its head: what is left to do comes last.
Requeue(q, more, left) == IF more THEN Append(Tail(q), left) ELSE Tail(q)

\* One transfer of the write at the head of the queue.
Write(p) ==
  /\ wq[p] # <<>> /\ Len(stream[Peer(p)]) < Cap
  /\ LET ops == Head(wq[p])
         op == Head(ops)
     IN  \E k \in 1 .. Fewest(Fewest(Len(op), Chunk), Cap - Len(stream[Peer(p)])) :
           LET left == IF k = Len(op) THEN Tail(ops)
                       ELSE <<SubSeq(op, k + 1, Len(op))>> \o Tail(ops)
           IN  /\ stream' = [stream EXCEPT ![Peer(p)] = @ \o SubSeq(op, 1, k)]
               /\ wq' = [wq EXCEPT ![p] = Requeue(@, left # <<>>, left)]
               /\ whole' = (whole /\ k = Len(op))
  /\ UNCHANGED <<call, len, aes, st, phase, dealt, rq, vecs, out>>

\* Mutant of Advanced: every transfer goes to the start of the buffer.
AdvancedOverwrites(r, words) ==
  IF r.length THEN [r EXCEPT !.length = FALSE, !.need = Head(words)]
  ELSE [r EXCEPT !.need = @ - Len(words),
                 !.got = words \o [i \in DOMAIN @ |-> 0]]

\* A read that got these words: a length starts the read of the data.
Advanced(r, words) ==
  IF r.length THEN [r EXCEPT !.length = FALSE, !.need = Head(words)]
  ELSE [r EXCEPT !.need = @ - Len(words), !.got = @ \o words]

\* One transfer of the read at the head of the queue.
Read(p) ==
  /\ rq[p] # <<>> /\ stream[p] # <<>>
  /\ LET r == Head(rq[p])
     IN  \E k \in 1 .. Fewest(Fewest(r.need, Chunk), Len(stream[p])) :
           LET a == Advanced(r, SubSeq(stream[p], 1, k))
           IN  /\ stream' = [stream EXCEPT ![p] = SubSeq(@, k + 1, Len(@))]
               /\ rq' = [rq EXCEPT ![p] = Requeue(@, a.need > 0, a)]
               /\ vecs' = IF a.need > 0 THEN vecs
                          ELSE [vecs EXCEPT ![p] = Append(@, [id |-> a.id, val |-> a.got])]
               /\ whole' = (whole /\ k = r.need)
  /\ UNCHANGED <<call, len, aes, st, phase, dealt, wq, out>>

\* The vector that coroutine i of p has read.
Received(p, i) == (CHOOSE v \in Range(vecs[p]) : v.id = i).val

\* Mutant of z: the pad of the wrong vector.
zOtherPad(p) ==
  Wrap(Times(X(p), Plus(Y(p), Received(p, 2)))
       - Times(Blind(p, dealt[p].x), Received(p, 1)) + dealt[p].gamma)

\* Mutant of z: computed in a signed type that does not wrap.
zSigned(p) ==
  Times(X(p), Plus(Y(p), Received(p, 2)))
    - Times(Blind(p, dealt[p].y), Received(p, 1)) + dealt[p].gamma

\* The share of the dot product.
z(p) ==
  Wrap(Times(X(p), Plus(Y(p), Received(p, 2)))
       - Times(Blind(p, dealt[p].y), Received(p, 1)) + dealt[p].gamma)

\* The last transfer is done.  A vector of another length than the party's own
\* is refused, by the operators on vectors or by the call itself.
Finish(p) ==
  /\ Idle(p) /\ phase[p] = Len(Plan(p))
  /\ IF \A i \in DOMAIN vecs[p] : Len(vecs[p][i].val) = len[p]
     THEN /\ st' = [st EXCEPT ![p] = "done"]
          /\ out' = IF call = "dot" THEN [out EXCEPT ![p] = z(p)] ELSE out
     ELSE /\ st' = [st EXCEPT ![p] = "threw"]
          /\ UNCHANGED out
  /\ UNCHANGED <<call, len, aes, phase, dealt, stream, wq, rq, vecs, whole>>

-----------------------------------------------------------------------------
Init ==
  /\ call \in Calls
  /\ len \in [Roles -> Lens]
  /\ aes \in [Roles -> Keys]
  /\ call # "dot" => \A r, s \in Roles : aes[r] = aes[s] /\ len["P2"] = len["P0"]
  /\ st = [r \in Roles |-> IF call # "dot" /\ r = "P2" THEN "done" ELSE "run"]
  /\ phase = [p \in Parties |-> 0]
  /\ dealt = [p \in Parties |-> None]
  /\ stream = [p \in Parties |-> <<>>]
  /\ wq = [p \in Parties |-> <<>>]
  /\ rq = [p \in Parties |-> <<>>]
  /\ vecs = [p \in Parties |-> <<>>]
  /\ out = [p \in Parties |-> None]
  /\ whole = TRUE

PartyStep(p) == Proceed(p) \/ Write(p) \/ Read(p) \/ Finish(p)

Next == Deal \/ \E p \in Parties : PartyStep(p)

\* Three processes, each with an event loop that serves what is ready.
Spec == Init /\ [][Next]_vars
FairSpec == Spec /\ WF_vars(Deal) /\ \A p \in Parties : WF_vars(PartyStep(p))

-----------------------------------------------------------------------------
TypeOK ==
  /\ st \in [Roles -> {"run", "done", "threw"}]
  /\ \A p \in Parties :
       /\ phase[p] \in 0 .. Len(Plan(p))
       /\ Len(stream[p]) <= Cap
       /\ stream[p] \in Seq(Nat)
       /\ \A i \in DOMAIN rq[p] : rq[p][i].need > 0
       /\ out[p] \in AWord \cup {None}

\* Two coroutines that share a socket never take each other's lengths, however
\* the transfers are cut up: every vector has the length it was sent with.
LengthsRight ==
  \A p \in Parties : \A i \in DOMAIN vecs[p] :
    Len(vecs[p][i].val) = len[Peer(p)]

\* As long as every write and every read moved its buffer in one transfer, the
\* vectors are the ones that were sent, although the two lengths and the two
\* pieces of data are interleaved on the wire.
IntactWhenWhole ==
  whole => \A p \in Parties : \A i \in DOMAIN vecs[p] :
             vecs[p][i].val = Sends(Peer(p))[vecs[p][i].id]

\* A single vector on the socket arrives intact however it is cut up.
AloneIntact ==
  call # "dot" => \A p \in Parties : \A i \in DOMAIN vecs[p] :
                    vecs[p][i].val = Sends(Peer(p))[vecs[p][i].id]

\* The shares of the dot product add up to the product of the two vectors that
\* are shared, when the three processes' keys agree, and their lengths.
DotCorrect ==
  /\ whole /\ \A p \in Parties : out[p] # None
  /\ \A r, s \in Roles : aes[r] = aes[s] /\ len[r] = len[s]
  => CombineA(out["P0"], out["P1"]) = Times(Plus(X("P0"), X("P1")), Plus(Y("P0"), Y("P1")))

\* Both parties end the call, also when the vectors do not fit the socket
\* buffers: all but reconstruct_remote_vector, where both parties write
\* before they read and need that at least one of the vectors fits.
Ends ==
  \/ call = "reconstruct" /\ \A p \in Parties : 1 + len[p] > Cap
  \/ <>(\A p \in Parties : st[p] # "run")
=============================================================================
