------------------------------- MODULE OTCalls -------------------------------
(***************************************************************************)
(* The interface of OTManager (mpc/ot_manager.hpp): who calls what, and    *)
(* what a future may hold.  OTManager implements it over a socket, IdealOT *)
(* says what its callers may rely on.                                      *)
(***************************************************************************)
EXTENDS Words, Sequences

Sides == {"P0", "P1"}
Other(s) == IF s = "P0" THEN "P1" ELSE "P0"

Senders   == {"ot_send", "send_batch"}
Receivers == {"ot_receive", "recv_batch"}

\* A call: the API, its argument n, and the messages of a sender; size is the
\* length of the vector of messages or choices that it is given.  The batch
\* calls ignore n, and print the first element of that vector.
IsCall(c) ==
  /\ c.api \in Senders \cup Receivers
  /\ c.n \in Nat /\ c.size \in Nat
  /\ c.api \in {"send_batch", "recv_batch"} => c.size > 0
  /\ c.api \in Senders => c.msgs \in Seq(XWord \X XWord) /\ Len(c.msgs) = c.size

\* The two checks with which ot_send and ot_receive begin.
Rejected(c) == c.api \in {"ot_send", "ot_receive"} /\ c.size # c.n
Trivial(c) == c.api \in {"ot_send", "ot_receive"} /\ c.size = c.n /\ c.n = 0

\* A call that ends before anything is transferred.
Mute(c) == Rejected(c) \/ Trivial(c)

Partner(api) ==
  CASE api = "ot_send" -> "ot_receive"    [] api = "ot_receive" -> "ot_send"
    [] api = "send_batch" -> "recv_batch" [] api = "recv_batch" -> "send_batch"

\* Calls c and d of the two sides are the ends of one transfer, or of none.
Match(c, d) ==
  /\ d.api = Partner(c.api) /\ c.size = d.size
  /\ Mute(c) <=> Mute(d)

\* The choice bits that a call may be given.
ChoicesOf(c) == IF c.api \in Receivers THEN [1 .. c.size -> BOOLEAN] ELSE {<<>>}

\* The states of a future.
Pending == [is |-> "pending", v |-> <<>>]
Thrown == [is |-> "exception", v |-> <<>>]
Value(v) == [is |-> "value", v |-> v]

\* pairs[i][c], c a choice bit.
Pick(pairs, q) == [i \in DOMAIN q |-> pairs[i][IF q[i] THEN 2 ELSE 1]]
=============================================================================
