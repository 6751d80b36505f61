----------------------------- MODULE SimplestOT -----------------------------
(***************************************************************************)
(* What SimplestOT::send and SimplestOT::receive compute                   *)
(* (libOTe/Base/SimplestOT.cpp), message by message; OTManager says when.  *)
(*                                                                         *)
(* The curve is a cyclic group: the point k * G is written k, a number     *)
(* modulo the order of the generator G.  The random oracle is a function.  *)
(***************************************************************************)
EXTENDS Words, Sequences

CONSTANTS
  Order,          \* the order of the group
  Oracle,         \* Oracle[<<point, i, seed>>]: a block
  SenderDraws,    \* a and the seed that the sender may draw
  ReceiverDraws   \* b[i] that the receiver may draw

\* No product of a point and a number is the identity, on which libsodium's
\* multiplication throws: it is for about one draw in 2^252.
ASSUME CurveAssumption ==
  /\ Order \in Nat \ {0}
  /\ \A d \in SenderDraws : d.a \in 1 .. (Order - 1)
  /\ ReceiverDraws \subseteq 1 .. (Order - 1)
  /\ \A d \in SenderDraws, b \in ReceiverDraws : d.a + b # Order
  /\ \A x \in DOMAIN Oracle : Oracle[x] \in XWord

mulGenerator(k) == k % Order
Mul(P, k) == (P * k) % Order
Add(P, Q) == (P + Q) % Order
Sub(P, Q) == (P - Q) % Order

\* RandomOracle on the seed alone: no two seeds have the same commitment.
Commit(seed) == <<"comm", seed>>

\* Mutant of ChosenB: the receiver subtracts A.
ChosenBNegated(A, b, c) == IF c THEN Sub(mulGenerator(b), A) ELSE mulGenerator(b)

\* The receiver's point B[choices[i]]: B[1] is A + B[0].
ChosenB(A, b, c) == IF c THEN Add(A, mulGenerator(b)) ELSE mulGenerator(b)

\* The receiver's block i.
ReceiverPad(A, b, i, seed) == Oracle[<<Mul(A, b), i, seed>>]

\* The sender's pair i, from the point that the receiver sent.
SenderPads(a, B, i, seed) ==
  LET aB == Mul(B, a)
      aA == Mul(mulGenerator(a), a)
  IN  <<Oracle[<<aB, i, seed>>], Oracle[<<Sub(aB, aA), i, seed>>]>>
=============================================================================
