------------------------------- MODULE Words -------------------------------
(***************************************************************************)
(* Machine words and the share algebra built on them (mpc/shares.hpp,      *)
(* mpc/mpcops.hpp, mpc/types.hpp).                                         *)
(*                                                                         *)
(* A uint64_t has two uses in the code.  As an additive share it is a      *)
(* number modulo 2^W and C++ arithmetic wraps; as an XOR share it is a     *)
(* vector of W bits.  Additive words are numbers here, XOR words are the   *)
(* set of the positions of their 1 bits, so that ^ is symmetric difference *)
(* and & is intersection.  Bits(n) converts the first into the second.     *)
(***************************************************************************)
EXTENDS Integers

CONSTANT W              \* bits in a word (64 in the code)

Modulus == 2 ^ W

\* The second conjunct follows from the first; it is stated because the
\* provers know nothing of exponentiation.
ASSUME WordSize == W \in Nat \ {0} /\ Modulus \in Nat \ {0}

\* So do these facts about the weights of the bits.
ASSUME PowersOfTwo ==
  /\ 2 ^ 0 = 1
  /\ \A i \in 0 .. (W - 1) : 2 ^ i \in Nat \ {0} /\ 2 ^ (i + 1) = 2 * 2 ^ i

AWord == 0 .. (Modulus - 1)
XWord == SUBSET (0 .. (W - 1))

\* Unsigned arithmetic wraps around.
Wrap(n) == n % Modulus

Xor(a, b) == (a \ b) \cup (b \ a)

\* The bits (n >> i) & 1 of an additive word.
Bits(n) == {i \in 0 .. (W - 1) : (n \div 2 ^ i) % 2 = 1}

\* The word whose only bit that may be set is bit 0: (w >> i) & 1.
BitOf(w, i) == IF i \in w THEN {0} ELSE {}

-----------------------------------------------------------------------------
(* Reconstruction of a shared secret from the two shares.                  *)

CombineA(s0, s1) == Wrap(s0 + s1)
CombineX(s0, s1) == Xor(s0, s1)

-----------------------------------------------------------------------------
(* Correlated randomness.  P2 draws d = [X0, Y0, X1, Y1] and derives one   *)
(* triple (X, Y, gamma) per party.                                         *)

\* mpc_mul, as stored on the tapes of a recording run.
MulTape(p, d) ==
  IF p = "P0" THEN <<d.X0, d.Y0, Wrap(d.X0 * d.Y1)>>
              ELSE <<d.X1, d.Y1, Wrap(d.X1 * d.Y0)>>

\* mpc_mul, as sent on the wire: P0 reads X0, X1 and P1 reads Y0, Y1 into
\* their local X, Y.
MulWire(p, d) ==
  IF p = "P0" THEN <<d.X0, d.X1, Wrap(d.X0 * d.Y1)>>
              ELSE <<d.Y0, d.Y1, Wrap(d.X1 * d.Y0)>>

\* mpc_and, wire and tape alike.
AndTriple(p, d) ==
  IF p = "P0" THEN <<d.X0, d.Y0, d.X0 \cap d.Y1>>
              ELSE <<d.X1, d.Y1, d.X1 \cap d.Y0>>

\* mpc_eqz: shares of the mask r, additive and XOR.
EqzMask(p, d) ==
  IF p = "P0" THEN <<d.r0AS, d.r0XS>>
              ELSE <<Wrap(d.r - d.r0AS), Xor(Bits(d.r), d.r0XS)>>

-----------------------------------------------------------------------------
(* What a party sends to its peer, given its shares x, y and material m,   *)
(* and its output share once it holds the peer's blinded values t.         *)

MulBlind(x, y, m) == <<Wrap(x + m[1]), Wrap(y + m[2])>>
AndBlind(x, y, m) == <<Xor(x, m[1]), Xor(y, m[2])>>
EqzBlind(x, m)    == <<Wrap(x + m[1])>>

MulShare(x, y, m, t) == Wrap(x * (y + t[2]) - m[2] * t[1] + m[3])

\* Mutant of AndShare: gamma is forgotten.
AndShareNoGamma(x, y, m, t) == Xor(x \cap Xor(y, t[2]), m[2] \cap t[1])

AndShare(x, y, m, t) ==
  Xor(Xor(x \cap Xor(y, t[2]), m[2] \cap t[1]), m[3])

\* Mutant of OrShare: only one operand is added to the conjunction.
OrShareOneOperand(x, y, m, t) == Xor(x, AndShare(x, y, m, t))

OrShare(x, y, m, t) == Xor(Xor(x, y), AndShare(x, y, m, t))

\* Mutant of EqzShare: both parties add the opened word.
EqzShareBoth(p, x, m, t) == Xor(Bits(Wrap(x + m[1] + t[1])), m[2])

\* The shared word whose bits mpc_eqz puts on the leaves of its OR tree.
EqzShare(p, x, m, t) ==
  IF p = "P0" THEN m[2]
              ELSE Xor(Bits(Wrap(x + m[1] + t[1])), m[2])
=============================================================================
