----------------------------- MODULE MCMpcOps -----------------------------
(* Programs on which MpcOps is model-checked.                              *)
EXTENDS MpcImplementsIdeal

S(op, a, b) == [op |-> op, a |-> a, b |-> b]

\* x == 0, then its conjunction with the lowest bit of the masked word; opened.
EqzProgram ==
  <<S("inA", 0, 0)>> \o EqzSteps(1, 2)
    \o <<S("and", 1 + 2 * W, 3), S("openX", 1 + 2 * W, 0)>>

\* An operation of each kind: the dealer runs ahead of messages of different
\* types and lengths.
MixedProgram ==
  <<S("inA", 0, 0), S("mul", 1, 1), S("mask", 2, 0), S("bit", 3, W - 1),
    S("or", 4, 4), S("openX", 5, 0), S("openA", 2, 0)>>

\* `x == 0` opens to 1 if the secret is not zero and to 0 if it is: what
\* mpc_eqz returns is the OR of the bits.
EqzReportsNonzero ==
  \A p \in Parties :
    Len(reg[p]) = Len(Program) =>
      reg[p][Len(Program)] = IF Secret(1) = 0 THEN {} ELSE {0}

\* The polarity that the names promise: `x == 0` opens to 1 if, and only if, the
\* secret is zero.
EqzReportsEquality ==
  \A p \in Parties :
    Len(reg[p]) = Len(Program) =>
      reg[p][Len(Program)] = IF Secret(1) = 0 THEN {0} ELSE {}
=============================================================================
