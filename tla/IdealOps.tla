------------------------------ MODULE IdealOps ------------------------------
(***************************************************************************)
(* What the three-party operations promise: a program over secrets that    *)
(* one trusted machine executes, step after step, on the values            *)
(* themselves.  There are no shares, no dealer and no messages; a result   *)
(* never changes once it is there.                                         *)
(*                                                                         *)
(* MpcOps implements this specification: see MpcImplementsIdeal.           *)
(***************************************************************************)
EXTENDS Words, Sequences

CONSTANT Program    \* the program of MpcOps

VARIABLE val        \* val[j]: the value of step j, of the steps done so far

\* The values that step s may have.  An input is any word.  The word that
\* mpc_eqz reduces to one bit is promised to be zero exactly if its operand
\* is; nothing else is said of it.
Values(s) ==
  CASE s.op = "inA" -> AWord
    [] s.op = "inX" -> XWord
    [] s.op = "mul" -> {Wrap(val[s.a] * val[s.b])}
    [] s.op = "and" -> {val[s.a] \cap val[s.b]}
    [] s.op = "or" -> {val[s.a] \cup val[s.b]}
    [] s.op = "mask" -> {w \in XWord : (w = {}) <=> (val[s.a] = 0)}
    [] s.op = "bit" -> {BitOf(val[s.a], s.b)}
    [] s.op \in {"openA", "openX"} -> {val[s.a]}

Init == val = <<>>

Compute ==
  /\ Len(val) < Len(Program)
  /\ \E v \in Values(Program[Len(val) + 1]) : val' = Append(val, v)

Spec == Init /\ [][Compute]_val
=============================================================================
