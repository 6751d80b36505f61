------------------------- MODULE MpcImplementsIdeal -------------------------
(***************************************************************************)
(* MpcOps implements IdealOps: a step is done when both parties have its   *)
(* result, and its value is the secret behind the two shares, or the word  *)
(* that P0 has opened.                                                     *)
(***************************************************************************)
EXTENDS MpcOps

Opened(j) == Program[j].op \in OpenOps

Ideal == INSTANCE IdealOps WITH
           val <- [j \in Shared |-> IF Opened(j) THEN reg["P0"][j] ELSE Secret(j)]

\* Whatever the interleaving of the three processes and wherever one of them
\* dies, what the two parties hold together is at every moment what a trusted
\* machine would have computed on the secrets: each operation of mpcops.hpp
\* gives the right value, in program order, and no result changes later.
ImplementsIdeal == Ideal!Spec
=============================================================================
