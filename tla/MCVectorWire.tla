---------------------------- MODULE MCVectorWire ----------------------------
(* The vectors, seeds and keys on which VectorWire is model-checked.        *)
EXTENDS VectorWire

MCXIn == [p \in Parties |-> IF p = "P0" THEN <<1, 2, 3>> ELSE <<3, 0, 2>>]
MCYIn == [p \in Parties |-> IF p = "P0" THEN <<2, 3, 1>> ELSE <<1, 1, 3>>]

\* Two keys and two seeds, two blocks of each.
MCPrg ==
  [k \in {0, 1} |-> [s \in {0, 1} |->
    IF k = s THEN <<<<1, 3>>, <<0, 2>>>> ELSE <<<<2 + k, 0>>, <<3, 1 + s>>>>]]

MCDraws ==
  {[p \in Parties |-> [x |-> 0, y |-> 1]],
   [p \in Parties |-> IF p = "P0" THEN [x |-> 0, y |-> 0] ELSE [x |-> 1, y |-> 0]]}
=============================================================================
