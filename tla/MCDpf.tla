-------------------------------- MODULE MCDpf --------------------------------
(* The PRG keys and leaf types on which Dpf is model-checked.               *)
EXTENDS Dpf

\* Four functions: each mixes the seed with one of two blocks for each
\* value of bit 2 of the seed and each index.
MCPrg ==
  [k \in {{0}, {0, 1}, {0, 2}, {1, 2, 3}} |->
    [x \in Seeds |->
      [i \in Two |-> Xor(x, IF i + (IF 2 \in x THEN 2 ELSE 0) \in k
                            THEN {0, 2} ELSE {1, 2, 3})]]]

\* uint64_t (two leaves to a node), __m128i, and std::array<__m128i, 2>.
MCLayouts == {[lpn |-> 2, npl |-> 1], [lpn |-> 1, npl |-> 1], [lpn |-> 1, npl |-> 2]}
=============================================================================
