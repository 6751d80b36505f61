------------------------------ MODULE MCLocoram ------------------------------
(* The calls, pads and arrays on which Locoram is model-checked.            *)
EXTENDS Locoram

\* locoram_test, followed by a second update and a read of the other kind.
MCProgram == <<"update", "reconstruct", "readX", "open", "update", "reconstruct", "readA">>

MCShares == {Zero, [Zero EXCEPT ![2] = {0}]}
MCPads == {[i \in Index |-> IF i = 2 THEN {1} ELSE {0}]}
MCFlagPads == {NoBits, [i \in Index |-> i < nitems \div LPN /\ i # 1]}
=============================================================================
