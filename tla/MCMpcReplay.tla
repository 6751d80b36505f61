----------------------------- MODULE MCMpcReplay -----------------------------
(* Programs on which MpcReplay is model-checked.                           *)
EXTENDS MpcReplay

\* The operations of mpcops_test, in an order that mixes them.
TestProgram == <<"mul", "mask", "and", "mul">>
MulProgram == <<"mul", "mask">>
MulAndProgram == <<"mul", "and">>

OneReplay == <<"Record", "Replay">>
TwoRecordings == <<"Record", "Record", "Replay">>
=============================================================================
