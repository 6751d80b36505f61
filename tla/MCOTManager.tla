----------------------------- MODULE MCOTManager -----------------------------
(* Plans on which OTManager is model-checked.                              *)
EXTENDS OTImplementsIdeal

Sender(api, n, msgs) == [api |-> api, n |-> n, size |-> Len(msgs), msgs |-> msgs]
Receiver(api, n, size) == [api |-> api, n |-> n, size |-> size]

M0 == {}
M1 == {0}

\* Two transfers of one message each, as ot_tests makes them.
TwoTransfers ==
  [P0 |-> <<Sender("ot_send", 1, <<<<M0, M1>>>>), Sender("ot_send", 1, <<<<M1, M0>>>>)>>,
   P1 |-> <<Receiver("ot_receive", 1, 1), Receiver("ot_receive", 1, 1)>>]

\* A batch of two random OTs, a transfer, an empty one, and one whose n does not match what the
\* sender passes.
UnequalCalls ==
  [P0 |-> <<Sender("send_batch", 2, <<<<M0, M1>>, <<M0, M1>>>>), Sender("ot_send", 1, <<<<M1, M0>>>>),
            Sender("ot_send", 0, <<>>), Sender("ot_send", 2, <<<<M0, M1>>>>)>>,
   P1 |-> <<Receiver("recv_batch", 2, 2), Receiver("ot_receive", 1, 1),
            Receiver("ot_receive", 0, 0), Receiver("ot_receive", 1, 1)>>]

\* A batch of one random OT, and nothing after it.
OneBatch ==
  [P0 |-> <<Sender("send_batch", 1, <<<<M0, M1>>>>)>>, P1 |-> <<Receiver("recv_batch", 1, 1)>>]

Await(script) == [script |-> script, await |-> TRUE]
Ignore(script) == [script |-> script, await |-> FALSE]

AllPlans == {Ignore(TwoTransfers), Await(TwoTransfers), Await(UnequalCalls), Await(OneBatch)}
IgnoredPlans == {Ignore(OneBatch)}

\* A group of order 5, and an oracle that depends on all of its inputs.
MCOracle ==
  [x \in (0 .. 4) \X (0 .. 1) \X (0 .. 1) |-> Bits((x[1] + x[2] + 2 * x[3]) % 4)]
MCSenderDraws == {[a |-> 1, seed |-> 0], [a |-> 3, seed |-> 1]}
=============================================================================
