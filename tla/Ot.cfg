\* Two transfers, awaited or not; two random OTs, a transfer, an empty and a rejected
\* one, each awaited; a batch with nothing after it; a process may be killed.
CONSTANTS
  W = 2
  Plans <- AllPlans
  Order = 5
  Oracle <- MCOracle
  SenderDraws <- MCSenderDraws
  ReceiverDraws = {1, 3}
  MaxKills = 1
SPECIFICATION FairSpec
INVARIANTS TypeOK OutputCorrect NoLostWakeup Drained
PROPERTIES FuturesSettle AwaitedTermination ImplementsIdealOT
CHECK_DEADLOCK FALSE
