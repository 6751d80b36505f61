\* The owner ignores its futures and destroys the manager.
CONSTANTS
  W = 2
  Plans <- IgnoredPlans
  Order = 5
  Oracle <- MCOracle
  SenderDraws <- MCSenderDraws
  ReceiverDraws = {1}
  MaxKills = 0
SPECIFICATION FairSpec
PROPERTIES Termination
CHECK_DEADLOCK FALSE
