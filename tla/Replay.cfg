\* Any counters, two recordings and a replay, any of which may be cut short.
CONSTANTS
  Program <- TestProgram
  Launches <- TwoRecordings
  Garbage = {0, 1}
  MaxKills = 1
SPECIFICATION FairSpec
INVARIANTS TypeOK Matched ReplayIfCountersAgree
PROPERTIES Termination
CHECK_DEADLOCK FALSE
