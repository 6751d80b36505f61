\* The counters as MPCContext leaves them.
CONSTANTS
  Program <- MulProgram
  Launches <- OneReplay
  Garbage = {0, 1}
  MaxKills = 0
SPECIFICATION Spec
INVARIANTS PartiesReplay
CHECK_DEADLOCK FALSE
