\* A program with an mpc_and.
CONSTANTS
  Program <- MulAndProgram
  Launches <- OneReplay
  Garbage = {0}
  MaxKills = 0
SPECIFICATION Spec
INVARIANTS P2Replays
CHECK_DEADLOCK FALSE
