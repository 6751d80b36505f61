\* mpc_mul, the mask of mpc_eqz and mpc_or in one program, any one process killed at any point.
CONSTANTS
  W = 3
  Program <- MixedProgram
  InA = {3}
  RandA = {5}
  InX = {}
  RandX = {{}, {0, 2}}
  MaxCrashes = 1
SPECIFICATION FairSpec
INVARIANTS TypeOK Aligned OpCorrect OpenCorrect CleanRun IndInv
PROPERTIES Termination ImplementsIdeal
CHECK_DEADLOCK FALSE
