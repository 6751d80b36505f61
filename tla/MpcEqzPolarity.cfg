\* As MpcEqz, with the polarity that the name of the operation promises.
CONSTANTS
  W = 2
  Program <- EqzProgram
  InA = {0, 1}
  RandA = {0, 1}
  InX = {}
  RandX = {{}}
  MaxCrashes = 0
SPECIFICATION Spec
INVARIANTS EqzReportsEquality
CHECK_DEADLOCK FALSE
