\* x == 0 on four-bit words: the mask, four leaves, a tree of three ORs, an mpc_and, opened.
CONSTANTS
  W = 4
  Program <- EqzProgram
  InA = {0, 1, 15}
  RandA = {0, 7, 15}
  InX = {}
  RandX = {{0, 1}}
  MaxCrashes = 0
SPECIFICATION Spec
INVARIANTS EqzReportsNonzero
PROPERTIES ImplementsIdeal
CHECK_DEADLOCK FALSE
