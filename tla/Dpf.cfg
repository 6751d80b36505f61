\* Blocks of four bits; uint64_t leaves are then two bits.
CONSTANTS
  W = 4
  Layouts <- MCLayouts
  Prg <- MCPrg
  Roots = {{0, 3}, {1, 2}}
  Sizes = {1, 2, 5, 6}
  Vals = {{0, 3}}
  Junk = Junk
  None = None
SPECIFICATION Spec
INVARIANTS TypeOK PathInvariant PointCorrect IntervalMatchesEval FlagsAreUnitVector
CHECK_DEADLOCK FALSE
