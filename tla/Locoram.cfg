\* The array of locoram_test with two-bit words: an update, a reconstruction, a read, and more.
CONSTANTS
  W = 2
  nitems = 6
  LPN = 2
  Program <- MCProgram
  UpdAlpha = 2
  UpdValue = {0, 1}
  ReadAlpha = 5
  ValShares = {{0}, {1}}
  IdxShares = {3, 6}
  Shares <- MCShares
  Pads <- MCPads
  FlagPads <- MCFlagPads
SPECIFICATION FairSpec
INVARIANTS TypeOK ReconstructCorrect FirstReadCorrect
PROPERTIES Termination
CHECK_DEADLOCK FALSE
