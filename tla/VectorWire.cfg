\* Vectors of up to two two-bit words through buffers of two words.
CONSTANTS
  W = 2
  Calls = {"dot", "reconstruct", "locoram"}
  Lens = {0, 2}
  XIn <- MCXIn
  YIn <- MCYIn
  Cap = 2
  Chunk = 2
  Prg <- MCPrg
  Draws <- MCDraws
  None = None
SPECIFICATION FairSpec
INVARIANTS TypeOK LengthsRight IntactWhenWhole AloneIntact DotCorrect
PROPERTIES Ends
CHECK_DEADLOCK FALSE
