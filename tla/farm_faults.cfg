CONSTANTS
  NServers = 2
  NFrames = 2
  NPix = 2
  MaxLump = 1
  MaxPipes = 1
  NeedTree = {2}
  MaxFaults = 1
  Hangs = TRUE
  Restarts = TRUE
  MatrixFails = TRUE
SPECIFICATION FarmSpec
INVARIANTS RenderedWithOwnView NoLinesIgnored AnswersExpected WorkUnderWay
