CONSTANTS
  NServers = 2
  NFrames = 1
  NPix = 2
  MaxLump = 1
  MaxPipes = 2
  NeedTree = {}
  MaxFaults = 1
  Hangs = FALSE
  Restarts = FALSE
  MatrixFails = FALSE
SPECIFICATION FairFarmSpec
PROPERTIES JobEnds
