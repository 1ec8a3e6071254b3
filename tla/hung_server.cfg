CONSTANTS
  NServers = 1
  NFrames = 1
  NPix = 1
  MaxLump = 1
  MaxPipes = 1
  NeedTree = {}
  MaxFaults = 1
  Hangs = TRUE
  Restarts = FALSE
  MatrixFails = FALSE
SPECIFICATION FairFarmSpec
PROPERTIES HungServerDropped
