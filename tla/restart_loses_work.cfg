CONSTANTS
  NServers = 2
  NFrames = 1
  NPix = 1
  MaxLump = 1
  MaxPipes = 1
  NeedTree = {}
  MaxFaults = 1
  Hangs = FALSE
  Restarts = TRUE
  MatrixFails = FALSE
SPECIFICATION FarmSpec
INVARIANTS WorkReassigned
