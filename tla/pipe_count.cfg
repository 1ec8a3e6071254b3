CONSTANTS
  NServers = 2
  NFrames = 1
  NPix = 1
  MaxLump = 1
  MaxPipes = 2
  NeedTree = {}
  Faults = {"eof"}
  Commands = {}
SPECIFICATION Spec
INVARIANTS PipesCounted
