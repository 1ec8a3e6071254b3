CONSTANTS
  NServers = 2
  NFrames = 1
  NPix = 2
  MaxLump = 1
  MaxPipes = 0
  NeedTree = {}
  FilePix = 0
  Faults = {}
  Commands = {}
SPECIFICATION ResumeSpec
INVARIANTS NoPixelLost
