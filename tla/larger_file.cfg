CONSTANTS
  NServers = 1
  NFrames = 1
  NPix = 3
  MaxLump = 2
  MaxPipes = 0
  NeedTree = {}
  FilePix = 4
  Faults = {"mismatch"}
  Commands = {}
SPECIFICATION ResumeSpec
INVARIANTS SpansInclusive
