CONSTANTS
  NServers = 1
  NFrames = 2
  NPix = 3
  MaxLump = 2
  MaxPipes = 0
  NeedTree = {2}
  FilePix = 2
  Faults <- RequeuedFaults
  Commands <- RequeuedCommands
SPECIFICATION ResumeSpec
INVARIANTS SpansInclusive OnlyTornMissing
PROPERTIES RestartResumes
