CONSTANTS
  NServers = 2
  NFrames = 1
  NPix = 2
  MaxLump = 2
  MaxPipes = 0
  NeedTree = {1}
  FilePix = 0
  Faults <- AllFaults
  Commands <- AllCommands
SPECIFICATION ResumeSpec
INVARIANTS NoDoubleAssignment
PROPERTIES StopHolds FinishedUntouched
