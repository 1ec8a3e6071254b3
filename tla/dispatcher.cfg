CONSTANTS
  NServers = 2
  NFrames = 2
  NPix = 2
  MaxLump = 2
  MaxPipes = 1
  NeedTree = {}
  Faults = {"eof", "send", "setup", "tardy", "mismatch", "slow", "hours", "write"}
  Commands = {"stop"}
SPECIFICATION Spec
INVARIANTS TypeOK NoPixelLost NoWorkStranded FinishedComplete NoDoubleAssignment WorkHasView MovieDedicates
PROPERTIES ImplementsPool
