SPECIFICATION Spec
CONSTANTS
  Names = {cube, ball, tube}
  cube = cube
  ball = ball
  tube = tube
  Free = Free
  Sizes = {1, 3}
  Large = 2
  MaxEof = 8
  InitialFiles <- MCFiles
INVARIANTS
  TypeOK
  StorageAccounted
  FileTellsAll
  WritesSpareOthers
  OthersStayWhole
  OthersStayReachable
PROPERTIES
  FailedFileLeftAlone
  StorageSpec
