SPECIFICATION Spec
CONSTANTS
  Names = {cube, ball}
  cube = cube
  ball = ball
  Free = Free
  Sizes = {1, 2, 3}
  Large = 2
  MaxEof = 8
  InitialFiles <- MCDamaged
INVARIANTS
  ErrorIsNotEof
