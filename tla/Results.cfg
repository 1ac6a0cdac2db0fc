\* All files of up to three lines; a jump is a growth by more than one.
SPECIFICATION Spec
CONSTANTS
  Program <- MCPrograms
  MaxLines = 3
  Values = {0, 1, 3}
  Jump = 1
  Period = 300
INVARIANTS
  ThroughputJoined
  OomFromJump
  CountsAddUp
