SPECIFICATION FairSpec
CONSTANTS
  Procs = {p1, p2}
  Creator = p1
  None = none
  Bytes = {0, 1}
  Junk = 0
  PIPESIZE = 2
  UINT = 4
  MaxLen = 3
  Mortal = {p2}
INVARIANTS
  NoUseAfterFree
  SleepersNotForgotten
PROPERTY
  Fifo
  SleepersWake
CHECK_DEADLOCK FALSE
