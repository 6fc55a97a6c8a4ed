SPECIFICATION Spec
CONSTANTS
  NPROC = 2
  NCPU = 1
  NQUEUES = 2
  TIME_SLICE <- MCSlices
  PROMO_THRESHOLD = 1
  TickCap = 1
  WaitCap = 1
  Victims = {1}
  NoProc = NoProc
  NoCpu = NoCpu
PROPERTY
  DemotedOnExpiry
