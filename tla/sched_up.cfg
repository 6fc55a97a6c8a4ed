SPECIFICATION UserTickSpec
CONSTANTS
  NPROC = 3
  NCPU = 1
  NQUEUES = 2
  TIME_SLICE <- MCSlices
  PROMO_THRESHOLD = 1
  TickCap = 1
  WaitCap = 1
  Victims = {1}
  NoProc = NoProc
  NoCpu = NoCpu
INVARIANTS
  NoOrphan
  RunningIffOnCpu
  
PROPERTY
  LifeCycle
  
