SPECIFICATION FairSpec
CONSTANTS
  Procs = {p1, p2, p3}
  Blocks = {b1, b2, b3}
  Values = {0, 1}
  Zero = 0
  LOGBLOCKS = 2
  MAXOPBLOCKS = 1
INVARIANTS
  NoPanic
  QuietIsDurable
  RecycleIsSafe
PROPERTY
  SleeperWakes
  AtomicWrites
