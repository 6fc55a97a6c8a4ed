SPECIFICATION Spec
CONSTANTS
  Procs = {p1, p2, p3}
  Bufs = {b1, b2}
  Blocks = {k1, k2, k3}
  Values = {0, 1}
  None = none
  NUM = 4
  IDX = 4
SYMMETRY Symmetry
INVARIANTS
  CacheSound
  TransfersComplete
  NothingLost
  WaitersWake
PROPERTY
  OnlyHolderWrites
