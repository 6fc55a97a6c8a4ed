SPECIFICATION Spec
CONSTANTS
  p1 = p1
  p2 = p2
  Procs = {p1, p2}
  i1 = i1
  i2 = i2
  Inodes = {i1, i2}
  f1 = f1
  f2 = f2
  Files = {f1, f2}
  d1 = d1
  d2 = d2
  d3 = d3
  d4 = d4
  Data = {d1, d2, d3, d4}
  InodeOf <- MCInodeOf
  Opened <- MCOpened
  BBLOCK <- MCBBLOCK
  None = None
  Old = Old
  BSIZE = 2
  NDIRECT = 1
  WORD = 1
  MAXOPBLOCKS = 6
  UINT = 16
  Straddling = {p2}
  WriteLens = {3}
  ReadLens <- MCReadLens
SYMMETRY Symmetry
INVARIANTS
  WithinLimits
  InodesComplete
PROPERTY FilesAreBytes
