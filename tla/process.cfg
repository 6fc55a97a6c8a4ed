SPECIFICATION MCSpec
CONSTANTS
  Procs = {p1, p2}
  First = p1
  None = None
  PGSIZE = 2
  FAN = 2
  TRAPFRAME = 4
  NPAGES = 35
  KERNEND = 1
  MaxCalls = 16
  Programs <- MCPrograms
  SbrkSizes <- MCSbrkSizes
  NFILE = 3
  NOFILE = 2
  PipePages = {1}
  NALLOC = 3
  HeapEnd = 9
  Requests = {1, 2, 4}
  Pids = {1, 2, 3, 4, 5, 6}
  MAXARGS = 3
  NFD = 5
INVARIANTS
  PagesOwned
  OpenFilesCounted
  HeapSound
  ParserRight
  RunsAsWritten
PROPERTIES FlatMemory PromptReturns
CHECK_DEADLOCK FALSE
