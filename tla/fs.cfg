SPECIFICATION Spec
CONSTANTS
  p1 = p1
  p2 = p2
  Procs = {p1, p2}
  First = p1
  Names = {"a", "b"}
  NInodes = 3
  Calls <- MCCalls
  FullDisk = TRUE
  MaxOps = 3
  MaxLinks = 2
  None = None
INVARIANTS
  ReferencesHold
  
  NobodyStuck
  DurableTree
