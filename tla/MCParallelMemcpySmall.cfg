CONSTANTS
  ThreadCounts = {0, 1, 3}
  HardwareThreads = {1, 2, 3, 4}
  MaxDefaultThreads = 2
  MaxWorkers = 3
  MaxSize = 4
  GenMod = 2
SPECIFICATION Spec
INVARIANTS SmallCopiesStayInline
