CONSTANTS
  Word = 128
  PageSize = 8
  MaxAlign = 4
  Threads = {t1, t2, t3}
  Requests <- SmallRequests
  MaxTake = 5
  UsableSizes = {0, 5}
  MaxAllocSizes = {5, 15}
  Mappings = {64}
  NoBlock = NoBlock
  NoThread = NoThread
SPECIFICATION Spec
SYMMETRY ThreadSymmetry
INVARIANTS TypeOK MappedWhileInUse NothingWasted
PROPERTIES ImplementsArena
