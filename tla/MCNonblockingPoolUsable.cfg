CONSTANTS
  Word = 128
  PageSize = 8
  MaxAlign = 4
  Threads = {t1, t2, t3}
  Requests <- NaturalRequests
  MaxTake = 4
  UsableSizes = {0, 9}
  MaxAllocSizes = {4, 12}
  Mappings = {64}
  NoBlock = NoBlock
SPECIFICATION Spec
INVARIANTS UsableBytesExact
