CONSTANTS
  Word = 256
  PageSize = 8
  MaxAlign = 4
  Threads = {t1, t2, t3}
  Requests <- MixedRequests
  MaxTake = 20
  UsableSizes = {0, 17}
  MaxAllocSizes = {5, 80}
  Mappings = {136}
  NoBlock = NoBlock
SPECIFICATION Spec
SYMMETRY ThreadSymmetry
INVARIANTS TypeOK BlocksDisjoint OverflowHitsGuard UsedBytesCoverBlocks
PROPERTIES ImplementsArena
