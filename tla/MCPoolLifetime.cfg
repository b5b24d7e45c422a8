CONSTANTS
  Pools = {p1, p2, p3}
  Mappings = {m1, m2, m3}
  Null = Null
  MaxSlots = 2
  MaxBlocks = 2
SPECIFICATION Spec
INVARIANTS TypeOK CursorFollowsMapping ListedWhileOwned
PROPERTIES StaysListed AssignmentKeepsSource ImplementsSharedBlocks
