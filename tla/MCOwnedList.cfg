CONSTANTS
  Lists = {l1, l2}
  Temp = tmp
  Nodes = {n1, n2, n3, n4, n5, n6}
  Values = {v1, v2}
  Moved = moved
  Allocators = {a1, a2}
  Null = Null
  Kinds <- ListKinds
SPECIFICATION Spec
SYMMETRY NodeSymmetry
INVARIANTS TypeOK NodesOfOwnAllocator ChainsDisjoint NoNodeLost
PROPERTIES ImplementsListService
