CONSTANTS
  Pools = {p1, p2, p3}
  Builders = {b1, b2}
  Users = {u1}
  NoPool = NoPool
  MaxSlots = 2
  MaxAddress = 7
  GuardSizes = {1}
  Bases = {1, 3, 5}
SPECIFICATION Spec
SYMMETRY PoolSymmetry
INVARIANTS TypeOK ListedGuardsMapped OnlyRacesMislead
