CONSTANTS
    c1 = c1  c2 = c2
    b1 = b1  b2 = b2  b3 = b3
    l1 = l1  l2 = l2
    Cores = {c1, c2}
    Nodes = {1, 2}
    Base = {b1, b2, b3}
    Large = {l1, l2}
    Home <- HomeOf
    TCacheBase = 2
    TCacheLarge = 1
    PtPages = 1
    MapSizes <- Regions
    BigSizes <- BigObjects
    MaxBigBase = 1
    MaxTries = 3
    None = None
SPECIFICATION Spec
SYMMETRY Interchangeable
INVARIANTS
  OneOwner
  RefillSuffices
PROPERTIES
  NullOnlyWhenOut
CHECK_DEADLOCK FALSE
