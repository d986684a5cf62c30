CONSTANTS
    Pools = {p1, p2}
    Owners = {o1, o2, o3}
    NoPool = NoPool
    NoOwner = NoOwner
    Sizes = {0, 1, 2}
    MaxCharge = 3
SYMMETRY Symmetry
SPECIFICATION Spec
CHECK_DEADLOCK FALSE
INVARIANTS
    HeldChargesAreRecorded
    Conserved
    TreeBounded
