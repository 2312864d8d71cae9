SPECIFICATION MCSpec
CONSTANTS
    b1 = b1
    b2 = b2
    w1 = w1
    w2 = w2
    Block = {b1, b2}
    Writer = {w1, w2}
    NoBlock = NoBlock
    Hole = Hole
    Size = {1, 2}
    MaxBlockSize = 4
    OverClose = 1
    MaxGrants = 4
SYMMETRY MCSymmetry
INVARIANTS
    ExtendedDisjoint
    ExtendedInsideFile
    ExtendedBytesOwned
PROPERTIES
    ExtendedBytesKept
    ExtendRefinesAllocator
CHECK_DEADLOCK FALSE
