SPECIFICATION MCSpec
CONSTANTS
    c1 = c1
    c2 = c2
    b1 = b1
    b2 = b2
    Client = {c1, c2}
    Name = {n1}
    NoName = NoName
    Writer <- MCWriter
    Block = {b1, b2}
    NoBlock = NoBlock
    Hole = Hole
    Size = {1, 3}
    MaxBlockSize = 3
    OverClose = 1
    Buf = 2
    MaxReads = 1
    MaxGrants = 2
    FaultSets = {{"io", "close", "timeout", "ns"}, {"ns", "disk", "stall"}}
SYMMETRY MCSymmetry
INVARIANTS
    RegisteredIntact
    AckedIsRegistered
    BytesAccounted
    ParkedIffAsking
    NumIsRefCount
CHECK_DEADLOCK FALSE
