SPECIFICATION MCFairSpec
CONSTANTS
    c1 = c1
    c2 = c2
    b1 = b1
    b2 = b2
    Client = {c1, c2}
    Name = {n1, n2}
    NoName = NoName
    Writer <- MCWriter
    Block = {b1, b2}
    NoBlock = NoBlock
    Hole = Hole
    Size = {1, 2}
    MaxBlockSize = 3
    OverClose = 1
    Buf = 1
    MaxReads = 0
    MaxGrants = 2
    FaultSets = {{"ns"}}
PROPERTIES
    UploadAnswered
CHECK_DEADLOCK FALSE
