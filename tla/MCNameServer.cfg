SPECIFICATION FairSpec
CONSTANTS
    c1 = c1
    c2 = c2
    n1 = n1
    n2 = n2
    l1 = l1
    l2 = l2
    Client = {c1, c2}
    Name = {n1, n2}
    Loc = {l1, l2}
    NoLoc = NoLoc
    MaxOps = 3
    MaxCrash = 2
INVARIANTS
    SlaveBehindMaster
    AckedOnBoth
    AgreeUnlessConflict
    ParkedIffSync
    CountedOnce
    Forwarded
PROPERTIES
    SyncAnswered
CHECK_DEADLOCK FALSE
