SPECIFICATION LibrarySpec
CONSTANTS
    HashKey = {0, 1, 3, 4}
    Cell = {e1, e2, e3, e4}
    Val = {1, 2}
    Null = Null
    UsedMod = 3
    Sizes <- LibrarySizes
    Thread = {t1, t2}
    Class = {0, 2}
    Arena = {a1, a2}
    Block = {b1, b2, b3, b4}
    Nobody = Nobody
    Header = 1
    ArenaSize = 8
    RunsLow = 5
    UsedUp = 3
    Timer = {r1, r2, r3, r4, r5, r6}
    Due = {1, 2}
    Conn = {c1, c2}
    Fd = {f1, f2}
    Unused = Unused
    Timeout = 2
    MaxTime = 3
SYMMETRY LibrarySymmetry
INVARIANTS
    TableAgrees
    CellsCounted
    BlocksApart
    InsideArena
    TimersInOrder
    TimersSound
    IdleClosed
CHECK_DEADLOCK FALSE
