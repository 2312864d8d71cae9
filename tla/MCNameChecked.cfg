SPECIFICATION ClientSpec
CONSTANTS
    n1 = n1
    n2 = n2
    d1 = d1
    d2 = d2
    Nowhere = Nowhere
    Nul = Nul
    Line = Line
    Crc <- MCCrc
    Proc = {p1, p2}
    Name = {n1, n2}
    Body <- MCBody
    Buf = 3
    DsBuf = 1
    MaxBlockSize = 3
    MaxBlocks = 1
    Running = {d1}
    DataFile <- MCDataFile
    ClientFiles <- MCClientFiles
    NameFile <- TwoPairs
INVARIANTS
    NameServerChecked
