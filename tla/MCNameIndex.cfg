SPECIFICATION Spec
CONSTANTS
    k1 = k1
    k2 = k2
    k3 = k3
    l1 = l1
    l2 = l2
    Key = {k1, k2, k3}
    Loc = {l1, l2}
    None = None
    MaxRef = 3
    MaxLog = 4
    FaultSets = {{}, {"torn"}, {"delete"}, {"torn", "delete"}}
SYMMETRY MCSymmetry
INVARIANTS
    EntryWasLogged
    FirstWins
PROPERTIES
    IndexIsDurable
CHECK_DEADLOCK FALSE
