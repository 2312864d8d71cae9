SPECIFICATION FairWorkerSpec
CONSTANTS
    Worker = {w1, w2, w3}
    Task = {k1, k2}
    WorkerMin = 1
    WorkerMax = 2
    NoOne = NoOne
INVARIANTS
    WorkersCounted
    PolledIsAlive
    TaskInOnePlace
    StaffStays
PROPERTIES
    TaskReturned
CHECK_DEADLOCK FALSE
