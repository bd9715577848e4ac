SPECIFICATION RSpec
CONSTANTS
    p1 = p1
    p2 = p2
    NoId = NoId
    Caller = {t1, t2, t3}
    Careful = TRUE
    SEMVMX = 1
    SetAllMax = 2
    QBYTES = 2
    MaxSent = 2
    BPW = 4
    IntBits = 2
    Blocks = 5
    SlabsPer = 2
    MaxMetas = 2
SYMMETRY Symmetric
CHECK_DEADLOCK FALSE
INVARIANTS SpaceTiled SegmentsExact SlabsExact CountsExact AllOrNothing FifoPerType RemovalWakes ProcessesExact WaitersTold
