SPECIFICATION Spec
CONSTANTS
    CPU = {c1, c2, c3}
    NoCPU = NoCPU
    MaxSync = 2
    Overlap = TRUE
    MayPanic = FALSE
CHECK_DEADLOCK FALSE
INVARIANTS SyncCountExact
