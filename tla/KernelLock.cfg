SPECIFICATION FairSpec
CONSTANTS
    CPU = {c1, c2, c3}
    NoCPU = NoCPU
    MaxSync = 2
    Overlap = FALSE
    MayPanic = TRUE
CHECK_DEADLOCK FALSE
INVARIANTS MutualExclusion SyncCountExact SyncStopsTargets
PROPERTIES SyncReturns PanicReported
