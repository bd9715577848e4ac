SPECIFICATION FairSpec
CONSTANTS
    i0 = i0
    i1 = i1
    t1 = t1
    t2 = t2
    t3 = t3
    p1 = p1
    p2 = p2
    wq1 = wq1
    None = None
    NCPU = 2
    Idle <- MCIdle
    User <- MCUser
    ProcOf <- MCProcOf
    Threads <- MCThreads
    Parent <- MCParent
    Queue <- MCQueue
    Proc = {p1, p2}
    WaitQs = {}
    MaxTicks = 0
    Sent = {}
    Timeouts = {0}
    Prios = {}
    MayYield = FALSE
CHECK_DEADLOCK FALSE
PROPERTIES PausedRuns TimeoutWakes
