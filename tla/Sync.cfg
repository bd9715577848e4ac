SPECIFICATION SSpec
CONSTANTS
    Thread = {t1, t2, t3, t4}
    Three = {t1, t2, t3}
    Target = t1
    Reader = t1
    Writer = t2
    None = None
    Recursive = TRUE
    MaxDepth = 2
    Killable = {t1, t2, t3, t4}
    MaxSignals = 2
    MaxRounds = 3
CHECK_DEADLOCK FALSE
INVARIANTS NoLostWakeup NotStranded SleepersAnnounced FreedUnused MeetTogether NoLostSignal
PROPERTIES ImplementsService LocksImplement FreeLocksTaken WaitsEnd
