SPECIFICATION Spec
CONSTANTS
    Thread = {t1, t2, t3}
    None = None
    Recursive = FALSE
    MaxDepth = 1
    Killable = {t1, t2, t3}
CHECK_DEADLOCK FALSE
INVARIANTS KilledHoldsNothing
