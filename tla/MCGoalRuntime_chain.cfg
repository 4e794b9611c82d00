SPECIFICATION Spec
CONSTANTS
    t1 = t1
    t2 = t2
    t3 = t3
    Task = {t1, t2, t3}
    Deps <- Chain3
    Pos <- Order3
    ClaimTask = {t3}
    Entry = {e1}
    MaxRev = 1
    NoTask = NoTask
    NoEntry = NoEntry
    Command = {"crash", "task"}
    Words = {0}
    MaxShock = 1
INVARIANT DepsClosed
CHECK_DEADLOCK FALSE
