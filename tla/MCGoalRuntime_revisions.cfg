SPECIFICATION Spec
CONSTANTS
    t1 = t1
    t2 = t2
    t3 = t3
    Task = {t1, t2}
    Deps <- Chain2
    Pos <- Order2
    ClaimTask = {}
    Entry = {e1}
    MaxRev = 2
    NoTask = NoTask
    NoEntry = NoEntry
    Command = {"crash", "stop", "revise", "request"}
    Words = {0}
    MaxShock = 1
INVARIANT ExecutionAuthorised
INVARIANT DepsClosed
PROPERTY HistoryFrozen
CHECK_DEADLOCK FALSE
