SPECIFICATION Spec
CONSTANTS
    t1 = t1
    t2 = t2
    t3 = t3
    Task = {t1}
    Deps <- Single
    Pos <- First
    ClaimTask = {}
    Entry = {e1}
    MaxRev = 1
    NoTask = NoTask
    NoEntry = NoEntry
    Command = {"pause"}
    Words = {0}
    MaxShock = 1
PROPERTY PauseHonoured
CHECK_DEADLOCK FALSE
