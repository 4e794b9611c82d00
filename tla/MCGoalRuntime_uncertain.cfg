SPECIFICATION Spec
CONSTANTS
    t1 = t1
    t2 = t2
    t3 = t3
    Task = {t1}
    Deps <- Single
    Pos <- First
    ClaimTask = {}
    Entry = {e1}
    MaxRev = 2
    NoTask = NoTask
    NoEntry = NoEntry
    Command = {"crash", "revise"}
    Words = {0}
    MaxShock = 1
PROPERTY NoWorkOverUncertain
CHECK_DEADLOCK FALSE
