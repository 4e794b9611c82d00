SPECIFICATION Spec
CONSTANTS
    t1 = t1
    t2 = t2
    t3 = t3
    Task = {t1}
    Deps <- Single
    Pos <- First
    ClaimTask = {}
    Entry = {e1, e2}
    MaxRev = 2
    NoTask = NoTask
    NoEntry = NoEntry
    Command = {"pause", "request", "stop", "interrupt", "crash", "cancel", "replan", "revise", "task"}
    Words = {0}
    MaxShock = 1
INVARIANT TypeOK
INVARIANT PlanAuthority
INVARIANT CompletionGate
PROPERTY UncertainActionsInspected
SYMMETRY Sym
CHECK_DEADLOCK FALSE
