CONSTANTS
    Proc = {p1, p2, p3}
    Session = {s1}
    NoProc = NoProc
    NoSession = NoSession
    SessionSwitching = FALSE
SPECIFICATION Spec
SYMMETRY Sym
CHECK_DEADLOCK FALSE
INVARIANTS
    SidecarHonest
    OneControllerPerSession
    RecoveredBeforeWork
