CONSTANTS
    Proc = {p1, p2}
    Session = {s1, s2}
    NoProc = NoProc
    NoSession = NoSession
    SessionSwitching = FALSE
SPECIFICATION Spec
SYMMETRY Sym
CHECK_DEADLOCK FALSE
INVARIANT LiveWorkNotRecovered
