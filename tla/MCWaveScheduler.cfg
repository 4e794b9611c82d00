SPECIFICATION FairSpec
CONSTANTS
    a = a
    b = b
    c = c
    d = d
    e = e
    f = f
    x = x
    Item = {a, b, c, d, e, f}
    External = {x}
    Deps <- Graph
    Clash <- Scopes
    Pos <- Order
    Initial = 2
    RecoverAfter = 2
    Retries = 1
INVARIANT WriteExclusion
INVARIANT LeaseNeverRefused
INVARIANT ConcurrencyBound
INVARIANT NoFalseCycle
INVARIANT OutcomesJustified
PROPERTY ImplementsDag
PROPERTY RunEnds
