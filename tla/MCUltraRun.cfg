CONSTANTS
    a = a
    b = b
    Node = {a, b}
    Deps <- MCDeps
    Created = {a}
    MaxCrashes = 2
    MaxOps = 3
    MaxLost = 1
SPECIFICATION Spec
INVARIANT TypeOK
INVARIANT CutWorkWaits
INVARIANT RunningIsOwned
INVARIANT DependenciesHold
PROPERTY CompletedHonestly
PROPERTY AcceptedNotReplayed
PROPERTY CancelStops
PROPERTY RunEnds
CHECK_DEADLOCK FALSE
