CONSTANTS
    Reviewers = 3
    MaxWeight = 2
    Shapes <- MCShapes
    Finding = {"f", "g"}
    MaxFixes = 3
    MaxRuns = 2
SPECIFICATION Spec
INVARIANT TypeOK
INVARIANT EveryVoteCounts
INVARIANT CompletedWasAccepted
INVARIANT EvidenceIsCurrent
PROPERTY MutationOwned
PROPERTY NodeEnds
CHECK_DEADLOCK FALSE
