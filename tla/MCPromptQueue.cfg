SPECIFICATION FairSpec
CONSTANTS
  Prompts = {p1, p2, p3}
  None = None
  User = User
  MaxLive = 2
  MaxGoals = 2
  MaxOpens = 1
  MaxAsks = 2
INVARIANT SequencesUnique
INVARIANT RunningIsFront
INVARIANT GoalBoundOnce
INVARIANT SettledHonestly
INVARIANT OneGoalEach
PROPERTY ImplementsLine
PROPERTY QueueMoves
