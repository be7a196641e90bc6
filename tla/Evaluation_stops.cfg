SPECIFICATION FairSpec
CONSTANTS
    Bound <- Kinds
    Budgets <- Scenarios
    Gap = {20, 150, 300, 700}
    Retained = 2
INVARIANTS ReleasedTogether StallsNest
PROPERTY PageSessions
CHECK_DEADLOCK FALSE
