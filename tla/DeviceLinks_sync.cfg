SPECIFICATION FairSpec
CONSTANTS
    Link <- Two
    Bundle <- Two
    Budgets <- Scenarios
INVARIANTS EdgeTruthful
PROPERTIES CatchesUp
