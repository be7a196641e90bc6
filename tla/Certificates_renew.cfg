SPECIFICATION FairSpec
CONSTANT Budgets <- Scenarios
INVARIANTS RecordsFound StartsAgain
PROPERTIES NoNeedlessIssue Renews
