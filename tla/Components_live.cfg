SPECIFICATION FairSpec
CONSTANTS
    Order <- Voices
    Client = {c1}
    Budgets <- LiveBudgets
PROPERTIES WantedRuns CallsReturn
