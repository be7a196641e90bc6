SPECIFICATION FairSpec
CONSTANTS
    Order <- Voices
    Client = {c1}
    Budgets <- DroppedBudgets
PROPERTY WantedRuns
