SPECIFICATION Spec
CONSTANTS
    Order <- Voices
    Client = {c1, c2}
    Budgets <- SafetyBudgets
SYMMETRY Handlers
INVARIANTS OneProcess StopIsNotUndone NoCircularWait
           MaintenanceIsTransient
PROPERTY ImplementsPool
