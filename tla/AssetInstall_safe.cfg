SPECIFICATION Spec
CONSTANTS
    Bound <- Kinds
    Budgets <- Scenarios
    Files = 2
    Directories <- Model
INVARIANTS NothingLost AtomicReplacement
