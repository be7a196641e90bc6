SPECIFICATION Spec
CONSTANTS
    Client = {a, b}
    MaxSchedules = 2
    Scenarios <- Both
SYMMETRY Handlers
INVARIANTS TasksAreDurable OffTaskIsSafe CapacityHeld ShadowTruthful
PROPERTIES AtMostOnce
