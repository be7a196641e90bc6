SPECIFICATION FairMediaSpec
CONSTANTS
    Bound <- Kinds
    Budgets <- Scenarios
    Viewers <- One
    Pipe = 1
    Muxers = 2
INVARIANTS MuxersApart RecordingsKept
PROPERTY Settles
