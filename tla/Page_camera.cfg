SPECIFICATION FairSpec
CONSTANTS
    Bound <- Kinds
    Budgets <- Scenarios
    Fragments = 4
    Span = 2
    Low = 1
    Ahead = {1, 2}
    Device = {"a", "b"}
    Date = {"d1", "d2"}
    Name = {"r1"}
    Days <- DaysOf
    Photos <- PhotosOf
INVARIANTS OnlyTheAskedRecording ListsOfDevice OldRequestsSpareIt NothingPlaysUnseen
PROPERTIES PlaybackStarts PageSessions
CHECK_DEADLOCK FALSE
