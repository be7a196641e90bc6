SPECIFICATION FairSpec
CONSTANTS
    Capability = {"power_on", "eco_on"}
    Visitor = {v1, v2}
    v1 = v1
    v2 = v2
    Bound <- Kinds
    Budgets <- Scenarios
INVARIANTS GateVerified OwnVoice ProfileKept
PROPERTIES ConfirmsWhatWasSent  MicReleased
CHECK_DEADLOCK FALSE
