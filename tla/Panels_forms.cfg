SPECIFICATION FairPanelSpec
CONSTANTS
    Panel <- All
    Request <- Two
    Bound <- Kinds
    Budgets <- Scenarios
PROPERTIES NoLostUpdate Converges
