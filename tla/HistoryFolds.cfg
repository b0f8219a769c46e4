SPECIFICATION HistorySpec
CONSTANTS
    Routes <- MCRoutes
    Bounds <- MCBounds
    MaxMandatory = 12
    BatchLimit = 2
    TailLimit = 2
    DefaultOption <- MCDefault
    Reserve = 2
    RoomBudget = 0
CHECK_DEADLOCK FALSE
INVARIANTS
    GroupsAreFinestTurns
    PressureIsWorkedOff
    FoldCreatesHeadroom
    PromptFitsEveryRoute
PROPERTIES
    FoldKeepsTurns
