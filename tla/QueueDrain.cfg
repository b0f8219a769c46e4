SPECIFICATION Spec
CONSTANTS
    NumJobs = 2
    NumIncarnations = 2
    MaxWorkers = 2
    CandidateLimit = 1
    Draining = TRUE
    room1 = room1
    room2 = room2
    Conversation <- MCRooms
    ConvOf <- MCOneRoom
    Cancellable = {1}
    Deletable = {1}
CHECK_DEADLOCK FALSE
INVARIANTS
    RoomsInTurn
PROPERTIES
    KeepsLedger
