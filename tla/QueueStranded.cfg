SPECIFICATION FairSpec
CONSTANTS
    NumJobs = 1
    NumIncarnations = 2
    MaxWorkers = 2
    CandidateLimit = 3
    Draining = FALSE
    room1 = room1
    room2 = room2
    Conversation <- MCRooms
    ConvOf <- MCOneRoom
    Cancellable = {}
    Deletable = {}
CHECK_DEADLOCK FALSE
PROPERTIES
    RunningJobRecovered
