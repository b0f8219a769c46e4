SPECIFICATION FairSpec
CONSTANTS
    NumJobs = 3
    NumIncarnations = 2
    MaxWorkers = 2
    CandidateLimit = 3
    Draining = FALSE
    room1 = room1
    room2 = room2
    Conversation <- MCRooms
    ConvOf <- MCConvOf
    Cancellable = {1}
    Deletable = {}
CHECK_DEADLOCK FALSE
INVARIANTS
    SerialTurns
    FailedTurnHasNoReplies
    RunningJobHasWorker
PROPERTIES
    QueuedJobSettles
    CancelIsFinal
