SPECIFICATION FairSpec
CONSTANTS
    asset = asset
    speech = speech
    fold = fold
    turn1 = turn1
    Task = {asset, fold}
    Turn = {turn1}
    Kind <- MCKind
    TurnOf <- MCTurnOf
    NumIncarnations = 2
    MaxWorkers = 1
    MaxAttempts = 2
    Stoppable = {1}
CHECK_DEADLOCK FALSE
INVARIANTS
    EffectWithCompletion
    OneWorkerPerTask
    ProcessingHasWorker
PROPERTIES
    QueuedTaskSettles
