SPECIFICATION RoomSpec
CONSTANTS
    talk = talk
    shout = shout
    start = start
    rival = rival
    finish = finish
    call = call
    stage = stage
    c1 = c1
    c2 = c2
    None = None
    Requests = {talk, shout, start, rival, finish, call, stage}
    Payload <- MCPayload
    Commands = {c1, c2}
    Lookback = 2
    Mixes <- MCMixes
    Characters = {1, 2, 3}
    Sends = {talk, start}
    MaxErrors = 2
    MaxPolls = 2
    MaxLosses = 2
    MaxEvents = 6
CHECK_DEADLOCK FALSE
INVARIANTS
    MessageHasItsTurn
    TakenInOnce
    ClearedStaysOut
    LedgerTells
    FollowsItsTurn
PROPERTIES
    ResultStands
