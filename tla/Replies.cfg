SPECIFICATION Spec
CONSTANTS
    TailLimit = 1
    AnchorLimit = 1
    RecentBudget = 3
    Characters = {1, 2, 3}
    WholeRoom = 2
    CastMax = 2
    Rooms <- MCRooms
    RawReplies <- MCReplies
    MaxRaw = 2
    Histories <- MCHistories
    OtherSections <- MCSections
    Budgets = {3, 5, 7}
    Contents = {"said", "again", ""}
    Actions = {"calm", "laughing"}
    Voices = {"F1", "M1"}
    FirstVoice = "F1"
    Followed <- MCFollowed
    Dealings <- MCDealings
CHECK_DEADLOCK FALSE
INVARIANTS
    PromptIsWhole
    AnswerIsSound
    BubblesStand
    SpeechIsTrue
