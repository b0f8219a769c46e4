SPECIFICATION Spec
CONSTANTS
    room1 = room1
    room2 = room2
    m1 = m1
    m2 = m2
    m3 = m3
    Group = Group
    NoFile = NoFile
    Blank = Blank
    Characters = {1, 2}
    Rooms = {room1, room2}
    Messages = {m1, m2, m3}
    RoomOf <- MCRoomOf
    Born = {1}
    Furnished <- MCFurnished
    Budget <- MCBudget
CHECK_DEADLOCK FALSE
INVARIANTS
    BundleIsClosed
    RepeatsSafely
    VerifiedIsWhole
