\* A room empties, fills again before the old loop is gone, and empties again.
CONSTANTS
    TheRoom = TheRoom
    NoClient = NoClient
    Clients = {c1, c2}
    Users = {c1, c2}
    Rooms <- MCRooms
    RoomOf <- MCRoomOf
    UserOf <- MCUserOf
    ChanCap = 2
    SendCap = 1
    MaxActions = 1
    Faults = {}
SPECIFICATION Spec
SYMMETRY Symmetry
INVARIANT
    EmptyRoomUnsubscribed
\* The system stops when every connection has come and gone, or on a panic.
CHECK_DEADLOCK FALSE
