\* Two connections come and go in one room, with an action to broadcast, full channels, a
\* Redis that may break a subscription, and the beginning of a shutdown.  The reaper, which
\* multiplies the states by ten, is in MCHub_liveness.
CONSTANTS
    TheRoom = TheRoom
    NoClient = NoClient
    Clients = {c1, c2}
    Users = {c1, c2}
    Rooms <- MCRooms
    RoomOf <- MCRoomOf
    UserOf <- MCUserOf
    ChanCap = 2
    SendCap = 1
    MaxActions = 1
    Faults = {"redis", "shutdown"}
SPECIFICATION Spec
SYMMETRY Symmetry
INVARIANTS
    TypeOK
    BroadcastNeverPanics
    NoGhosts
    EntryIsLive
    OccupiedRoomSubscribed
PROPERTIES
    CancelOnlyWhenEmpty
    StraysFollowExits
    SubscriptionSpec
\* The system stops when every connection has come and gone, or on a panic.
CHECK_DEADLOCK FALSE
