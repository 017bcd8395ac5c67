\* What must eventually happen to a connection that ends.  The messages of the
\* connection itself fill the channel, and sends to the hub time out; what the reaper queues
\* comes before or after what the connection queues.
CONSTANTS
    TheRoom = TheRoom
    NoClient = NoClient
    Clients = {c1}
    Users = {c1}
    Rooms <- MCRooms
    RoomOf <- MCRoomOf
    UserOf <- MCUserOf
    ChanCap = 2
    SendCap = 1
    MaxActions = 2
    Faults = {"lost", "redis", "tick", "shutdown"}
SPECIFICATION FairSpec
INVARIANTS
    NoGhosts
PROPERTIES
    GhostsReaped
    PumpsEndTogether
\* The system stops when every connection has come and gone, or on a panic.
CHECK_DEADLOCK FALSE
