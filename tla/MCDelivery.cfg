\* Two instances, three clients and two edits; one failure or crash in any place.
CONSTANTS
    s1 = s1
    s2 = s2
    ann1 = ann1
    ann2 = ann2
    bob = bob
    x = x
    y = y
    Ann = Ann
    Bob = Bob
    Servers = {s1, s2}
    Clients = {ann1, ann2, bob}
    Users = {Ann, Bob}
    Actions = {x, y}
    ServerOf <- MCServerOf
    UserOf <- MCUserOf
    AuthorOf <- MCAuthorOf
    NoLoop = NoLoop
    MaxFaults = 1
SPECIFICATION FairSpec
INVARIANTS
    TypeOK
    DueIsUnderWay
    HeardInOrder
PROPERTIES
    DueArrives
\* The system stops when everybody has come and gone.
CHECK_DEADLOCK FALSE
