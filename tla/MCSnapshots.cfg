\* Two checks side by side while the room is edited, and somebody joins; two failures or
\* deletions of the keys in any place.
CONSTANTS
    Actions = {a1}
    Checks = {k1, k2}
    Joiners = {j1}
    PerSecond = 2
    MaxFaults = 2
SPECIFICATION Spec
SYMMETRY Symmetry
INVARIANTS
    TypeOK
    ServedIsSaved
    NothingNewer
    TimeIsOfASnapshot
\* The system stops when all edits, checks and joiners are done.
CHECK_DEADLOCK FALSE
