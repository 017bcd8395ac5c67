\* An edit gets on the board between the two reads of a snapshot.
CONSTANTS
    Actions = {a1}
    Checks = {k1, k2}
    Joiners = {j1}
    PerSecond = 2
    MaxFaults = 0
SPECIFICATION Spec
SYMMETRY Symmetry
INVARIANT
    SnapshotReachesVersion
\* The system stops when all edits, checks and joiners are done.
CHECK_DEADLOCK FALSE
