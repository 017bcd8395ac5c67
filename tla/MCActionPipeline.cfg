\* Two concurrent handlers on one cell and their tasks, with three failures, lost replies
\* or cleanups in any place.
CONSTANTS
    paint = paint
    blank = blank
    x1 = x1
    x2 = x2
    red = red
    NoColor = NoColor
    Actions = {paint, blank}
    Cells = {x1, x2}
    Colors = {red}
    CellOf <- MCCellOf
    ColorOf <- MCColorOf
    TypeOf <- MCTypeOf
    HistoryCap = 2
    MaxRetry = 1
    MaxFaults = 3
SPECIFICATION FairSpec
INVARIANTS
    TypeOK
    VersionsDecideBoard
    VersionIdentifiesAction
    OnlyAppliedSpreads
    NoTaskLost
PROPERTIES
    BoardSpec
    AcceptedIsPersisted
\* The system stops when every action is dealt with.
CHECK_DEADLOCK FALSE
