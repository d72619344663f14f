\* One worker or two on a retrieval store; crashes, cancellations and lapses.
SPECIFICATION AnySpec
CONSTANTS
    Nothing = Nothing
    w1 = w1
    w2 = w2
    f1 = f1
    f2 = f2
    Files = {f1, f2}
    Contents = {x, y}
    Workers = {w1}
    Generations = {1, 2, 3, 4, 5, 6}
    Edits = 3
    Updates = 1
    Rebuilds = 1
    Touches = 0
    Faults = 1
    Lapses = 0
INVARIANTS
    VisibleIsWhole
    OneWorkerCurrent
PROPERTIES
    OneFaultConverges
\* After an interrupted reset only a user can help, and the bounds stop behaviours.
CHECK_DEADLOCK FALSE
