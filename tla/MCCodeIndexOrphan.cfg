\* One file, one worker, one crash.
SPECIFICATION Spec
CONSTANTS
    Nothing = Nothing
    Files = {f1}
    Contents = {x, y}
    Workers = {w1}
    Generations = {1, 2, 3, 4}
    Edits = 3
    Updates = 0
    Rebuilds = 0
    Touches = 0
    Faults = 1
    Lapses = 0
PROPERTIES
    AbsentFilesLeave
\* After an interrupted reset only a user can help, and the bounds stop behaviours.
CHECK_DEADLOCK FALSE
