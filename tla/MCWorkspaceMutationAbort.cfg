\* Two delegated writers that do not meet and one stop: a request that leaves the
\* queue does not let the one behind it go.
SPECIFICATION Spec
CONSTANTS
    Root = r
    c1 = c1
    c2 = c2
    f1 = f1
    f2 = f2
    Children = {c1, c2}
    Files = {f1, f2}
    Owned <- OwnedApart
    MaxGeneration = 1
    Budgets <- OneStop
INVARIANTS
    NoGrantableWaiter
\* The environment is bounded: a behaviour past its bounds stops.
CHECK_DEADLOCK FALSE
