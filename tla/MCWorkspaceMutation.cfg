\* A delegated and an unrestricted writer, one stop, one revert; or a delegated
\* writer that asks, one restart, one revert.
SPECIFICATION Spec
CONSTANTS
    Root = r
    c1 = c1
    c2 = c2
    f1 = f1
    f2 = f2
    Children = {c1, c2}
    Files = {f1, f2}
    Owned <- OwnedMixed
    MaxGeneration = 2
    Budgets <- StopOrRestart
INVARIANTS
    LeasesApart
    RevertKeepsOthersWork
    RefusalsHaveReason
    RestoresAlone
PROPERTIES
    NoOvertaking
\* A writer and a coordinator that owns no lease may wait for each other for
\* ever (README: circular wait).
CHECK_DEADLOCK FALSE
