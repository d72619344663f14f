\* A delegated writer, a revert and a restart: the mutation state of a scoped root
\* is not read back.
SPECIFICATION Spec
CONSTANTS
    Root = r
    c1 = c1
    c2 = c2
    f1 = f1
    f2 = f2
    Children = {c1}
    Files = {f1, f2}
    Owned <- OwnedMixed
    MaxGeneration = 1
    Budgets <- OneRestart
INVARIANTS
    RestartsKeepReverts
\* The environment is bounded: a behaviour past its bounds stops.
CHECK_DEADLOCK FALSE
