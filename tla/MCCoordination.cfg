\* Two and three processes at a store lock, edits of overlapping files, model
\* requests of one provider, the terminals of one session.
SPECIFICATION AllSpec
CONSTANTS
    c1 = c1
    c2 = c2
    c3 = c3
    p1 = p1
    p2 = p2
    Callers = {c1, c2, c3}
    Processes = {p1, p2}
    ProcessOf <- TwoInOneProcess
    MaxCrashes = 1
    MaxFailures = 1
    SlowWrites = FALSE
    Nothing = Nothing
    EmptyFresh = EmptyFresh
    EmptyStale = EmptyStale
    Edits = {"a", "b", "c", "d"}
    Wanted <- Overlapping
    Impatient = {"c", "d"}
    NoEdit = "none"
    Requests = {"i1", "i2", "b1", "b2", "m"}
    Priority <- ThreePriorities
    Abortable = {"i1", "b1"}
    Limits = {1, 2}
    Commands = {"f1", "f2", "b", "t"}
    Background = {"b"}
    Targeted = {"t"}
    Terminals = {"t1", "t2"}
    PoolSize = 1
    DetachedLimit = 1
    MaxWaiters = 2
    MaxCloses = 1
    Nobody = "nobody"
INVARIANTS
    OneOperationWhileAllLive
    OneEditPerPath
    NothingLeftLocked
    WaitingMeansBusy
    RoomIsOffered
PROPERTIES
    StoreLockIsExclusive
    NobodyWaits
    EveryEditEnds
    AdmittedInOrder
    InteractiveServed
\* Edits and commands are made once, and the dead do not return.
CHECK_DEADLOCK FALSE
