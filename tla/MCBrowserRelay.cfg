\* One tab with limits of two, scheduled fairly; two tabs with limits of one.
SPECIFICATION EitherSpec
CONSTANTS
    t1 = t1
    t2 = t2
    Tabs = {t1}
    ReplayLimit = 2
    QueueLimit = 1
    WireLimit = 1
    MaxSequence = 4
    MaxAnswer = 20
    MaxFaults = 2
    MaxLingering = 0
INVARIANTS
    OneTabCurrent
    CompactionIsOwed
    WholeReplayMeansCurrent
PROPERTIES
    ShowsPublishedStates
    OneTabConverges
\* The environment is bounded: a behaviour past its bounds stops.
CHECK_DEADLOCK FALSE
