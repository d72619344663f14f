\* Two tabs on the owner: the second one joins late.
SPECIFICATION Spec
CONSTANTS
    Tabs = {t1, t2}
    ReplayLimit = 1
    QueueLimit = 2
    WireLimit = 2
    MaxSequence = 3
    MaxAnswer = 12
    MaxFaults = 0
    MaxLingering = 0
INVARIANTS
    QuietMeansCurrent
\* The environment is bounded: a behaviour past its bounds stops.
CHECK_DEADLOCK FALSE
