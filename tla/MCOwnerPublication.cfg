\* The publication protocol under fair timers and callbacks.
SPECIFICATION FairSpec
CONSTANTS
    RetryAttempts = 2
    QueueLimit = 1
    MaxSequence = 2
    MaxFaults = 2
    MaxControls = 1
    MaxSubscribers = 1
INVARIANTS
    NeverRefused
    IdleMeansCaughtUp
    AcknowledgedIsIngested
    CleanCloseDeliversAll
PROPERTIES
    ConvergesOrParks
    CheckpointRequestsAnswered
    DemandConverges
\* The environment is bounded: a closed owner or a behaviour past its bounds stops.
CHECK_DEADLOCK FALSE
