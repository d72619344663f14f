\* Lost, late and repeated messages on the command path, with small tables and
\* an owner restart or with a single fair owner.
SPECIFICATION EitherSpec
CONSTANTS
    Operations = {o1, o2}
    Idempotent = {o1}
    RetryAttempts = 2
    PendingLimit = 2
    HelperRecords = 1
    OwnerRecords = 1
    MaxGenerations = 2
    MaxFaults = 2
INVARIANTS
    AtMostOnce
    AcceptedIsReplayable
PROPERTIES
    ReportsTruthfully
    TimersSettle
    EveryCommandStarts
\* The environment is bounded: a behaviour past its bounds stops.
CHECK_DEADLOCK FALSE
