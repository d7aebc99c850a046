\* Two callers of one process: a Redis command that raises, a process that
\* stops, a day that ends.
SPECIFICATION FairSpec
CONSTANTS
    a = a
    b = b
    p1 = p1
    p2 = p2
    Callers <- Pair
    Grounded <- GroundedCallers
    Processes <- ApiAndWorker
    ProcessOf <- Together
    DailyLimit = 2
    ConcurrencyLimit = 1
    LastDay = 1
    MaxErrors = 2
    MaxCrashes = 1
INVARIANTS
    TypeOK
    QuotaHolds
    PermitsReturn
    HandsOverAfterAttempts
PROPERTIES
    ImplementsDailyQuota
    EveryCallEnds
CHECK_DEADLOCK FALSE
