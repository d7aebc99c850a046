\* Commands that raise, processes that stop, the retention time that elapses;
\* every message delivered at most once.
SPECIFICATION Spec
CONSTANTS
    u1 = u1
    u2 = u2
    report = report
    Uploads <- TwoUploads
    FileNames = {report}
    FileName <- SameName
    Users = {alice, bob}
    Owner = alice
    NoUser = NoUser
    MaxRedeliveries = 0
    MaxFaults = 2
    AmbiguousPublish = FALSE
    Expiry = TRUE
INVARIANTS
    TypeOK
    NoEarlyCompletion
    NoOvercount
    LastMarkFinalizes
    CompleteSnapshot
PROPERTIES
    EntriesMoveForward
    ImplementsBatchProgress
CHECK_DEADLOCK FALSE
