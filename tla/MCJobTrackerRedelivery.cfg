\* No faults, but a message delivered twice, and publishes that raise although
\* the stream took the message.
SPECIFICATION FairSpec
CONSTANTS
    u1 = u1
    u2 = u2
    report = report
    Uploads <- TwoUploads
    FileNames = {report}
    FileName <- SameName
    Users = {}
    Owner = alice
    NoUser = NoUser
    MaxRedeliveries = 1
    MaxFaults = 0
    AmbiguousPublish = TRUE
    Expiry = FALSE
PROPERTIES
    EventuallyCompleted
CHECK_DEADLOCK FALSE
