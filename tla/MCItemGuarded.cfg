\* A delete request next to an execution.
SPECIFICATION Spec
CONSTANTS
    a = a
    b = b
    note = note
    md5 = md5
    empty = empty
    None = None
    Items <- TwoUploads
    Uploaded <- TwoUploads
    Sized <- TwoUploads
    Content <- SameContent
    Keys = {k1}
    Workers = {w1}
    Deletes = {d1}
    Reprocesses = {r1}
    StatusUpdates = {}
    MaxRedeliveries = 0
    MaxFaults = 0
INVARIANT
    OriginalsAreGuarded
CHECK_DEADLOCK FALSE
