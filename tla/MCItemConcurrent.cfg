\* Two executions at a time, next to a reprocess and a delete request.
SPECIFICATION Spec
CONSTANTS
    a = a
    b = b
    note = note
    md5 = md5
    empty = empty
    None = None
    Items <- TwoUploads
    Uploaded <- TwoUploads
    Sized <- TwoUploads
    Content <- SameContent
    Keys = {k1}
    Workers = {w1, w2}
    Deletes = {d1}
    Reprocesses = {r1}
    StatusUpdates = {"archived"}
    MaxRedeliveries = 0
    MaxFaults = 0
INVARIANTS
    TypeOK
    ProcessingIsAwaited
    ActiveIsClean
    OneOriginalPerContent
SYMMETRY Interchangeable
CHECK_DEADLOCK FALSE
