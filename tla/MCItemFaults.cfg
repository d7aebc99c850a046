\* Items that may share an object, a delete and a reprocess request, two faults.
SPECIFICATION Spec
CONSTANTS
    a = a
    b = b
    note = note
    md5 = md5
    empty = empty
    None = None
    Items <- TwoUploads
    Uploaded <- TwoUploads
    Sized <- TwoUploads
    Content <- SameContent
    Keys = {k1, k2}
    Workers = {w1}
    Deletes = {d1}
    Reprocesses = {r1}
    StatusUpdates = {}
    MaxRedeliveries = 0
    MaxFaults = 2
INVARIANTS
    ObjectsFollowDocuments
SYMMETRY Interchangeable
CHECK_DEADLOCK FALSE
