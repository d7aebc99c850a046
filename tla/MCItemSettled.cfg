\* An upload of unknown size and an item created from JSON; a message comes twice.
SPECIFICATION FairSpec
CONSTANTS
    a = a
    b = b
    note = note
    md5 = md5
    empty = empty
    None = None
    Items <- UploadAndNote
    Uploaded <- OneUpload
    Sized <- NoUploads
    Content <- SameContent
    Keys = {k1}
    Workers = {w1, w2}
    Deletes = {d1}
    Reprocesses = {r1}
    StatusUpdates = {}
    MaxRedeliveries = 1
    MaxFaults = 0
PROPERTIES
    EventuallySettled
CHECK_DEADLOCK FALSE
