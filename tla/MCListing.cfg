\* Five stored items and one to create, pages of two, two changes during the walk.
SPECIFICATION Spec
CONSTANTS
    Items = {1, 2, 3, 4, 5, 6}
    OrgOf <- OneOtherOrg
    Tags = {"t"}
    Stored = {1, 2, 3, 4, 5}
    StoredDocs <- FiveDocs
    Created <- OneNew
    Edits <- SomeEdits
    Times = {10, 11}
    None = None
    Requests <- AllRequests
    PageSize = 2
    MaxChanges = 2
INVARIANTS
    TypeOK
    RepeatsArePushed
    WalkMissesNoItem
CHECK_DEADLOCK FALSE
