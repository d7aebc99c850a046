\* Four uploads, of one file and another, in two organisations; two deletes; a
\* call that raises; a file name whose url leads to another key.
SPECIFICATION Spec
CONSTANTS
    u1 = u1
    u2 = u2
    u3 = u3
    u4 = u4
    Uploads = {u1, u2, u3, u4}
    Deletes = {r1, r2}
    Orgs = {"A", "B"}
    Contents = {"c", "d"}
    Names = {"a", "b", "e", "x"}
    OrgOf <- FourOrgs
    ContentOf <- FourContents
    NameOf <- FourNames
    Readable <- AllButThird
    KeyOfUrl <- QueryKeys
    MaxFaults = 1
INVARIANTS
    TypeOK
    TempFilesAreDeleted
    RepeatsAreDetected
    DocumentsHaveTheirObject
    NoOtherOrphans
CHECK_DEADLOCK FALSE
