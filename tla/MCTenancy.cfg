\* Up to two documents at the start, two requests of any user, one webhook that
\* may stop half-way.
SPECIFICATION Spec
CONSTANTS
    Ids = {d1, d2}
    Malformed = bad
    Requests = {r1, r2}
    Hooks = {h1}
    Headers <- ThreeUsers
    Orgs = {"A", "B"}
    Models = {"Item", "File"}
    OwnedModels <- ItemThenFile
    MaxStops = 1
SYMMETRY Symmetric
INVARIANTS
    TypeOK
    PurgeIsComplete
    TransferIsComplete
PROPERTIES
    OwnOrgOnly
    DeletedStaysDeleted
CHECK_DEADLOCK FALSE
