SPECIFICATION Spec
CONSTANTS
    Sources = {s1}
    Repos = {a, b}
    empty = empty
    Readmes = {v1, bad}
    listed = {a}
    Listing <- ListingOfKind
    Unsupported = {bad}
    Calls = {c1, c2}
    NoSource = none
    NoSha = none
    NoRepo = none
    NoSnapshot = none
    NoRun = none
    Orphan = orphan
    Catalog = catalog
    MaxRevision = 3
    MaxFaults = 0
PROPERTIES
    SyncedKeepsRepo
CHECK_DEADLOCK FALSE
