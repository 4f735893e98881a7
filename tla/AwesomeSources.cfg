SPECIFICATION FairSpec
CONSTANTS
    Sources = {s1}
    Repos = {a, b}
    empty = empty
    Readmes = {v1, empty}
    listed = {a}
    Listing <- ListingOfKind
    Unsupported = {}
    Calls = {c1, c2}
    NoSource = none
    NoSha = none
    NoRepo = none
    NoSnapshot = none
    NoRun = none
    Orphan = orphan
    Catalog = catalog
    MaxRevision = 3
    MaxFaults = 1
INVARIANTS
    TypeOK
    ShaNamesSnapshot
    RunsHoldTheirSource
    StaleIsOwedOrSkipped
PROPERTIES
    ImplementsPublicSource
    ChangesBecomeVisible
    RunsEnd
CHECK_DEADLOCK FALSE
