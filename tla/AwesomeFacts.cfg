SPECIFICATION Spec
CONSTANTS
    Sources = {s1, s2}
    Repos = {a, b}
    empty = empty
    Readmes = {v1}
    listed = {a}
    Listing <- ListingOfKind
    Unsupported = {}
    Calls = {c1}
    NoSource = none
    NoSha = none
    NoRepo = none
    NoSnapshot = none
    NoRun = none
    Orphan = orphan
    Catalog = catalog
    MaxRevision = 2
    MaxFaults = 0
INVARIANTS
    NoListBehindItsFacts
CHECK_DEADLOCK FALSE
