SPECIFICATION Spec
CONSTANTS
    Repos = {a, b}
    Languages = {go}
    AllBucket = all
    TopicBucket = topic
    NoBucket = none
    Syncs = {s1, s2}
    MaxRuns = 2
    MaxWrites = 1
SYMMETRY Symmetry
INVARIANTS
    TypeOK
    MembersHaveFacts
    ReferencedHaveFacts
    RankedAtSuccess
PROPERTY
    CatalogKept
CHECK_DEADLOCK FALSE
