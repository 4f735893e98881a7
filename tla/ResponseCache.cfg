SPECIFICATION FairSpec
CONSTANTS
    Keys = {k1}
    Requests = {r1, r2, r3}
    Sizes = {1}
    MaxEntries = 1
    MaxBytes = 1
    TTL = 1
    MaxTime = 1
    MaxCommits = 1
    MaxInvalidations = 2
INVARIANTS
    CacheFresh
    SingleBuild
    WaitersHaveBuilder
    DirectAnswersFresh
PROPERTIES
    WaitersServed
