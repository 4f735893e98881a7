SPECIFICATION Spec
CONSTANTS
    Requests = {r1, r2}
    Syncs = {s1, s2}
    TTL = 1
    MaxTime = 2
    MaxCommits = 2
SYMMETRY Symmetry
INVARIANTS
    TypeOK
    FreshUnlessCrossed
