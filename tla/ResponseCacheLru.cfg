SPECIFICATION Spec
CONSTANTS
    Keys = {k1, k2, k3}
    Requests = {r1, r2}
    Sizes = {1, 2, 4}
    MaxEntries = 2
    MaxBytes = 3
    TTL = 1
    MaxTime = 2
    MaxCommits = 0
    MaxInvalidations = 2
SYMMETRY Symmetry
INVARIANTS
    TypeOK
    Accounting
