SPECIFICATION Spec
CONSTANTS
    LastDay = 5
    MaxEvents = 3
    MaxCount = 2
    MaxStars = 2
    MaxExact = 2
    Ranges = {"3m", "1y", "all"}
    Back <- BackOf
    Bucket <- BucketOf
    Maximums = {2, 3, 4}
INVARIANTS
    CurveFitsEvents
    SnapshotsReachReaders
    SeriesKeepsShape
CHECK_DEADLOCK FALSE
