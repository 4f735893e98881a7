SPECIFICATION FairSpec
CONSTANTS
    Repos = {r1}
    Handlers = {h1, h2}
    Workers = {w1, w2}
    QueueCapacity = 1
    CacheTTL = 2
    NegativeCacheTTL = 1
    BuildTimeout = 2
    MaximumBytesBilled = 2
    DailyMaximumBytes = 3
    DayLength = 2
    MaxTime = 2
    MaxFaults = 1
INVARIANTS
    TypeOK
    BudgetSafe
    NoFalseBuilding
    LeaseHolds
PROPERTIES
    ReadyEndsLate
    StepsBackLate
    BuildsResolve
    CloseReturns
CHECK_DEADLOCK FALSE
