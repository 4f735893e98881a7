SPECIFICATION FairSpec
CONSTANTS
    Tokens = {t1, t2}
    Calls = {c1, c2, c3}
    NoToken = none
    MaxCool = 2
    MaxWait = 1
INVARIANTS
    TypeOK
PROPERTY
    CallsEnd
CHECK_DEADLOCK FALSE
