SPECIFICATION FairSpec
CONSTANTS
    t1 = t1
    t2 = t2
    m1 = m1
    a1 = a1
    Thread <- TwoThreads
    Manager <- OneManager
    Addr <- OneAddress
    MaxSize = 2
    MaxFailures = 1
INVARIANTS
    TypeOK
    UsedIsSum
    FreeFindsRange
    ListMatches
PROPERTIES
    CallsReturn
