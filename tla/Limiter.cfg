SPECIFICATION FairSpec
CONSTANTS
    t1 = t1
    t2 = t2
    Thread <- TwoThreads
    Limit <- OneLimit
    MaxSize = 1
    CountBound = 3
    Sessions = 1
INVARIANTS
    TypeOK
    WindowBounded
PROPERTIES
    LaunchesResume
