SPECIFICATION Spec
CONSTANTS
    t1 = t1
    t2 = t2
    m1 = m1
    a1 = a1
    Thread <- TwoThreads
    Manager <- NoManager
    Addr <- OneAddress
    MaxSize = 2
    MaxFailures = 0
INVARIANTS
    UsedIsLive
