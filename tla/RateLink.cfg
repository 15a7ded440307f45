SPECIFICATION FairSpec
CONSTANTS
    s1 = s1
    s2 = s2
    m1 = m1
    m2 = m2
    h1 = h1
    h2 = h2
    l1 = l1
    l2 = l2
    Sender <- TwoSenders
    Manager <- TwoManagers
    Process <- Processes
    Placements <- All
    None = None
    FdLimit <- Limits
    Buffer = 2
INVARIANTS
    TypeOK
    Framed
    OneManager
    Balance
    FatalExplained
PROPERTIES
    Serves
    Freed
CHECK_DEADLOCK FALSE
