SPECIFICATION Spec
CONSTANTS
    s1 = s1
    s2 = s2
    m1 = m1
    m2 = m2
    h1 = h1
    h2 = h2
    l1 = l1
    l2 = l2
    Sender <- NoSender
    Manager <- TwoManagers
    Process <- Processes
    Placements <- OnlyManagers
    None = None
    FdLimit <- Limits
    Buffer = 2
INVARIANTS
    NoneAborted
CHECK_DEADLOCK FALSE
