SPECIFICATION FairSpec
CONSTANTS
    a = a
    b = b
    Job <- TwoJobs
    Calls <- ThreeAndNone
    Parallel = 2
    Window = 2
    None = None
INVARIANTS
    FilesSound
PROPERTIES
    Recorded
CHECK_DEADLOCK FALSE
