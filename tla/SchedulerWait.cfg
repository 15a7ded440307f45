CONSTANTS
    Job <- Rows6
    NumMachines = 1
    Priority <- WaitPriority
    NumGpus <- WaitGpus
    SubmitTime <- WaitTimes
    Model <- WaitModel
    MaxNap = 2
    Horizon = 4
SPECIFICATION FairSpec
INVARIANTS
    ReleaseNeverFaults
PROPERTIES
    ImplementsSlotPool
    FeasibleJobsStart
    OnlyUnplaceableStay
