SPECIFICATION FairSpec
CONSTANTS
    Job <- ThreeJobs
    Traces <- PairOrAlone
    Shared <- TwoJobs
    Iters = 2
    CloseTries <- Tries
    MaxReports <- LastTwice
    SloEnabled = TRUE
    PoolSize = 2
    Rates <- Unlike
INVARIANTS
    TypeOK
    NoIterationLost
    ExactAccounting
    RefusedOnlyAfterExit
PROPERTIES
    TrainingNeverHangs
