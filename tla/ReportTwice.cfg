SPECIFICATION Spec
CONSTANTS
    Job <- OneJob
    Traces <- Alone
    Shared <- NoJob
    Iters = 1
    CloseTries <- Tries
    MaxReports <- Once
    SloEnabled = FALSE
    PoolSize = 1
    Rates <- Unlike
INVARIANTS
    OnlyUnderreports
