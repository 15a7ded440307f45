CONSTANTS
    Job <- Rows7
    NumMachines = 2
    Priority <- MixPriority
    NumGpus <- MixGpus
    SubmitTime <- MixTimes
    Model <- MixModel
    MaxNap = 2
    Horizon = 6
SPECIFICATION Spec
INVARIANTS
    TypeOK
    SlotsMatchTasks
    NoOversubscription
    NoJobLost
    WorkConserving
PROPERTIES
    NoOvertaking
