SPECIFICATION FairSpec
CONSTANTS
    WindowSize = 5
    ProfileTime = 5
    Warmup = 6
    Initials <- ThreeInitials
    Lower = 2
    RateMin = 1
    AvoidCap = 12
    SlowCap = 20
    Upper = 30
    LongMax = 50
    Steps <- OneStep
    Currents <- TwoCurrents
    Deltas <- AllDeltas
    BadSamples = 2
    OthersRun = TRUE
INVARIANTS
    TypeOK
    LimitInForce
    JunkAtFirstOnly
PROPERTIES
    HurtGivesWay
    WakeRestarts
    KeepsProtocol
    BacksOff
    Recovers
