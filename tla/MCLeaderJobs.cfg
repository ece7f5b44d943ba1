SPECIFICATION JobSpec
CONSTANTS
    MaxChange = 4
    MaxTick = 1
    Servers <- ConfiguredServers
    Self = "n1"
    NJob = 1
    MaxBroken = 1
INVARIANTS
    JobTypeOK
    SignalsInOrder
    StaleOnlyIfLost
    ExtraTickersNeedLostLoss
    JobsAtMostOnce
PROPERTY
    StoppedTickersEnd
CHECK_DEADLOCK FALSE
