SPECIFICATION DealFairSpec
CONSTANTS
    Node = {n1, n2, n3}
    Key = {kc, ks}
    Value = {v1}
    Client = {c1}
    None = None
    ClusterKey = kc
    ClusterValue = {v1}
    SavedKey = ks
    Interceptor <- TakesSaved
    DealerKey = {kc, ks}
    Decoded = {v1}
    PassedOn = {v1}
    Window = 0
    LocalClock <- LateClock
    UtcClock <- LateClock
    MaxLog = 2
    MaxTime = 0
    MaxFault = 1
ACTION_CONSTRAINT Bounded
INVARIANTS
    DealtInOrder
    DealtOrSent
PROPERTIES
    CallsReturn
    EventuallyApplied
CHECK_DEADLOCK FALSE
