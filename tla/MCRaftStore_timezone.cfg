SPECIFICATION Spec
CONSTANTS
    Node = {n1}
    Key = {k1}
    Value = {v1}
    Client = {c1}
    None = None
    ClusterKey = kc
    ClusterValue = {}
    SavedKey = k1
    Interceptor = {}
    DealerKey = {}
    Decoded = {}
    PassedOn = {}
    Window = 0
    LocalClock <- WestClock
    UtcClock <- ZeroClock
    MaxLog = 1
    MaxTime = 1
    MaxFault = 0
PROPERTY
    AckedSetVisible
