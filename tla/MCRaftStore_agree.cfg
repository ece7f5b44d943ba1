SPECIFICATION Spec
CONSTANTS
    Node = {n1, n2, n3}
    Key = {k1}
    Value = {v1}
    Client = {c1}
    None = None
    ClusterKey = kc
    ClusterValue = {}
    SavedKey = k1
    Interceptor = {}
    DealerKey = {}
    Decoded = {}
    PassedOn = {}
    Window = 0
    LocalClock <- ZeroClock
    UtcClock <- ZeroClock
    MaxLog = 1
    MaxTime = 1
    MaxFault = 1
INVARIANT
    ReplicasAgree
