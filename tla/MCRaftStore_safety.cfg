SPECIFICATION Spec
CONSTANTS
    Node = {n1, n2, n3}
    Key = {k1, kc}
    Value = {v1}
    Client = {c1}
    None = None
    ClusterKey = kc
    ClusterValue = {v1}
    SavedKey = k1
    Interceptor = {}
    DealerKey = {}
    Decoded = {}
    PassedOn = {}
    Window = 0
    LocalClock <- ZeroClock
    UtcClock <- ZeroClock
    MaxLog = 2
    MaxTime = 1
    MaxFault = 1
ACTION_CONSTRAINT Bounded
SYMMETRY Symmetry
INVARIANTS
    TypeOK
    NoResurrection
    YoungLogAgrees
    Replayable
PROPERTY
    ImplementsReplicas
CHECK_DEADLOCK FALSE
