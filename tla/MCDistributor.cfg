SPECIFICATION Spec
CONSTANTS
    Item = {i1, i2, i3}
    Peer = {p1, p2, p3}
    None = None
    MaxData = 3
    PeerLists <- AllPeerLists
SYMMETRY Symmetry
INVARIANTS
    TypeOK
    EveryItemOnce
    MovesOnlyFromGoneNodes
    OverfullOnlyBySticky
    Repeatable
