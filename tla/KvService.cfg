SPECIFICATION FairSpec
CONSTANTS
    Node = {n1, n2, n3}
    Key = {k1, k2}
    Req = {r1}
    None = None
    MaxElection = 3
    MaxCrash = 1
INVARIANTS
    TypeOK
    OkMeansAllLogged
    RefusedMeansUntouched
PROPERTY
    HandlersEnd
CHECK_DEADLOCK FALSE
