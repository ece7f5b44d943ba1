SPECIFICATION Spec
CONSTANTS
    MainIP = {"", "10.0.0.1", "10.0.0.2"}
    Port = {1023, 1024, 11001, 11002, 12001, 34565, 34566}
    n1 = n1
    n2 = n2
    n3 = n3
    n4 = n4
    Node = {n1, n2, n3, n4}
    Addr <- OwnAddr
    JoinAddrs <- AtFirst
    Formed = {n1, n2, n3}
    InMem = FALSE
    MaxTerm = 3
    MaxSet = 3
    MaxFault = 1
INVARIANT AlreadyStays
CHECK_DEADLOCK FALSE
