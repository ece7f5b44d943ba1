SPECIFICATION Spec
CONSTANTS
    MainIP = {"", "10.0.0.1", "10.0.0.2"}
    Port = {1023, 1024, 11001, 11002, 12001, 34565, 34566}
    n1 = n1
    n2 = n2
    n3 = n3
    n4 = n4
    Node = {n1, n2, n3}
    Addr <- OwnAddr
    JoinAddrs <- AtFirst
    Formed = {n1, n2}
    InMem = FALSE
    MaxTerm = 3
    MaxSet = 4
    MaxFault = 1
INVARIANTS TypeOK OneLeader CommitsAgree OneHistory AddedStays FoundersUnique IdentitiesKept PortsRoundTrip
PROPERTIES ElectedHaveHistory
CHECK_DEADLOCK FALSE
