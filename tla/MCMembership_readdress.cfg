SPECIFICATION FairSpec
CONSTANTS
    MainIP = {"", "10.0.0.1", "10.0.0.2"}
    Port = {1023, 1024, 11001, 11002, 12001, 34565, 34566}
    n1 = n1
    n2 = n2
    n3 = n3
    n4 = n4
    Node = {n1, n2, n3}
    Addr <- SharedAddr
    JoinAddrs <- AtFirst
    Formed = {}
    InMem = FALSE
    MaxTerm = 3
    MaxSet = 4
    MaxFault = 1
PROPERTIES JoinLoopsEnd
CHECK_DEADLOCK FALSE
