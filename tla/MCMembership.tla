---------------------------- MODULE MCMembership ----------------------------
(* Instances of Membership for TLC: nodes on one machine, given by their flags. *)
EXTENDS Membership, Addresses, TLC

CONSTANTS n1, n2, n3, n4

\* hraftd --rjoin :11001 --haddr :1100i
HttpPort == (n1 :> 11001) @@ (n2 :> 11002) @@ (n3 :> 11003) @@ (n4 :> 11004)
StartFlags(n) == [ip |-> "10.0.0.1", http |-> {HostPort("", HttpPort[n])},
                  raft |-> {}, rjoin |-> <<HostPort("", 11001)>>]

\* Node n3 is node n2 started with another HTTP port, --raddr :12002.
SharedFlags(n) ==
    IF n = n3 THEN [StartFlags(n) EXCEPT !.raft = {HostPort("", 12002)}]
    ELSE StartFlags(n)

\* The tables that TLC computes once; the constants of Membership are given them.
ArgOf(f) == CHOOSE a \in Fix(f) : TRUE
Args == [n \in Node |-> ArgOf(StartFlags(n))]
RaftAddr == [n \in Node |-> Args[n].raft]
SharedRaftAddr == [n \in Node |-> ArgOf(SharedFlags(n)).raft]
NodesAtJoins ==
    [n \in Node |-> [i \in DOMAIN Args[n].joins |->
        CHOOSE p \in Node : Args[p].http = Args[n].joins[i]]]

OwnAddr == RaftAddr
SharedAddr == SharedRaftAddr
AtFirst == NodesAtJoins

\* Membership decides by nodes what parseBootstrap decides by addresses.
ASSUME BootstrapAssumption ==
    \A n \in Node : Bootstrap(n) <=> Args[n].bootstrap

-----------------------------------------------------------------------------
\* What Addresses says of the flags, of the states in which a node was started with
\* some.
Started == \E n \in Node : up[n]

\* Nodes started with one rjoin found one cluster: parseBootstrap is true for at
\* most one of those that can run together, as far as OneFounder says.
FoundersUnique == Started => OneFounder

\* JoinRequest.Fix leaves a node its identity, as far as JoinKeepsIdentity says.
IdentitiesKept == Started => JoinKeepsIdentity

\* fixAddr completes haddr and raddr from each other consistently.
PortsRoundTrip == Started => PortsAgree

=============================================================================
