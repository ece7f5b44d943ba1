------------------------------ MODULE Addresses ------------------------------
(***************************************************************************)
(* What becomes of the addresses a node is started with.  Arg.Fix completes*)
(* the flags haddr and raddr from each other and from the main IP of the   *)
(* machine, makes the NodeID from them and finds in rjoin whether the node *)
(* bootstraps; the leader rewrites the hosts in a join request to where it *)
(* came from.                                                              *)
(*                                                                         *)
(* An address is a host text and a port, a flag the set of at most one     *)
(* address.  Hosts are IP addresses, the empty text and localhost; other   *)
(* names are left out.  The main IP is empty when goip finds none.         *)
(***************************************************************************)
EXTENDS Integers, Sequences

CONSTANTS
    MainIP,     \* main IPs of machines
    Port        \* ports given in flags

ASSUME PortAssumption == Port \subseteq Nat

\* goip.MainIP gives no address of the loopback interface, unless the flag iface asks
\* for that interface.
ASSUME MainIPAssumption == MainIP \cap {"127.0.0.1", "localhost"} = {}

HostPort(host, port) == [host |-> host, port |-> port]

\* The addresses a host text stands for; one that does not resolve, as the empty
\* text, stands for itself.
ParseIps(host) == IF host = "localhost" THEN {"127.0.0.1"} ELSE {host}

isLocalHost(host, ip) ==
    \E x \in ParseIps(host) : x \in {"", "127.0.0.1", "localhost", ip}

\* fixAddrHost: a local host becomes the main IP.
fixAddrHost(a, ip) == HostPort(IF isLocalHost(a.host, ip) THEN ip ELSE a.host, a.port)

Shift(a, d) == HostPort(a.host, a.port + d)

\* Mutant: the HTTP port is derived without the lower bound and one off.
fixAddrOffByOne(f, ip) ==
    CASE f.raft = {} /\ f.http = {} ->
            {[http |-> HostPort(ip, 11000), raft |-> HostPort(ip, 12000)]}
      [] f.raft = {} /\ f.http # {} ->
            {[http |-> fixAddrHost(a, ip), raft |-> Shift(fixAddrHost(a, ip), 1000)] :
                a \in {b \in f.http : b.port <= 35565 - 1000}}
      [] f.raft # {} /\ f.http = {} ->
            {[http |-> Shift(fixAddrHost(a, ip), -1001), raft |-> fixAddrHost(a, ip)] :
                a \in f.raft}
      [] OTHER ->
            {[http |-> fixAddrHost(h, ip), raft |-> fixAddrHost(r, ip)] :
                h \in f.http, r \in f.raft}

\* fixAddr: the pair of addresses, or nothing when the port makes it panic.
fixAddr(f, ip) ==
    CASE f.raft = {} /\ f.http = {} ->
            {[http |-> HostPort(ip, 11000), raft |-> HostPort(ip, 12000)]}
      [] f.raft = {} /\ f.http # {} ->
            {[http |-> fixAddrHost(a, ip), raft |-> Shift(fixAddrHost(a, ip), 1000)] :
                a \in {b \in f.http : b.port <= 35565 - 1000}}
      [] f.raft # {} /\ f.http = {} ->
            {[http |-> Shift(fixAddrHost(a, ip), -1000), raft |-> fixAddrHost(a, ip)] :
                a \in {b \in f.raft : b.port >= 1024 + 1000}}
      [] OTHER ->
            {[http |-> fixAddrHost(h, ip), raft |-> fixAddrHost(r, ip)] :
                h \in f.http, r \in f.raft}

\* NodeID.Fix puts one host into both halves of an ID.
FixNodeID(id, host) ==
    [http |-> HostPort(host, id.http.port), raft |-> HostPort(host, id.raft.port)]

\* The slice of parseBootstrap: an empty host is the main IP.
JoinAddrSlice(rjoin, ip) ==
    [i \in DOMAIN rjoin |->
        HostPort(IF rjoin[i].host = "" THEN ip ELSE rjoin[i].host, rjoin[i].port)]

\* Mutant: the host of the first address is not looked at.
parseBootstrapByPort(slice, http, ip) ==
    \/ slice = <<>>
    \/ slice[1].port = http.port

\* Whether the node bootstraps: there is no one to join, or the first address is
\* the node's own, as text or as the same port of a local host.
parseBootstrap(slice, http, ip) ==
    \/ slice = <<>>
    \/ slice[1] = http
    \/ slice[1].port = http.port /\ isLocalHost(slice[1].host, ip)

\* ConvertToZeroHost: the HTTP server listens on every interface of the machine.
ConvertToZeroHost(a, ip) == IF isLocalHost(a.host, ip) THEN HostPort("", a.port) ELSE a

\* Arg.Fix on flags f; NodeID is made of the completed pair.
Fix(f) ==
    {[ip |-> f.ip, http |-> p.http, raft |-> p.raft, id |-> FixNodeID(p, f.ip),
      joins |-> JoinAddrSlice(f.rjoin, f.ip),
      bootstrap |-> parseBootstrap(JoinAddrSlice(f.rjoin, f.ip), p.http, f.ip)] :
        p \in fixAddr(f, f.ip)}

\* Mutant: the host is taken from the connection, whatever it is.
FixRequestAlways(req, remote) ==
    [addr |-> HostPort(remote, req.addr.port), id |-> FixNodeID(req.id, remote)]

\* JoinRequest.Fix on the leader, for a request that came from host remote.
FixRequest(req, remote) ==
    LET host == IF remote = "127.0.0.1" THEN "" ELSE remote
    IN  [addr |-> HostPort(host, req.addr.port), id |-> FixNodeID(req.id, host)]

\* Where a connection from a machine with main IP ip to host comes from.  A machine
\* on which no main IP was found is taken to have the loopback interface only.
Source(ip, host) ==
    IF ip = "" \/ "127.0.0.1" \in ParseIps(host) THEN "127.0.0.1" ELSE ip

-----------------------------------------------------------------------------
(* All flags over the machines and ports, each node with addresses of its own. *)

HostPorts(H) == {HostPort(h, p) : h \in H, p \in Port}
LocalNames == {"", "127.0.0.1", "localhost"}
Flag(H) == {{}} \cup {{a} : a \in HostPorts(H)}

Flags == UNION {[ip : {ip}, http : Flag(LocalNames \cup {ip}),
                 raft : Flag(LocalNames \cup {ip}),
                 rjoin : {<<>>} \cup {<<a>> : a \in HostPorts(LocalNames \cup MainIP)}]
                    : ip \in MainIP}

\* Nodes that can run at the same time: no two of their sockets are one.
Sockets(a) == {ConvertToZeroHost(a.http, a.ip), a.raft}
Clash(s, t) == s.port = t.port /\ (s.host = t.host \/ "" \in {s.host, t.host})
Together(a, b) == a.ip # b.ip \/ \A s \in Sockets(a), t \in Sockets(b) : ~Clash(s, t)

\* Nodes that are started with the same rjoin found at most one cluster, and the
\* one at its first address founds it.  Two founders need a first address that is
\* relative to the machine, such as :11000, used on two machines; README uses it
\* on one machine only.
OneFounder ==
    \A j \in {f.rjoin : f \in Flags} \ {<<>>} :
        LET args == UNION {Fix(f) : f \in {g \in Flags : g.rjoin = j}}
        IN  \A a, b \in {x \in args : x.bootstrap} :
               Together(a, b) => a.ip # b.ip /\ j[1].host \in LocalNames

\* A join request reaches the leader as what the node is: its own NodeID, which
\* checkJoined looks for, and the address its raft listens on, unless the node
\* knows its main IP and joins over the loopback interface.
JoinKeepsIdentity ==
    \A f \in Flags : \A a \in Fix(f) : \A i \in DOMAIN a.joins :
        LET req == FixRequest([addr |-> a.raft, id |-> a.id],
                              Source(a.ip, a.joins[i].host))
        IN  (req.id = a.id /\ req.addr = a.raft)
              <=> (a.ip = "" \/ "127.0.0.1" \notin ParseIps(a.joins[i].host))

\* The two ways to give one address agree: the Raft address derived from an HTTP
\* address leads back to it, for every port that is accepted both ways.
PortsAgree ==
    \A f \in {g \in Flags : g.raft = {} /\ g.http # {}} :
        \A p \in fixAddr(f, f.ip) :
            LET q == fixAddr([f EXCEPT !.http = {}, !.raft = {p.raft}], f.ip)
            IN  q = IF p.raft.port < 2024 THEN {} ELSE {p}

=============================================================================
