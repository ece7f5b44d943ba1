---------------------------- MODULE MCRaftStore ----------------------------
(***************************************************************************)
(* Instances of RaftStore for TLC: the clocks of the nodes and the         *)
(* permutations under which the safety runs are symmetric, and a bound on  *)
(* the sets of ClusterKey.                                                 *)
(***************************************************************************)
EXTENDS RaftStore, TLC

\* All nodes in UTC with the same clock.
ZeroClock == [n \in Node |-> 0]

\* All nodes in one zone west of Greenwich by more than the window.
WestClock == [n \in Node |-> -(Window + 1)]

\* Nodes, values and clients are interchangeable in the safety runs.
Symmetry == Permutations(Node) \cup Permutations(Value)
                \cup Permutations(Client)

\* ClusterKey, on which Apply may wait for a join, is only set, by the first entry and
\* at the last tick, and no snapshot is taken of such a log.
Bounded ==
    /\ \A c \in Client : call[c] = Idle /\ call'[c] # Idle =>
          \/ call'[c].cmd.key # ClusterKey
          \/ call'[c].cmd.op = "set" /\ log = <<>> /\ now = MaxTime
    /\ pending' # pending => \A i \in DOMAIN log : log[i].key # ClusterKey

=============================================================================
