--------------------------- MODULE MCStoreDealers ---------------------------
(***************************************************************************)
(* An instance of StoreDealers for TLC: the clocks of the nodes, what the  *)
(* interceptor takes, and bounds on what clients ask for and on snapshots. *)
(***************************************************************************)
EXTENDS StoreDealers

\* One node whose clock is late by more than the window: the others ignore what it
\* stamps as leader.
LateNode == CHOOSE n \in Node : TRUE
LateClock == [n \in Node |-> IF n = LateNode THEN -(Window + 1) ELSE 0]

\* The interceptor takes what saveCluster sets, before the dealer of that key.
TakesSaved == {SavedKey} \X Value

\* Clients only set ClusterKey, on which Apply may wait, and a node takes snapshots
\* only while no other node has one.
Bounded ==
    /\ \A c \in Client : call'[c].phase = "stamped" =>
          call'[c].cmd.op = "set" /\ call'[c].cmd.key = ClusterKey
    /\ \A n \in Node : pending[n] = NoImage /\ pending'[n] # NoImage =>
          \A q \in Node \ {n} : snap[q] = NoImage /\ pending[q] = NoImage

=============================================================================
