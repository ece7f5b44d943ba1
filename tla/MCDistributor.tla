---------------------------- MODULE MCDistributor ----------------------------
(***************************************************************************)
(* Distributor with every list of distinct peers, the empty one included.  *)
(***************************************************************************)
EXTENDS Distributor

AllPeerLists ==
    {ps \in UNION {[1 .. n -> Peer] : n \in 0 .. Cardinality(Peer)} :
        IsInjective(ps)}

\* Items and peers are interchangeable.
Symmetry == Permutations(Item) \cup Permutations(Peer)

=============================================================================
