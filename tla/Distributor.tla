----------------------------- MODULE Distributor -----------------------------
(***************************************************************************)
(* Distributor of distribute.go: spreads a slice of items over the active  *)
(* peers, every item on the node it was on before as long as that node is  *)
(* there, the others where the precomputed number of places is not used.   *)
(***************************************************************************)
EXTENDS Integers, Sequences, FiniteSets, SequencesExt

CONSTANTS
    Item,       \* identifiers of items
    Peer,       \* node identifiers
    None,       \* no node
    MaxData,    \* bound on the length of the slice of items
    PeerLists   \* the lists of peers that Distribute is called with

ASSUME NoneAssumption == None \notin Peer
ASSUME MaxDataAssumption == MaxData \in Nat
ASSUME PeerListsAssumption ==
    \A ps \in PeerLists : ps \in Seq(Peer) /\ IsInjective(ps)

VARIABLES
    StickyMap,  \* StickyMap[id]: the node that has item id, or None
    last        \* the last call of Distribute: arguments and result

vars == <<StickyMap, last>>

Data == UNION {[1 .. n -> Item] : n \in 0 .. MaxData}
Occurrences(s, x) == Cardinality({i \in DOMAIN s : s[i] = x})

-----------------------------------------------------------------------------
\* Mutant: the loop starts at one, so that the first peer loses a place.
MakePeersMapFromOne(peers, n) ==
    [p \in Peer |-> Cardinality({i \in 1 .. (n - 1) :
                                   peers[(i % Len(peers)) + 1] = p})]

\* How many items each peer has room for: one after the other in turn.
MakePeersMap(peers, n) ==
    [p \in Peer |-> Cardinality({i \in 0 .. (n - 1) :
                                   peers[(i % Len(peers)) + 1] = p})]

\* Mutant: the entries of nodes that left are kept.
CleanNothing(sticky, peers) == sticky

\* Entries of nodes that are not among the peers are forgotten.
CleanKeysNotIn(sticky, peers) ==
    [id \in Item |-> IF sticky[id] \in ToSet(peers) THEN sticky[id] ELSE None]

\* What both loops carry along: the sticky map, the free places, the result.
State(sticky, room, out) == [sticky |-> sticky, room |-> room, out |-> out]

\* Mutant: the test for an unknown item is missing, it goes to the node "".
KeepUnknown(s, id) ==
    LET p == s.sticky[id]
    IN  State(s.sticky, [q \in Peer |-> s.room[q] - (IF q = p THEN 1 ELSE 0)],
              Append(s.out, [id |-> id, node |-> p]))

\* One item of the first loop: it stays where it was, room or not.
KeepSticky(s, id) ==
    LET p == s.sticky[id]
    IN  IF p = None THEN s
        ELSE State(s.sticky, [s.room EXCEPT ![p] = @ - 1],
                   Append(s.out, [id |-> id, node |-> p]))

\* The places in the list of the peers with room.
Free(s, peers) == {k \in DOMAIN peers : s.room[peers[k]] > 0}

\* Mutant: a place is not taken from the count when a new item gets it.
PlaceKeepsRoom(s, id, peers) ==
    LET p == peers[Min(Free(s, peers))]
    IN  IF Free(s, peers) = {} THEN s
        ELSE State([s.sticky EXCEPT ![id] = p], s.room,
                   Append(s.out, [id |-> id, node |-> p]))

\* Mutant: Put is left out.
PlaceForgets(s, id, peers) ==
    LET p == peers[Min(Free(s, peers))]
    IN  IF Free(s, peers) = {} THEN s
        ELSE State(s.sticky, [s.room EXCEPT ![p] = @ - 1],
                   Append(s.out, [id |-> id, node |-> p]))

\* One item of the second loop: the first peer with a free place gets it.  When
\* there is none, the item is left out without a word.
Place(s, id, peers) ==
    LET p == peers[Min(Free(s, peers))]
    IN  IF Free(s, peers) = {} THEN s
        ELSE State([s.sticky EXCEPT ![id] = p],
                   [s.room EXCEPT ![p] = @ - 1],
                   Append(s.out, [id |-> id, node |-> p]))

\* The first loop: what is carried along after each item.
KeepLoop(start, data) ==
    LET after[i \in 0 .. Len(data)] ==
            IF i = 0 THEN start ELSE KeepSticky(after[i - 1], data[i])
    IN  after

\* The second loop, over the items that were unknown to the first one.
PlaceLoop(start, sticky, peers, data) ==
    LET after[i \in 0 .. Len(data)] ==
            IF i = 0 THEN start
            ELSE IF sticky[data[i]] # None THEN after[i - 1]
            ELSE Place(after[i - 1], data[i], peers)
    IN  after

Start(sticky, peers, data) == State(sticky, MakePeersMap(peers, Len(data)), <<>>)

\* Both loops.  Which items are new is decided in the first one, so an item that
\* occurs twice in the slice is new twice.
Distributed(sticky, peers, data) ==
    LET kept == KeepLoop(Start(sticky, peers, data), data)[Len(data)]
    IN  PlaceLoop(kept, sticky, peers, data)[Len(data)]

-----------------------------------------------------------------------------
(* Operations. *)

NoCall == [peers |-> <<>>, data |-> <<>>, before |-> [id \in Item |-> None],
           out |-> <<>>]

Distribute(peers, data) ==
    LET sticky == CleanKeysNotIn(StickyMap, peers)
        end    == Distributed(sticky, peers, data)
    IN  /\ peers # <<>> \/ data = <<>>
        /\ StickyMap' = end.sticky
        /\ last' = [peers |-> peers, data |-> data, before |-> StickyMap,
                    out |-> end.out]

\* Without peers makePeersMap divides by zero: the call panics after the sticky
\* map has been emptied.
DistributePanics(peers, data) ==
    /\ peers = <<>> /\ data # <<>>
    /\ StickyMap' = CleanKeysNotIn(StickyMap, peers)
    /\ last' = NoCall

Put(id, node) ==
    /\ StickyMap' = [StickyMap EXCEPT ![id] = node]
    /\ last' = NoCall

CleanSticky ==
    /\ StickyMap' = [id \in Item |-> None]
    /\ last' = NoCall

Init ==
    /\ StickyMap = [id \in Item |-> None]
    /\ last = NoCall

Next ==
    \/ \E peers \in PeerLists, data \in Data :
          Distribute(peers, data) \/ DistributePanics(peers, data)
    \/ \E id \in Item, node \in Peer : Put(id, node)
    \/ CleanSticky

Spec == Init /\ [][Next]_vars

-----------------------------------------------------------------------------
(* Properties of the last call of Distribute. *)

Load(p) == Cardinality({i \in DOMAIN last.out : last.out[i].node = p})

\* Types.
TypeOK ==
    /\ StickyMap \in [Item -> Peer \cup {None}]
    /\ last.peers \in PeerLists \cup {<<>>}
    /\ last.data \in Data
    /\ last.before \in [Item -> Peer \cup {None}]
    /\ last.out \in Seq([id : Item, node : Peer])

\* No item is left out and none is handed out more often than it occurs: the
\* inner loop always finds a place, although sticky items may overfill a node.
EveryItemOnce ==
    \A id \in Item :
        Cardinality({i \in DOMAIN last.out : last.out[i].id = id})
            = Occurrences(last.data, id)

\* Nothing goes to a node that is not a peer, and an item moves only when the
\* node it was on is gone.
MovesOnlyFromGoneNodes ==
    \A i \in DOMAIN last.out :
        LET was == last.before[last.out[i].id]
        IN  /\ last.out[i].node \in ToSet(last.peers)
            /\ was \in ToSet(last.peers) => last.out[i].node = was

\* A node has more items than its share only when all of them were there before:
\* a new item never goes to a full node.
OverfullOnlyBySticky ==
    \A p \in ToSet(last.peers) :
        Load(p) > MakePeersMap(last.peers, Len(last.data))[p] =>
            \A i \in DOMAIN last.out :
                last.out[i].node = p => last.before[last.out[i].id] = p

\* Distributing the same items over the same peers again, both in the reverse order,
\* moves nothing, when items do not repeat.
Repeatable ==
    IsInjective(last.data) /\ last.peers # <<>> =>
        LET again == Distributed(CleanKeysNotIn(StickyMap, last.peers),
                                 Reverse(last.peers), Reverse(last.data))
        IN  /\ ToSet(again.out) = ToSet(last.out)
            /\ again.sticky = StickyMap

=============================================================================
