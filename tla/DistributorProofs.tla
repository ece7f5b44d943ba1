-------------------------- MODULE DistributorProofs --------------------------
(***************************************************************************)
(* Proofs about Distributor, for every set of items and peers, every slice *)
(* of items and every list of peers.                                       *)
(*                                                                         *)
(* The loops are recursive functions.  What holds after each item is shown *)
(* by the least counterexample: a set of numbers has a smallest one.       *)
(***************************************************************************)
EXTENDS Distributor, FiniteSetTheorems, NaturalsInduction, WellFoundedInduction,
        TLAPS

\* A set of natural numbers that is not empty has a smallest one.
LEMMA Least ==
    ASSUME NEW T \in SUBSET Nat, T # {}
    PROVE  \E x \in T : \A y \in T : x <= y
<1> DEFINE R == {ss \in Nat \X Nat : ss[1] < ss[2]}
<1>1. IsWellFoundedOn(R, Nat)
  BY NatLessThanWellFounded DEF OpToRel
<1>2. PICK x \in T : \A y \in T : ~ (<<y, x>> \in R)
  BY <1>1, WFMin
<1>3. ASSUME NEW y \in T PROVE x <= y
  <2>1. <<y, x>> \notin R
    BY <1>2
  <2> QED
    BY <2>1
<1> QED
  BY <1>2, <1>3

\* The smallest of the free places is one of them.
LEMMA MinIsFree ==
    ASSUME NEW T \in SUBSET Nat, T # {}
    PROVE  Min(T) \in T
BY Least DEF Min

\* A smallest counterexample above 0 has a number before it that is none.
LEMMA Step ==
    ASSUME NEW n \in Nat, NEW T \in SUBSET (0 .. n), T # {}, 0 \notin T
    PROVE  \E i \in 1 .. n : i \in T /\ i - 1 \in (0 .. n) \ T
<1>1. PICK x \in T : \A y \in T : x <= y
  BY Least
<1>2. x \in 1 .. n
  OBVIOUS
<1>3. x - 1 \notin T
  BY <1>1, <1>2
<1> QED
  BY <1>2, <1>3

-----------------------------------------------------------------------------
(* The loops. *)

\* What the first loop carries along after each item.
LEMMA KeepLoopStep ==
    ASSUME NEW start, NEW data, Len(data) \in Nat
    PROVE  /\ KeepLoop(start, data)[0] = start
           /\ \A i \in 1 .. Len(data) :
                 KeepLoop(start, data)[i]
                     = KeepSticky(KeepLoop(start, data)[i - 1], data[i])
<1>1. \E g : g = [i \in 0 .. Len(data) |->
                             IF i = 0 THEN start ELSE KeepSticky(g[i - 1], data[i])]
  <2> DEFINE Def(g, m) == g = [i \in 0 .. m |-> IF i = 0 THEN start
                                                ELSE KeepSticky(g[i - 1], data[i])]
             T == {m \in 0 .. Len(data) : ~ \E g : Def(g, m)}
  <2>1. SUFFICES T = {}
    BY <2>1
  <2>2. 0 \notin T
    <3> DEFINE g == [i \in 0 .. 0 |-> start]
    <3>1. Def(g, 0)
      OBVIOUS
    <3> QED
      BY <3>1
  <2>3. SUFFICES ASSUME NEW m \in 1 .. Len(data), m \in T, m - 1 \in (0 .. Len(data)) \ T
                 PROVE  FALSE
    <3> HIDE DEF T
    <3>1. T \in SUBSET (0 .. Len(data))
      BY DEF T
    <3> QED
      BY <2>2, <2>3, <3>1, Step
  <2>4. PICK g : Def(g, m - 1)
    BY <2>3
  <2> DEFINE h == [i \in 0 .. m |-> IF i = m THEN KeepSticky(g[m - 1], data[m]) ELSE g[i]]
  <2>5. ASSUME NEW i \in 0 .. m
        PROVE  h[i] = IF i = 0 THEN start ELSE KeepSticky(h[i - 1], data[i])
    <3>1. CASE i = m
      <4>1. h[m - 1] = g[m - 1]
        OBVIOUS
      <4>2. h[m] = KeepSticky(g[m - 1], data[m])
        OBVIOUS
      <4> QED
        BY <3>1, <4>1, <4>2
    <3>2. CASE i # m /\ i # 0
      <4>1. h[i - 1] = g[i - 1] /\ h[i] = g[i]
        BY <3>2
      <4>2. g[i] = KeepSticky(g[i - 1], data[i])
        BY <2>4, <3>2
      <4> QED
        BY <3>2, <4>1, <4>2
    <3>3. CASE i # m /\ i = 0
      BY <2>4, <3>3
    <3> QED
      BY <3>1, <3>2, <3>3
  <2>6. Def(h, m)
    BY <2>5
  <2> QED
    BY <2>3, <2>6
<1>2. KeepLoop(start, data)
        = [i \in 0 .. Len(data) |->
             IF i = 0 THEN start
             ELSE KeepSticky(KeepLoop(start, data)[i - 1], data[i])]
  BY <1>1, Zenon DEF KeepLoop
<1> DEFINE f == KeepLoop(start, data)
<1> HIDE DEF f
<1>3. f = [i \in 0 .. Len(data) |->
             IF i = 0 THEN start ELSE KeepSticky(f[i - 1], data[i])]
  BY <1>2, Zenon DEF f
<1>4. f[0] = start
  BY <1>3
<1>5. ASSUME NEW i \in 1 .. Len(data)
      PROVE  f[i] = KeepSticky(f[i - 1], data[i])
  BY <1>3
<1> QED
  BY <1>4, <1>5 DEF f

\* What the second loop carries along after each item.
LEMMA PlaceLoopStep ==
    ASSUME NEW start, NEW sticky, NEW peers, NEW data, Len(data) \in Nat
    PROVE  LET f == PlaceLoop(start, sticky, peers, data)
           IN  /\ f[0] = start
               /\ \A i \in 1 .. Len(data) :
                     f[i] = IF sticky[data[i]] # None THEN f[i - 1]
                            ELSE Place(f[i - 1], data[i], peers)
<1>1. \E g : g = [i \in 0 .. Len(data) |->
                             IF i = 0 THEN start
                             ELSE IF sticky[data[i]] # None THEN g[i - 1]
                             ELSE Place(g[i - 1], data[i], peers)]
  <2> DEFINE One(s, i) == IF sticky[data[i]] # None THEN s
                          ELSE Place(s, data[i], peers)
             Def(g, m) == g = [i \in 0 .. m |-> IF i = 0 THEN start
                                                ELSE One(g[i - 1], i)]
             T == {m \in 0 .. Len(data) : ~ \E g : Def(g, m)}
  <2>1. SUFFICES T = {}
    <3>1. PICK g : Def(g, Len(data))
      BY <2>1
    <3> QED
      BY <3>1, Zenon
  <2> HIDE DEF One
  <2>2. 0 \notin T
    <3> DEFINE g == [i \in 0 .. 0 |-> start]
    <3>1. Def(g, 0)
      OBVIOUS
    <3> QED
      BY <3>1
  <2>3. SUFFICES ASSUME NEW m \in 1 .. Len(data), m \in T, m - 1 \in (0 .. Len(data)) \ T
                 PROVE  FALSE
    <3> HIDE DEF T
    <3>1. T \in SUBSET (0 .. Len(data))
      BY DEF T
    <3> QED
      BY <2>2, <2>3, <3>1, Step
  <2>4. PICK g : Def(g, m - 1)
    BY <2>3
  <2> DEFINE h == [i \in 0 .. m |-> IF i = m THEN One(g[m - 1], m) ELSE g[i]]
  <2>5. ASSUME NEW i \in 0 .. m
        PROVE  h[i] = IF i = 0 THEN start ELSE One(h[i - 1], i)
    <3>1. CASE i = m
      <4>1. h[m - 1] = g[m - 1]
        OBVIOUS
      <4>2. h[m] = One(g[m - 1], m)
        OBVIOUS
      <4> QED
        BY <3>1, <4>1, <4>2
    <3>2. CASE i # m /\ i # 0
      <4>1. h[i - 1] = g[i - 1] /\ h[i] = g[i]
        BY <3>2
      <4>2. g[i] = One(g[i - 1], i)
        BY <2>4, <3>2
      <4> QED
        BY <3>2, <4>1, <4>2
    <3>3. CASE i # m /\ i = 0
      BY <2>4, <3>3
    <3> QED
      BY <3>1, <3>2, <3>3
  <2>6. Def(h, m)
    BY <2>5
  <2> QED
    BY <2>3, <2>6
<1>2. PlaceLoop(start, sticky, peers, data)
        = [i \in 0 .. Len(data) |->
             IF i = 0 THEN start
             ELSE IF sticky[data[i]] # None
                  THEN PlaceLoop(start, sticky, peers, data)[i - 1]
             ELSE Place(PlaceLoop(start, sticky, peers, data)[i - 1], data[i],
                        peers)]
  BY <1>1, Zenon DEF PlaceLoop
<1> DEFINE f == PlaceLoop(start, sticky, peers, data)
<1> HIDE DEF f
<1>3. f = [i \in 0 .. Len(data) |->
             IF i = 0 THEN start
             ELSE IF sticky[data[i]] # None THEN f[i - 1]
             ELSE Place(f[i - 1], data[i], peers)]
  BY <1>2, Zenon DEF f
<1>4. f[0] = start
  BY <1>3
<1>5. ASSUME NEW i \in 1 .. Len(data)
      PROVE  f[i] = IF sticky[data[i]] # None THEN f[i - 1]
                    ELSE Place(f[i - 1], data[i], peers)
  BY <1>3
<1> QED
  BY <1>4, <1>5 DEF f

-----------------------------------------------------------------------------
(* Counting. *)

Fibre(S, f, p) == {x \in S : f[x] = p}

\* There are no more things than places when each peer has no more things than
\* places: f and g say whose a thing or a place is.
LEMMA Pigeons ==
    ASSUME NEW S, NEW T, NEW P, NEW f \in [S -> P], NEW g \in [T -> P],
           IsFiniteSet(S), IsFiniteSet(T),
           \A p \in P : Cardinality(Fibre(S, f, p)) <= Cardinality(Fibre(T, g, p))
    PROVE  Cardinality(S) <= Cardinality(T)
<1> DEFINE SS(p) == Fibre(S, f, p)
           TT(p) == Fibre(T, g, p)
<1>1. ASSUME NEW p \in P PROVE \E h : h \in Injection(SS(p), TT(p))
  <2> DEFINE a == Cardinality(SS(p))
             b == Cardinality(TT(p))
  <2>1. IsFiniteSet(SS(p)) /\ IsFiniteSet(TT(p))
    BY FS_Subset DEF Fibre
  <2>2. a \in Nat /\ b \in Nat /\ a <= b
    BY <2>1, FS_CardinalityType
  <2>3. PICK k \in Bijection(1 .. a, SS(p)) : TRUE
    BY <2>1, FS_CardinalityType DEF ExistsBijection
  <2>4. PICK j \in Bijection(1 .. b, TT(p)) : TRUE
    BY <2>1, FS_CardinalityType DEF ExistsBijection
  <2> HIDE DEF a, b, SS, TT
  <2>5. /\ k \in [1 .. a -> SS(p)]
        /\ \A x \in SS(p) : \E i \in 1 .. a : k[i] = x
    BY <2>3 DEF Bijection, Surjection
  <2>6. /\ j \in [1 .. b -> TT(p)]
        /\ \A x, y \in 1 .. b : j[x] = j[y] => x = y
    BY <2>4, Zenon DEF Bijection, Injection, IsInjective
  <2> DEFINE n(x) == CHOOSE i \in 1 .. a : k[i] = x
             h == [x \in SS(p) |-> j[n(x)]]
  <2>7. ASSUME NEW x \in SS(p) PROVE n(x) \in 1 .. a /\ k[n(x)] = x
    BY <2>5
  <2> HIDE DEF n
  <2>8. h \in [SS(p) -> TT(p)]
    BY <2>2, <2>6, <2>7
  <2>9. ASSUME NEW x \in SS(p), NEW y \in SS(p), h[x] = h[y] PROVE x = y
    <3>1. j[n(x)] = j[n(y)]
      BY <2>9
    <3>2. n(x) = n(y)
      BY <2>2, <2>6, <2>7, <3>1
    <3> QED
      BY <2>7, <3>2
  <2> QED
    BY <2>8, <2>9 DEF Injection, IsInjective
<1> DEFINE H(p) == CHOOSE h : h \in Injection(SS(p), TT(p))
           e == [x \in S |-> H(f[x])[x]]
<1>2. ASSUME NEW p \in P
      PROVE  /\ H(p) \in [SS(p) -> TT(p)]
             /\ \A x, y \in SS(p) : H(p)[x] = H(p)[y] => x = y
  <2>1. H(p) \in Injection(SS(p), TT(p))
    BY <1>1, Zenon
  <2> HIDE DEF H, SS, TT
  <2> QED
    BY <2>1, Zenon DEF Injection, IsInjective
<1> HIDE DEF H
<1>3. ASSUME NEW x \in S
      PROVE  x \in SS(f[x]) /\ e[x] \in T /\ g[e[x]] = f[x]
  <2>1. x \in SS(f[x]) /\ f[x] \in P
    BY DEF Fibre
  <2>2. H(f[x])[x] \in TT(f[x])
    BY <1>2, <2>1
  <2> QED
    BY <2>1, <2>2 DEF Fibre
<1>4. ASSUME NEW x \in S, NEW y \in S, e[x] = e[y] PROVE x = y
  <2>1. f[x] = f[y]
    BY <1>3, <1>4
  <2>2. x \in SS(f[x]) /\ y \in SS(f[x]) /\ f[x] \in P
    BY <1>3, <2>1
  <2>3. H(f[x])[x] = H(f[x])[y]
    BY <1>4, <2>1
  <2> HIDE DEF SS, TT
  <2> QED
    BY <1>2, <2>2, <2>3
<1>5. e \in Injection(S, T)
  BY <1>3, <1>4 DEF Injection, IsInjective
<1> QED
  BY <1>5, FS_Injection

-----------------------------------------------------------------------------
(* What the loops preserve. *)

With(out, p) == {j \in DOMAIN out : out[j].node = p}
Of(out, id) == {j \in DOMAIN out : out[j].id = id}
Same(data, D, id) == {k \in D : data[k] = id}

\* What Distribute is called with, after the sticky map has been cleaned.
ArgsOK(sticky, peers, data) ==
    /\ peers \in Seq(Peer) /\ data \in Seq(Item)
    /\ sticky \in [Item -> ToSet(peers) \cup {None}]
    /\ peers = <<>> => data = <<>>

CarriedTypes(s, peers) ==
    /\ s.sticky \in [Item -> ToSet(peers) \cup {None}]
    /\ s.room \in [Peer -> Int]
    /\ s.out \in Seq([id : Item, node : Peer])

\* The free places are those not used, and the result has the items of D.
Counted(s, peers, data, D) ==
    /\ Len(s.out) = Cardinality(D)
    /\ \A p \in Peer : s.room[p] = MakePeersMap(peers, Len(data))[p]
                                       - Cardinality(With(s.out, p))
    /\ \A id \in Item : Cardinality(Of(s.out, id)) = Cardinality(Same(data, D, id))

\* Items stay on their nodes, and a new item left no node with too many.
WellPlaced(s, sticky, peers) ==
    \A j \in DOMAIN s.out :
        /\ s.out[j].node \in ToSet(peers)
        /\ sticky[s.out[j].id] # None => s.out[j].node = sticky[s.out[j].id]
        /\ sticky[s.out[j].id] = None => s.room[s.out[j].node] >= 0

\* The sticky map gains the items of D that it did not have, and says where they are.
StickyGrows(s, sticky, data, D) ==
    /\ \A id \in Item : sticky[id] # None => s.sticky[id] = sticky[id]
    /\ \A id \in Item : s.sticky[id] # sticky[id] => \E k \in D : data[k] = id
    /\ \A k \in D : s.sticky[data[k]] # None
    /\ IsInjective(data) =>
          ToSet(s.out) = {[id |-> data[k], node |-> s.sticky[data[k]]] : k \in D}

\* The state of the loops when the items with the indices in D are handed out.
CarriedOK(s, sticky, peers, data, D) ==
    /\ CarriedTypes(s, peers)
    /\ Counted(s, peers, data, D)
    /\ WellPlaced(s, sticky, peers)
    /\ StickyGrows(s, sticky, data, D)

\* The places of each peer are counted.
LEMMA CapType ==
    ASSUME NEW peers, NEW n \in Nat, NEW p \in Peer
    PROVE  MakePeersMap(peers, n)[p] \in Nat
<1> DEFINE C == {i \in 0 .. (n - 1) : peers[(i % Len(peers)) + 1] = p}
<1>1. MakePeersMap(peers, n)[p] = Cardinality(C)
  BY DEF MakePeersMap
<1>2. IsFiniteSet(0 .. (n - 1)) /\ C \in SUBSET (0 .. (n - 1))
  BY FS_Interval
<1> QED
  BY <1>1, <1>2, FS_Subset, FS_CardinalityType

\* The items of a node are counted.
LEMMA LoadType ==
    ASSUME NEW out \in Seq([id : Item, node : Peer]), NEW p
    PROVE  /\ IsFiniteSet(With(out, p))
           /\ Cardinality(With(out, p)) \in Nat
<1>1. IsFiniteSet(1 .. Len(out)) /\ With(out, p) \in SUBSET (1 .. Len(out))
  BY FS_Interval DEF With
<1> QED
  BY <1>1, FS_Subset, FS_CardinalityType

\* What comes into the result goes to one node.
LEMMA CountNode ==
    ASSUME NEW out \in Seq([id : Item, node : Peer]), NEW id \in Item, NEW q \in Peer,
           NEW p \in Peer
    PROVE  Cardinality(With(Append(out, [id |-> id, node |-> q]), p))
             = Cardinality(With(out, p)) + (IF p = q THEN 1 ELSE 0)
<1> DEFINE x == [id |-> id, node |-> q]
           n == Len(out) + 1
<1>1. x.node = q /\ x \in [id : Item, node : Peer]
  OBVIOUS
<1> HIDE DEF x
<1>2. /\ Append(out, x) \in Seq([id : Item, node : Peer])
      /\ Len(Append(out, x)) = n
      /\ \A j \in 1 .. Len(out) : Append(out, x)[j] = out[j]
      /\ Append(out, x)[n] = x
  BY <1>1
<1>3. IsFiniteSet(With(out, p)) /\ n \notin With(out, p) /\ Cardinality(With(out, p)) \in Nat
  <2>1. n \notin With(out, p)
    BY DEF With
  <2> QED
    BY <2>1, LoadType
<1>4. CASE p = q
  <2>1. With(Append(out, x), p) = With(out, p) \cup {n}
    BY <1>1, <1>2, <1>4 DEF With
  <2> QED
    BY <1>3, <1>4, <2>1, FS_AddElement DEF x
<1>5. CASE p # q
  <2>1. With(Append(out, x), p) = With(out, p)
    BY <1>1, <1>2, <1>5 DEF With
  <2> QED
    BY <1>3, <1>5, <2>1 DEF x
<1> QED
  BY <1>4, <1>5

\* What comes into the result is one item.
LEMMA CountItem ==
    ASSUME NEW out \in Seq([id : Item, node : Peer]), NEW q \in Peer, NEW new \in Item,
           NEW id \in Item
    PROVE  Cardinality(Of(Append(out, [id |-> new, node |-> q]), id))
             = Cardinality(Of(out, id)) + (IF id = new THEN 1 ELSE 0)
<1> DEFINE x == [id |-> new, node |-> q]
           n == Len(out) + 1
<1>1. x.id = new /\ x \in [id : Item, node : Peer]
  OBVIOUS
<1> HIDE DEF x
<1>2. /\ Append(out, x) \in Seq([id : Item, node : Peer])
      /\ Len(Append(out, x)) = n
      /\ \A j \in 1 .. Len(out) : Append(out, x)[j] = out[j]
      /\ Append(out, x)[n] = x
  BY <1>1
<1>3. IsFiniteSet(Of(out, id)) /\ n \notin Of(out, id) /\ Cardinality(Of(out, id)) \in Nat
  <2>1. IsFiniteSet(1 .. Len(out)) /\ Of(out, id) \in SUBSET (1 .. Len(out))
    BY FS_Interval DEF Of
  <2> QED
    BY <2>1, FS_Subset, FS_CardinalityType
<1>4. CASE id = new
  <2>1. Of(Append(out, x), id) = Of(out, id) \cup {n}
    BY <1>1, <1>2, <1>4 DEF Of
  <2> QED
    BY <1>3, <1>4, <2>1, FS_AddElement DEF x
<1>5. CASE id # new
  <2>1. Of(Append(out, x), id) = Of(out, id)
    BY <1>1, <1>2, <1>5 DEF Of
  <2> QED
    BY <1>3, <1>5, <2>1 DEF x
<1> QED
  BY <1>4, <1>5

\* Handing out one more item adds one to the times it was handed out.
LEMMA CountSame ==
    ASSUME NEW data \in Seq(Item), NEW D \in SUBSET (1 .. Len(data)),
           NEW i \in (1 .. Len(data)) \ D, NEW id \in Item
    PROVE  /\ Cardinality(Same(data, D \cup {i}, id))
                = Cardinality(Same(data, D, id)) + (IF id = data[i] THEN 1 ELSE 0)
           /\ Cardinality(D \cup {i}) = Cardinality(D) + 1
           /\ Cardinality(Same(data, D, id)) \in Nat
<1>1. /\ IsFiniteSet(D) /\ Cardinality(D) \in Nat
      /\ IsFiniteSet(Same(data, D, id)) /\ Cardinality(Same(data, D, id)) \in Nat
      /\ i \notin Same(data, D, id)
  <2>1. IsFiniteSet(1 .. Len(data))
    BY FS_Interval
  <2>2. i \notin Same(data, D, id) /\ Same(data, D, id) \in SUBSET D
    BY DEF Same
  <2>3. IsFiniteSet(D) /\ Cardinality(D) \in Nat
    BY <2>1, FS_Subset, FS_CardinalityType
  <2> QED
    BY <2>2, <2>3, FS_Subset, FS_CardinalityType
<1>2. Cardinality(D \cup {i}) = Cardinality(D) + 1
  BY <1>1, FS_AddElement
<1>3. CASE id = data[i]
  <2>1. Same(data, D \cup {i}, id) = Same(data, D, id) \cup {i}
    BY <1>3 DEF Same
  <2> QED
    BY <1>1, <1>2, <1>3, <2>1, FS_AddElement
<1>4. CASE id # data[i]
  <2>1. Same(data, D \cup {i}, id) = Same(data, D, id)
    BY <1>4 DEF Same
  <2> QED
    BY <1>1, <1>2, <1>4, <2>1
<1> QED
  BY <1>3, <1>4

\* Handing out item i keeps everything when the item goes to the node that it was on,
\* or is new and goes to a peer with room.
LEMMA Handed ==
    ASSUME NEW sticky, NEW peers, NEW data, ArgsOK(sticky, peers, data),
           NEW D \in SUBSET (1 .. Len(data)), NEW i \in (1 .. Len(data)) \ D,
           NEW s, CarriedOK(s, sticky, peers, data, D),
           NEW p \in ToSet(peers),
           \/ /\ sticky[data[i]] = p
              /\ \A j \in DOMAIN s.out : sticky[s.out[j].id] # None
           \/ sticky[data[i]] = None /\ s.room[p] > 0
    PROVE  CarriedOK(State([s.sticky EXCEPT ![data[i]] = p],
                           [s.room EXCEPT ![p] = @ - 1],
                           Append(s.out, [id |-> data[i], node |-> p])),
                     sticky, peers, data, D \cup {i})
<1> DEFINE new == data[i]
           x == [id |-> new, node |-> p]
           st == [s.sticky EXCEPT ![new] = p]
           rm == [s.room EXCEPT ![p] = @ - 1]
           ou == Append(s.out, x)
           t == State(st, rm, ou)
           n == Len(s.out) + 1
<1>1. /\ new \in Item /\ p \in Peer /\ p # None
      /\ ToSet(peers) \subseteq Peer
      /\ data \in Seq(Item) /\ Len(data) \in Nat
      /\ sticky \in [Item -> ToSet(peers) \cup {None}]
  BY NoneAssumption DEF ArgsOK, ToSet
<1>2. /\ s.sticky \in [Item -> ToSet(peers) \cup {None}]
      /\ s.room \in [Peer -> Int]
      /\ s.out \in Seq([id : Item, node : Peer])
      /\ DOMAIN s.out = 1 .. Len(s.out) /\ Len(s.out) \in Nat
  BY DEF CarriedOK, CarriedTypes
<1>3. t.sticky = st /\ t.room = rm /\ t.out = ou
  BY DEF State
<1>4. x.id = new /\ x.node = p /\ x \in [id : Item, node : Peer]
  BY <1>1
<1> HIDE DEF x
<1>5. /\ ou \in Seq([id : Item, node : Peer])
      /\ Len(ou) = n /\ DOMAIN ou = 1 .. n
      /\ \A j \in 1 .. Len(s.out) : ou[j] = s.out[j]
      /\ ou[n] = x
  BY <1>2, <1>4
<1>6. /\ st \in [Item -> ToSet(peers) \cup {None}]
      /\ st[new] = p
      /\ \A id \in Item : id # new => st[id] = s.sticky[id]
  BY <1>1, <1>2
<1>7. /\ rm \in [Peer -> Int]
      /\ rm[p] = s.room[p] - 1
      /\ \A q \in Peer : q # p => rm[q] = s.room[q]
  BY <1>1, <1>2
<1> HIDE DEF t, st, rm, ou, new
<1>8. CarriedTypes(t, peers)
  BY <1>3, <1>5, <1>6, <1>7 DEF CarriedTypes
<1>9. Counted(t, peers, data, D \cup {i})
  <2>1. Len(ou) = Cardinality(D \cup {i})
    <3>1. Cardinality(D \cup {i}) = Cardinality(D) + 1
      BY <1>1, CountSame
    <3> QED
      BY <1>2, <1>5, <3>1 DEF CarriedOK, Counted
  <2>2. ASSUME NEW q \in Peer
        PROVE  rm[q] = MakePeersMap(peers, Len(data))[q] - Cardinality(With(ou, q))
    <3>1. Cardinality(With(ou, q))
            = Cardinality(With(s.out, q)) + (IF q = p THEN 1 ELSE 0)
      BY <1>1, <1>2, CountNode DEF ou, x
    <3>2. s.room[q] = MakePeersMap(peers, Len(data))[q] - Cardinality(With(s.out, q))
      BY DEF CarriedOK, Counted
    <3>3. Cardinality(With(s.out, q)) \in Nat
      BY <1>2, LoadType
    <3>4. MakePeersMap(peers, Len(data))[q] \in Nat
      BY <1>1, CapType
    <3> QED
      BY <1>7, <3>1, <3>2, <3>3, <3>4
  <2>3. ASSUME NEW id \in Item
        PROVE  Cardinality(Of(ou, id)) = Cardinality(Same(data, D \cup {i}, id))
    <3>1. Cardinality(Of(ou, id)) = Cardinality(Of(s.out, id)) + (IF id = new THEN 1 ELSE 0)
      BY <1>1, <1>2, CountItem DEF ou, x
    <3>2. Cardinality(Same(data, D \cup {i}, id))
            = Cardinality(Same(data, D, id)) + (IF id = new THEN 1 ELSE 0)
      BY <1>1, CountSame DEF new
    <3>3. Cardinality(Of(s.out, id)) = Cardinality(Same(data, D, id))
      BY DEF CarriedOK, Counted
    <3> QED
      BY <3>1, <3>2, <3>3
  <2> QED
    BY <1>3, <2>1, <2>2, <2>3 DEF Counted
<1>10. WellPlaced(t, sticky, peers)
  <2> SUFFICES ASSUME NEW j \in DOMAIN ou
               PROVE  /\ ou[j].node \in ToSet(peers)
                      /\ sticky[ou[j].id] # None => ou[j].node = sticky[ou[j].id]
                      /\ sticky[ou[j].id] = None => rm[ou[j].node] >= 0
    BY <1>3 DEF WellPlaced
  <2>1. CASE j = n
    <3>1. ou[j].node = p /\ ou[j].id = new
      BY <1>4, <1>5, <2>1
    <3>2. sticky[new] = p \/ (sticky[new] = None /\ s.room[p] > 0)
      BY DEF new
    <3> QED
      BY <1>1, <1>2, <1>7, <3>1, <3>2
  <2>2. CASE j # n
    <3>1. j \in DOMAIN s.out /\ ou[j] = s.out[j]
      BY <1>2, <1>5, <2>2
    <3>2. /\ s.out[j].node \in ToSet(peers)
          /\ sticky[s.out[j].id] # None => s.out[j].node = sticky[s.out[j].id]
          /\ sticky[s.out[j].id] = None => s.room[s.out[j].node] >= 0
      BY <3>1 DEF CarriedOK, WellPlaced
    <3>3. sticky[s.out[j].id] = None => s.room[p] > 0
      BY <1>1, <3>1
    <3>4. s.out[j].node \in Peer
      BY <1>1, <3>2
    <3>5. CASE s.out[j].node = p
      BY <1>1, <1>2, <1>7, <3>1, <3>2, <3>3, <3>5
    <3>6. CASE s.out[j].node # p
      BY <1>7, <3>1, <3>2, <3>4, <3>6
    <3> QED
      BY <3>5, <3>6
  <2> QED
    BY <2>1, <2>2
<1>11. StickyGrows(t, sticky, data, D \cup {i})
  <2>1. ASSUME NEW id \in Item, sticky[id] # None PROVE st[id] = sticky[id]
    <3>1. s.sticky[id] = sticky[id]
      BY <2>1 DEF CarriedOK, StickyGrows
    <3>2. id = new => sticky[id] = p
      BY <2>1 DEF new
    <3> QED
      BY <1>6, <3>1, <3>2
  <2>2. ASSUME NEW id \in Item, st[id] # sticky[id]
        PROVE  \E k \in D \cup {i} : data[k] = id
    <3>1. CASE id = new
      BY <3>1 DEF new
    <3>2. CASE id # new
      <4>1. s.sticky[id] # sticky[id]
        BY <1>6, <2>2, <3>2
      <4> QED
        BY <4>1 DEF CarriedOK, StickyGrows
    <3> QED
      BY <3>1, <3>2
  <2>3. ASSUME NEW k \in D \cup {i} PROVE st[data[k]] # None
    <3>1. CASE data[k] = new
      BY <1>1, <1>6, <3>1
    <3>2. CASE data[k] # new
      <4>1. k \in D /\ data[k] \in Item
        BY <1>1, <3>2 DEF new
      <4>2. s.sticky[data[k]] # None
        BY <4>1 DEF CarriedOK, StickyGrows
      <4> QED
        BY <1>6, <3>2, <4>1, <4>2
    <3> QED
      BY <3>1, <3>2
  <2>4. ASSUME IsInjective(data)
        PROVE  ToSet(ou) = {[id |-> data[k], node |-> st[data[k]]] : k \in D \cup {i}}
    <3>1. ASSUME NEW k \in D PROVE data[k] \in Item /\ data[k] # new
      BY <1>1, <2>4 DEF IsInjective, new
    <3>2. ToSet(s.out) = {[id |-> data[k], node |-> s.sticky[data[k]]] : k \in D}
      BY <2>4 DEF CarriedOK, StickyGrows
    <3>3. ASSUME NEW k \in D PROVE st[data[k]] = s.sticky[data[k]]
      BY <1>6, <3>1
    <3>4. ToSet(s.out) = {[id |-> data[k], node |-> st[data[k]]] : k \in D}
      BY <3>2, <3>3
    <3>5. x = [id |-> data[i], node |-> st[data[i]]]
      BY <1>6 DEF x, new
    <3>6. ToSet(ou) = ToSet(s.out) \cup {x}
      <4>1. ASSUME NEW y \in ToSet(ou) PROVE y \in ToSet(s.out) \cup {x}
        <5>1. PICK j \in 1 .. n : y = ou[j]
          BY <1>5 DEF ToSet
        <5>2. CASE j = n
          BY <1>5, <5>1, <5>2
        <5>3. CASE j # n
          <6>1. j \in 1 .. Len(s.out)
            BY <1>2, <5>3
          <6>2. y = s.out[j]
            BY <1>5, <5>1, <6>1
          <6> QED
            BY <1>2, <6>1, <6>2 DEF ToSet
        <5> QED
          BY <5>2, <5>3
      <4>2. ASSUME NEW y \in ToSet(s.out) PROVE y \in ToSet(ou)
        <5>1. PICK j \in 1 .. Len(s.out) : y = s.out[j]
          BY <1>2 DEF ToSet
        <5>2. j \in DOMAIN ou /\ ou[j] = y
          BY <1>2, <1>5, <5>1
        <5> QED
          BY <5>2 DEF ToSet
      <4>3. x \in ToSet(ou)
        <5>1. n \in DOMAIN ou /\ ou[n] = x
          BY <1>2, <1>5
        <5> QED
          BY <5>1 DEF ToSet
      <4> QED
        BY <4>1, <4>2, <4>3
    <3> QED
      BY <3>4, <3>5, <3>6
  <2> QED
    BY <1>3, <2>1, <2>2, <2>3, <2>4 DEF StickyGrows
<1> QED
  BY <1>8, <1>9, <1>10, <1>11 DEF CarriedOK, t, st, rm, ou, x, new

\* As long as an item is to be handed out, some peer has room: sticky items may take
\* more than the places of a node, but the places are as many as the items.
LEMMA RoomLeft ==
    ASSUME NEW sticky, NEW peers, NEW data, ArgsOK(sticky, peers, data),
           NEW D \in SUBSET (1 .. Len(data)), NEW i \in (1 .. Len(data)) \ D,
           NEW s, CarriedOK(s, sticky, peers, data, D)
    PROVE  Free(s, peers) # {}
<1> SUFFICES ASSUME Free(s, peers) = {} PROVE FALSE
  OBVIOUS
<1>0. PICK n \in Nat, m \in Nat : n = Len(data) /\ m = Len(peers)
  BY DEF ArgsOK
<1> DEFINE S == 0 .. (n - 1)
           P == ToSet(peers)
           f == [k \in S |-> peers[(k % m) + 1]]
<1>1. PICK out : out = s.out
  OBVIOUS
<1>2. /\ out \in Seq([id : Item, node : Peer])
      /\ \A j \in DOMAIN out : out[j].node \in P
      /\ Len(out) = Cardinality(D)
  BY <1>1 DEF CarriedOK, CarriedTypes, Counted, WellPlaced
<1> DEFINE T == 1 .. Len(out)
           g == [j \in T |-> out[j].node]
<1>3. /\ n > 0 /\ m > 0
      /\ P \subseteq Peer /\ \A k \in 1 .. m : peers[k] \in P
  <2>1. peers \in Seq(Peer) /\ data \in Seq(Item) /\ n > 0
    BY <1>0 DEF ArgsOK
  <2>2. data # <<>>
    BY <1>0, <2>1
  <2>3. peers # <<>>
    BY <2>2 DEF ArgsOK
  <2> QED
    BY <1>0, <2>1, <2>3 DEF ToSet
<1>4. f \in [S -> P]
  <2> SUFFICES ASSUME NEW k \in S PROVE peers[(k % m) + 1] \in P
    OBVIOUS
  <2>1. (k % m) \in 0 .. (m - 1)
    BY <1>3
  <2> QED
    BY <1>3, <2>1
<1>5. g \in [T -> P]
  BY <1>2
<1>6. IsFiniteSet(S) /\ Cardinality(S) = n /\ IsFiniteSet(T) /\ Cardinality(T) = Len(out)
  <2>1. PICK k \in Nat : k = Len(out)
    BY <1>2
  <2>2. IsFiniteSet(1 .. k) /\ Cardinality(1 .. k) = k
    BY FS_Interval
  <2>3. IsFiniteSet(0 .. (n - 1)) /\ Cardinality(0 .. (n - 1)) = n
    BY FS_Interval
  <2> QED
    BY <2>1, <2>2, <2>3
<1>7. ASSUME NEW p \in P
      PROVE  Cardinality(Fibre(S, f, p)) <= Cardinality(Fibre(T, g, p))
  <2>1. p \in Peer
    BY <1>3
  <2>2. Fibre(S, f, p) = {k \in 0 .. (n - 1) : peers[(k % Len(peers)) + 1] = p}
    BY <1>0 DEF Fibre
  <2>3. Fibre(T, g, p) = With(out, p)
    BY <1>2 DEF With, Fibre
  <2>4. /\ MakePeersMap(peers, n)[p] \in Nat
        /\ MakePeersMap(peers, n)[p] = Cardinality(Fibre(S, f, p))
    <3>1. MakePeersMap(peers, n)[p] \in Nat
      BY <2>1, CapType
    <3>2. MakePeersMap(peers, n)[p] = Cardinality(Fibre(S, f, p))
      BY <2>1, <2>2 DEF MakePeersMap
    <3> QED
      BY <3>1, <3>2
  <2>5. s.room[p] = MakePeersMap(peers, n)[p] - Cardinality(With(out, p))
    BY <1>0, <1>1, <2>1 DEF CarriedOK, Counted
  <2>6. Cardinality(With(out, p)) \in Nat
    BY <1>2, LoadType
  <2>7. ~ s.room[p] > 0
    <3>1. PICK k \in DOMAIN peers : peers[k] = p
      BY DEF ToSet
    <3> QED
      BY <3>1 DEF Free
  <2> QED
    BY <2>3, <2>4, <2>5, <2>6, <2>7
<1>8. n <= Cardinality(D)
  <2> HIDE DEF S, T, P, f, g
  <2>1. Cardinality(S) <= Cardinality(T)
    BY <1>4, <1>5, <1>6, <1>7, Pigeons
  <2> QED
    BY <1>2, <1>6, <2>1
<1>9. Cardinality(D) < n
  <2>1. IsFiniteSet(1 .. n) /\ Cardinality(1 .. n) = n
    BY FS_Interval
  <2>2. D # 1 .. n /\ D \in SUBSET (1 .. n)
    BY <1>0
  <2>3. /\ Cardinality(D) <= Cardinality(1 .. n)
        /\ Cardinality(1 .. n) = Cardinality(D) => 1 .. n = D
        /\ IsFiniteSet(D)
    BY <2>1, <2>2, FS_Subset
  <2>4. Cardinality(D) \in Nat
    BY <2>3, FS_CardinalityType
  <2> QED
    BY <1>3, <2>1, <2>2, <2>3, <2>4
<1> QED
  <2>1. Cardinality(D) \in Nat
    BY <1>2
  <2> QED
    BY <1>3, <1>8, <1>9, <2>1

\* The items that the first loop hands out of the first i.
Known(sticky, data, i) == {k \in 1 .. i : sticky[data[k]] # None}

\* After the first loop the items that were on a peer are handed out.
LEMMA KeepLoopOK ==
    ASSUME NEW sticky, NEW peers, NEW data, ArgsOK(sticky, peers, data)
    PROVE  CarriedOK(KeepLoop(Start(sticky, peers, data), data)[Len(data)],
                     sticky, peers, data, Known(sticky, data, Len(data)))
<1>0. PICK n \in Nat : n = Len(data)
  BY DEF ArgsOK
<1> DEFINE f == KeepLoop(Start(sticky, peers, data), data)
           D(i) == Known(sticky, data, i)
           OK(i) == /\ CarriedOK(f[i], sticky, peers, data, D(i))
                    /\ f[i].sticky = sticky
                    /\ \A j \in DOMAIN f[i].out : sticky[f[i].out[j].id] # None
           T == {i \in 0 .. n : ~ OK(i)}
<1>1. /\ peers \in Seq(Peer) /\ data \in Seq(Item)
      /\ sticky \in [Item -> ToSet(peers) \cup {None}]
      /\ ToSet(peers) \subseteq Peer
  BY DEF ArgsOK, ToSet
<1>2. /\ f[0] = Start(sticky, peers, data)
      /\ \A i \in 1 .. n : f[i] = KeepSticky(f[i - 1], data[i])
  BY <1>0, KeepLoopStep
<1> HIDE DEF f
<1>3. OK(0)
  <2>1. /\ f[0].sticky = sticky /\ f[0].out = <<>>
        /\ f[0].room = MakePeersMap(peers, n)
    BY <1>0, <1>2 DEF Start, State
  <2>2. D(0) = {}
    BY DEF Known
  <2>3. CarriedTypes(f[0], peers)
    <3>1. MakePeersMap(peers, n) \in [Peer -> Int]
      <4>1. \A p \in Peer : MakePeersMap(peers, n)[p] \in Int
        BY CapType
      <4>2. MakePeersMap(peers, n) = [p \in Peer |-> MakePeersMap(peers, n)[p]]
        BY DEF MakePeersMap
      <4> QED
        BY <4>1, <4>2
    <3> QED
      BY <1>1, <2>1, <3>1 DEF CarriedTypes
  <2>4. Counted(f[0], peers, data, {})
    <3>1. Cardinality({}) = 0
      BY FS_EmptySet
    <3>2. PICK e : e = <<>>
      OBVIOUS
    <3>3. Len(e) = 0 /\ DOMAIN e = {}
      BY <3>2
    <3>4. \A p : With(e, p) = {}
      BY <3>3 DEF With
    <3>5. \A id : Of(e, id) = {} /\ Same(data, {}, id) = {}
      BY <3>3 DEF Of, Same
    <3>6. \A p \in Peer : MakePeersMap(peers, n)[p] \in Int
      BY CapType
    <3>7. f[0].out = e
      BY <2>1, <3>2, Zenon
    <3>8. \A p \in Peer : f[0].room[p] = MakePeersMap(peers, n)[p] - Cardinality(With(e, p))
      <4>1. f[0].room = MakePeersMap(peers, n)
        BY <2>1, Zenon
      <4> QED
        BY <3>1, <3>4, <3>6, <4>1
    <3> QED
      BY <1>0, <3>1, <3>3, <3>5, <3>7, <3>8 DEF Counted
  <2>5. WellPlaced(f[0], sticky, peers)
    BY <2>1 DEF WellPlaced
  <2>6. StickyGrows(f[0], sticky, data, {})
    BY <2>1 DEF StickyGrows, ToSet
  <2>7. DOMAIN f[0].out = {}
    BY <2>1
  <2>8. CarriedOK(f[0], sticky, peers, data, D(0))
    BY <2>2, <2>3, <2>4, <2>5, <2>6, Zenon DEF CarriedOK
  <2> QED
    BY <2>1, <2>7, <2>8
<1>4. ASSUME NEW i \in 1 .. n, OK(i - 1) PROVE OK(i)
  <2>1. PICK s : s = f[i - 1]
    OBVIOUS
  <2>2. /\ CarriedOK(s, sticky, peers, data, D(i - 1))
        /\ s.sticky = sticky
        /\ \A j \in DOMAIN s.out : sticky[s.out[j].id] # None
    BY <1>4, <2>1
  <2>3. f[i] = KeepSticky(s, data[i])
    BY <1>2, <2>1
  <2>4. data[i] \in Item
    BY <1>0, <1>1
  <2>5. CASE sticky[data[i]] = None
    <3>1. f[i] = s
      BY <2>2, <2>3, <2>5 DEF KeepSticky
    <3>2. D(i) = D(i - 1)
      BY <1>1, <2>5 DEF Known
    <3> QED
      BY <2>2, <3>1, <3>2
  <2>6. CASE sticky[data[i]] # None
    <3>1. PICK p : p = sticky[data[i]]
      OBVIOUS
    <3>2. p \in ToSet(peers) /\ p \in Peer /\ p # None
      BY <1>1, <2>4, <2>6, <3>1
    <3>3. f[i] = State(sticky, [s.room EXCEPT ![p] = @ - 1],
                       Append(s.out, [id |-> data[i], node |-> p]))
      BY <2>2, <2>3, <2>6, <3>1 DEF KeepSticky
    <3>4. [s.sticky EXCEPT ![data[i]] = p] = sticky
      BY <1>1, <2>2, <2>4, <3>1
    <3>5. D(i) = D(i - 1) \cup {i}
      BY <1>1, <2>6 DEF Known
    <3>6. D(i - 1) \in SUBSET (1 .. n) /\ i \in (1 .. n) \ D(i - 1)
      BY DEF Known
    <3>7. CarriedOK(f[i], sticky, peers, data, D(i))
      <4> HIDE DEF D
      <4>1. CarriedOK(State([s.sticky EXCEPT ![data[i]] = p],
                            [s.room EXCEPT ![p] = @ - 1],
                            Append(s.out, [id |-> data[i], node |-> p])),
                      sticky, peers, data, D(i - 1) \cup {i})
        BY <1>0, <2>2, <3>1, <3>2, <3>6, Handed
      <4> QED
        BY <3>3, <3>4, <3>5, <4>1
    <3>8. f[i].sticky = sticky /\ f[i].out = Append(s.out, [id |-> data[i], node |-> p])
      BY <3>3 DEF State
    <3>9. ASSUME NEW j \in DOMAIN f[i].out PROVE sticky[f[i].out[j].id] # None
      <4>1. PICK out \in Seq([id : Item, node : Peer]) : out = s.out
        BY <2>2 DEF CarriedOK, CarriedTypes
      <4>2. PICK x : x = [id |-> data[i], node |-> p]
        OBVIOUS
      <4>a. x \in [id : Item, node : Peer] /\ x.id = data[i]
        BY <2>4, <3>2, <4>2
      <4>3. j \in DOMAIN Append(out, x) /\ f[i].out = Append(out, x)
        BY <3>8, <4>1, <4>2
      <4>4. CASE j = Len(out) + 1
        BY <2>6, <4>a, <4>3, <4>4
      <4>5. CASE j # Len(out) + 1
        <5>1. j \in DOMAIN out /\ Append(out, x)[j] = out[j]
          BY <4>a, <4>3, <4>5
        <5> QED
          BY <2>2, <4>1, <4>3, <5>1
      <4> QED
        BY <4>4, <4>5
    <3> QED
      BY <3>7, <3>8, <3>9
  <2> QED
    BY <2>5, <2>6
<1> HIDE DEF OK
<1>5. T = {}
  <2> SUFFICES ASSUME T # {} PROVE FALSE
    OBVIOUS
  <2>1. T \in SUBSET (0 .. n) /\ 0 \notin T
    BY <1>3
  <2>2. PICK i \in 1 .. n : i \in T /\ i - 1 \in (0 .. n) \ T
    <3> HIDE DEF T
    <3> QED
      BY <2>1, Step
  <2> QED
    BY <1>4, <2>2
<1> QED
  BY <1>0, <1>5 DEF OK, f

\* After the second loop all items are handed out.
LEMMA DistributedOK ==
    ASSUME NEW sticky, NEW peers, NEW data, ArgsOK(sticky, peers, data)
    PROVE  CarriedOK(Distributed(sticky, peers, data), sticky, peers, data,
                     1 .. Len(data))
<1>0. PICK n \in Nat : n = Len(data)
  BY DEF ArgsOK
<1>1. PICK kept : kept = KeepLoop(Start(sticky, peers, data), data)[n]
  OBVIOUS
<1>2. PICK K : K = Known(sticky, data, n)
  OBVIOUS
<1> DEFINE f == PlaceLoop(kept, sticky, peers, data)
           D(i) == K \cup (1 .. i)
           OK(i) == CarriedOK(f[i], sticky, peers, data, D(i))
           T == {i \in 0 .. n : ~ OK(i)}
<1>3. /\ f[0] = kept
      /\ \A i \in 1 .. n :
            f[i] = IF sticky[data[i]] # None THEN f[i - 1]
                   ELSE Place(f[i - 1], data[i], peers)
  BY <1>0, PlaceLoopStep
<1>4. Distributed(sticky, peers, data) = f[n]
  BY <1>0, <1>1 DEF Distributed
<1> HIDE DEF f
<1>5. K \in SUBSET (1 .. n)
  BY <1>2 DEF Known
<1>6. OK(0)
  <2>1. D(0) = K
    OBVIOUS
  <2> QED
    BY <1>0, <1>1, <1>2, <1>3, <2>1, KeepLoopOK
<1>7. ASSUME NEW i \in 1 .. n, OK(i - 1) PROVE OK(i)
  <2>1. PICK s : s = f[i - 1]
    OBVIOUS
  <2>2. CarriedOK(s, sticky, peers, data, D(i - 1))
    BY <1>7, <2>1
  <2>3. CASE sticky[data[i]] # None
    <3>1. f[i] = s
      BY <1>3, <2>1, <2>3
    <3>2. D(i) = D(i - 1)
      BY <1>2, <2>3 DEF Known
    <3> QED
      BY <2>2, <3>1, <3>2
  <2>4. CASE sticky[data[i]] = None
    <3>1. f[i] = Place(s, data[i], peers)
      BY <1>3, <2>1, <2>4
    <3>2. D(i) = D(i - 1) \cup {i}
      OBVIOUS
    <3>3. D(i - 1) \in SUBSET (1 .. Len(data)) /\ i \in (1 .. Len(data)) \ D(i - 1)
      BY <1>0, <1>2, <1>5, <2>4 DEF Known
    <3> HIDE DEF D
    <3>4. Free(s, peers) # {}
      BY <2>2, <3>3, RoomLeft
    <3>5. Min(Free(s, peers)) \in Free(s, peers)
      <4>1. Free(s, peers) \in SUBSET Nat
        BY DEF Free, ArgsOK
      <4> QED
        BY <3>4, <4>1, MinIsFree
    <3>6. PICK p : p = peers[Min(Free(s, peers))]
      OBVIOUS
    <3>7. p \in ToSet(peers) /\ s.room[p] > 0
      BY <3>5, <3>6 DEF Free, ToSet
    <3>8. f[i] = State([s.sticky EXCEPT ![data[i]] = p],
                       [s.room EXCEPT ![p] = @ - 1],
                       Append(s.out, [id |-> data[i], node |-> p]))
      BY <3>1, <3>4, <3>6 DEF Place
    <3>9. CarriedOK(State([s.sticky EXCEPT ![data[i]] = p],
                          [s.room EXCEPT ![p] = @ - 1],
                          Append(s.out, [id |-> data[i], node |-> p])),
                    sticky, peers, data, D(i - 1) \cup {i})
      BY <2>2, <2>4, <3>3, <3>7, Handed
    <3> QED
      BY <3>2, <3>8, <3>9
  <2> QED
    BY <2>3, <2>4
<1> HIDE DEF OK
<1>8. T = {}
  <2> SUFFICES ASSUME T # {} PROVE FALSE
    OBVIOUS
  <2>1. T \in SUBSET (0 .. n) /\ 0 \notin T
    BY <1>6
  <2>2. PICK i \in 1 .. n : i \in T /\ i - 1 \in (0 .. n) \ T
    <3> HIDE DEF T
    <3> QED
      BY <2>1, Step
  <2> QED
    BY <1>7, <2>2
<1>9. OK(n)
  BY <1>8
<1>10. D(n) = 1 .. n
  BY <1>5
<1> QED
  BY <1>0, <1>4, <1>9, <1>10 DEF OK

-----------------------------------------------------------------------------
(* The invariant and the properties. *)

\* What the sticky map and the last call have to do with each other.
CallOK ==
    LET end == Distributed(CleanKeysNotIn(last.before, last.peers), last.peers,
                           last.data)
    IN  /\ last.out = end.out
        /\ last.peers # <<>> => StickyMap = end.sticky

CallTypes ==
    /\ StickyMap \in [Item -> Peer \cup {None}]
    /\ last.peers \in PeerLists \cup {<<>>}
    /\ last.data \in Data
    /\ last.before \in [Item -> Peer \cup {None}]
    /\ last.peers = <<>> => last.data = <<>>

DistInv == CallTypes /\ CallOK

\* The lists of peers and the slices of items are sequences.
LEMMA ArgumentTypes ==
    /\ \A peers \in PeerLists \cup {<<>>} : peers \in Seq(Peer)
    /\ \A data \in Data : data \in Seq(Item)
    /\ <<>> \in Data
<1>1. ASSUME NEW peers \in PeerLists \cup {<<>>} PROVE peers \in Seq(Peer)
  <2>1. CASE peers \in PeerLists
    BY <2>1, PeerListsAssumption
  <2>2. CASE peers = <<>>
    BY <2>2
  <2> QED
    BY <2>1, <2>2, Zenon
<1>2. ASSUME NEW data \in Data PROVE data \in Seq(Item)
  BY MaxDataAssumption DEF Data
<1>3. <<>> \in Data
  <2>1. <<>> \in [1 .. 0 -> Item]
    OBVIOUS
  <2>2. 0 \in 0 .. MaxData
    BY MaxDataAssumption
  <2> QED
    BY <2>1, <2>2 DEF Data
<1> QED
  BY <1>1, <1>2, <1>3

\* Distribute cleans the sticky map before it reads it.
LEMMA CleanArgs ==
    ASSUME NEW before \in [Item -> Peer \cup {None}], NEW peers \in PeerLists \cup {<<>>},
           NEW data \in Data, peers = <<>> => data = <<>>
    PROVE  ArgsOK(CleanKeysNotIn(before, peers), peers, data)
BY ArgumentTypes DEF ArgsOK, CleanKeysNotIn

\* The result of a call without items is empty.
LEMMA NothingOut ==
    ASSUME NEW before \in [Item -> Peer \cup {None}]
    PROVE  Distributed(CleanKeysNotIn(before, <<>>), <<>>, <<>>).out = <<>>
<1> DEFINE sticky == CleanKeysNotIn(before, <<>>)
<1>1. PICK end : end = Distributed(sticky, <<>>, <<>>)
  OBVIOUS
<1>2. ArgsOK(sticky, <<>>, <<>>)
  BY ArgumentTypes, CleanArgs
<1>3. CarriedOK(end, sticky, <<>>, <<>>, 1 .. Len(<<>>))
  BY <1>1, <1>2, DistributedOK, Zenon
<1>4. /\ end.out \in Seq([id : Item, node : Peer])
      /\ Len(end.out) = Cardinality(1 .. Len(<<>>))
  BY <1>3, Zenon DEF CarriedOK, CarriedTypes, Counted
<1>5. Cardinality(1 .. Len(<<>>)) = 0
  <2>1. 1 .. Len(<<>>) = {}
    OBVIOUS
  <2> QED
    BY <2>1, FS_EmptySet
<1>6. end.out = <<>>
  BY <1>4, <1>5
<1> QED
  BY <1>1, <1>6

Fresh == last = NoCall /\ StickyMap \in [Item -> Peer \cup {None}]

\* Nothing is known of a call when the last operation was none.
LEMMA NoCallOK == Fresh => DistInv
<1> SUFFICES ASSUME last = NoCall, StickyMap \in [Item -> Peer \cup {None}]
             PROVE  DistInv
  BY DEF Fresh
<1> DEFINE none == [id \in Item |-> None]
<1>1. /\ last.peers = <<>> /\ last.data = <<>> /\ last.before = none
      /\ last.out = <<>>
  BY DEF NoCall
<1>2. none \in [Item -> Peer \cup {None}]
  OBVIOUS
<1> HIDE DEF none
<1>3. CallTypes
  <2>1. last.data \in Data /\ last.peers \in PeerLists \cup {<<>>}
    BY <1>1, ArgumentTypes, Zenon
  <2> QED
    BY <1>1, <1>2, <2>1, Zenon DEF CallTypes
<1>4. CallOK
  <2>1. Distributed(CleanKeysNotIn(none, <<>>), <<>>, <<>>).out = <<>>
    BY <1>2, NothingOut
  <2> QED
    BY <1>1, <2>1, Zenon DEF CallOK
<1> QED
  BY <1>3, <1>4 DEF DistInv

\* The invariant holds in the beginning.
LEMMA InitDist == Init => DistInv
BY NoCallOK DEF Init, Fresh

\* Every operation keeps the invariant.
LEMMA NextDist == DistInv /\ [Next]_vars => DistInv'
<1> SUFFICES ASSUME DistInv, [Next]_vars PROVE DistInv'
  OBVIOUS
<1>1. ASSUME NEW peers \in PeerLists, NEW data \in Data, Distribute(peers, data)
      PROVE  DistInv'
  <2>1. PICK sticky : sticky = CleanKeysNotIn(StickyMap, peers)
    OBVIOUS
  <2>2. PICK end : end = Distributed(sticky, peers, data)
    OBVIOUS
  <2>3. /\ peers = <<>> => data = <<>>
        /\ StickyMap' = end.sticky
        /\ last' = [peers |-> peers, data |-> data, before |-> StickyMap,
                    out |-> end.out]
    BY <1>1, <2>1, <2>2 DEF Distribute
  <2>4. /\ last'.peers = peers /\ last'.data = data /\ last'.before = StickyMap
        /\ last'.out = end.out
    BY <2>3
  <2>5. end.sticky \in [Item -> Peer \cup {None}]
    <3>1. ArgsOK(sticky, peers, data)
      BY <2>1, <2>3, CleanArgs DEF DistInv, CallTypes
    <3>2. end.sticky \in [Item -> ToSet(peers) \cup {None}]
      BY <2>2, <3>1, DistributedOK DEF CarriedOK, CarriedTypes
    <3>3. ToSet(peers) \subseteq Peer
      BY <3>1 DEF ArgsOK, ToSet
    <3> QED
      BY <3>2, <3>3
  <2>6. CallTypes'
    BY <2>3, <2>4, <2>5, Zenon DEF DistInv, CallTypes
  <2>7. CallOK'
    BY <2>1, <2>2, <2>3, <2>4, Zenon DEF CallOK
  <2> QED
    BY <2>6, <2>7 DEF DistInv
<1>2. ASSUME NEW peers \in PeerLists, NEW data \in Data, DistributePanics(peers, data)
      PROVE  DistInv'
  <2>1. StickyMap' \in [Item -> Peer \cup {None}]
    BY <1>2 DEF DistributePanics, CleanKeysNotIn, DistInv, CallTypes
  <2>2. last' = NoCall
    BY <1>2 DEF DistributePanics
  <2>3. Fresh'
    BY <2>1, <2>2 DEF Fresh
  <2> QED
    BY <2>3, NoCallOK, PTL
<1>3. ASSUME NEW id \in Item, NEW node \in Peer, Put(id, node) PROVE DistInv'
  <2>1. StickyMap' \in [Item -> Peer \cup {None}]
    BY <1>3 DEF Put, DistInv, CallTypes
  <2>2. last' = NoCall
    BY <1>3 DEF Put
  <2>3. Fresh'
    BY <2>1, <2>2 DEF Fresh
  <2> QED
    BY <2>3, NoCallOK, PTL
<1>4. ASSUME CleanSticky PROVE DistInv'
  <2>1. StickyMap' \in [Item -> Peer \cup {None}]
    BY <1>4 DEF CleanSticky
  <2>2. last' = NoCall
    BY <1>4 DEF CleanSticky
  <2>3. Fresh'
    BY <2>1, <2>2 DEF Fresh
  <2> QED
    BY <2>3, NoCallOK, PTL
<1>5. CASE UNCHANGED vars
  BY <1>5, Zenon DEF vars, DistInv, CallTypes, CallOK
<1> QED
  BY <1>1, <1>2, <1>3, <1>4, <1>5 DEF Next

\* The invariant holds throughout.
LEMMA DistInvariance == Spec => []DistInv
BY InitDist, NextDist, PTL DEF Spec

\* The elements of a sequence.
LEMMA ElementOf ==
    ASSUME NEW S, NEW q \in Seq(S), NEW i \in DOMAIN q
    PROVE  q[i] \in S /\ i \in 1 .. Len(q)
OBVIOUS

\* What the loops guarantee of the last call.
LEMMA LastCarried ==
    ASSUME DistInv
    PROVE  \E end :
              LET sticky == CleanKeysNotIn(last.before, last.peers)
              IN  /\ ArgsOK(sticky, last.peers, last.data)
                  /\ CarriedOK(end, sticky, last.peers, last.data, 1 .. Len(last.data))
                  /\ last.out = end.out
                  /\ last.peers # <<>> => StickyMap = end.sticky
<1>1. PICK before, peers, data : /\ before = last.before /\ peers = last.peers
                                 /\ data = last.data
  OBVIOUS
<1>2. PICK sticky : sticky = CleanKeysNotIn(before, peers)
  OBVIOUS
<1>3. ArgsOK(sticky, peers, data)
  BY <1>1, <1>2, CleanArgs DEF DistInv, CallTypes
<1>4. PICK end : end = Distributed(sticky, peers, data)
  OBVIOUS
<1>5. CarriedOK(end, sticky, peers, data, 1 .. Len(data))
  BY <1>3, <1>4, DistributedOK
<1>6. last.out = end.out /\ (peers # <<>> => StickyMap = end.sticky)
  BY <1>1, <1>2, <1>4, Zenon DEF DistInv, CallOK
<1> QED
  BY <1>1, <1>2, <1>3, <1>5, <1>6, Zenon

\* Types.
THEOREM DistributorTypes == Spec => []TypeOK
<1>1. ASSUME DistInv PROVE TypeOK
  <2>1. last.out \in Seq([id : Item, node : Peer])
    <3>1. PICK end : last.out = end.out /\ CarriedTypes(end, last.peers)
      BY <1>1, LastCarried, Zenon DEF CarriedOK
    <3> QED
      BY <3>1 DEF CarriedTypes
  <2> QED
    BY <1>1, <2>1, Zenon DEF DistInv, CallTypes, TypeOK
<1> QED
  BY <1>1, DistInvariance, PTL

\* No item is left out and none is handed out more often than it occurs, for every
\* slice of items: the inner loop always finds a peer with a free place, although items
\* that stay may fill nodes beyond their share.
THEOREM ItemsOnce == Spec => []EveryItemOnce
<1>1. ASSUME DistInv PROVE EveryItemOnce
  <2> SUFFICES ASSUME NEW id \in Item
               PROVE  Cardinality({i \in DOMAIN last.out : last.out[i].id = id})
                        = Occurrences(last.data, id)
    BY DEF EveryItemOnce
  <2>1. PICK end : /\ last.out = end.out
                   /\ Counted(end, last.peers, last.data, 1 .. Len(last.data))
    BY <1>1, LastCarried, Zenon DEF CarriedOK
  <2>2. Cardinality(Of(last.out, id))
          = Cardinality(Same(last.data, 1 .. Len(last.data), id))
    BY <2>1 DEF Counted
  <2>3. Same(last.data, 1 .. Len(last.data), id)
          = {i \in DOMAIN last.data : last.data[i] = id}
    <3>1. last.data \in Seq(Item)
      BY <1>1, ArgumentTypes DEF DistInv, CallTypes
    <3> QED
      BY <3>1 DEF Same
  <2> QED
    BY <2>2, <2>3 DEF Of, Occurrences
<1> QED
  BY <1>1, DistInvariance, PTL

\* Every item is on a peer, and on the node that it was on before when that one is
\* among the peers, whatever calls of Distribute, Put and CleanSticky came before.
THEOREM ItemsStay == Spec => []MovesOnlyFromGoneNodes
<1>1. ASSUME DistInv PROVE MovesOnlyFromGoneNodes
  <2>1. PICK end : /\ last.out = end.out
                   /\ CarriedTypes(end, last.peers)
                   /\ WellPlaced(end, CleanKeysNotIn(last.before, last.peers), last.peers)
    BY <1>1, LastCarried, Zenon DEF CarriedOK
  <2> SUFFICES ASSUME NEW i \in DOMAIN last.out
               PROVE  /\ last.out[i].node \in ToSet(last.peers)
                      /\ last.before[last.out[i].id] \in ToSet(last.peers) =>
                            last.out[i].node = last.before[last.out[i].id]
    BY DEF MovesOnlyFromGoneNodes
  <2>2. PICK x : x = last.out[i]
    OBVIOUS
  <2>3. x.id \in Item
    <3>1. PICK out \in Seq([id : Item, node : Peer]) : out = last.out
      BY <2>1 DEF CarriedTypes
    <3>2. i \in DOMAIN out /\ x = out[i]
      BY <2>2, <3>1
    <3>3. x \in [id : Item, node : Peer]
      BY <3>2, ElementOf, Zenon
    <3> QED
      BY <3>3
  <2>4. PICK sticky : sticky = CleanKeysNotIn(last.before, last.peers)
    OBVIOUS
  <2>5. x.node \in ToSet(last.peers) /\ (sticky[x.id] # None => x.node = sticky[x.id])
    BY <2>1, <2>2, <2>4 DEF WellPlaced
  <2>6. ASSUME last.before[x.id] \in ToSet(last.peers)
        PROVE  sticky[x.id] = last.before[x.id] /\ sticky[x.id] # None
    <3>1. ToSet(last.peers) \subseteq Peer
      BY <1>1, ArgumentTypes DEF DistInv, CallTypes, ToSet
    <3> QED
      BY <2>3, <2>4, <2>6, <3>1, NoneAssumption DEF CleanKeysNotIn
  <2> QED
    BY <2>2, <2>5, <2>6
<1> QED
  BY <1>1, DistInvariance, PTL

\* A node has more items than its share only when all of them were on it before.
THEOREM OverfullOnlyByStaying == Spec => []OverfullOnlyBySticky
<1>1. ASSUME DistInv PROVE OverfullOnlyBySticky
  <2>1. PICK end : /\ last.out = end.out
                   /\ CarriedTypes(end, last.peers)
                   /\ Counted(end, last.peers, last.data, 1 .. Len(last.data))
                   /\ WellPlaced(end, CleanKeysNotIn(last.before, last.peers), last.peers)
    BY <1>1, LastCarried, Zenon DEF CarriedOK
  <2>2. PICK sticky : sticky = CleanKeysNotIn(last.before, last.peers)
    OBVIOUS
  <2>3. /\ last.peers \in Seq(Peer) /\ last.data \in Seq(Item)
        /\ ToSet(last.peers) \subseteq Peer
    BY <1>1, ArgumentTypes DEF DistInv, CallTypes, ToSet
  <2>4. PICK cap : cap = MakePeersMap(last.peers, Len(last.data))
    OBVIOUS
  <2> SUFFICES ASSUME NEW p \in ToSet(last.peers), Load(p) > cap[p],
                      NEW i \in DOMAIN last.out, last.out[i].node = p
               PROVE  last.before[last.out[i].id] = p
    BY <2>4 DEF OverfullOnlyBySticky
  <2>5. PICK out : out = last.out
    OBVIOUS
  <2>6. out \in Seq([id : Item, node : Peer])
    BY <2>1, <2>5 DEF CarriedTypes
  <2>7. end.room[p] < 0
    <3>1. Load(p) = Cardinality(With(out, p))
      BY <2>5 DEF Load, With
    <3>2. end.room[p] = cap[p] - Cardinality(With(out, p))
      BY <2>1, <2>3, <2>4, <2>5 DEF Counted
    <3>3. Cardinality(With(out, p)) \in Nat
      BY <2>6, LoadType
    <3>4. cap[p] \in Nat
      <4>1. PICK n \in Nat : n = Len(last.data)
        BY <2>3
      <4>2. MakePeersMap(last.peers, n)[p] \in Nat
        BY <2>3, CapType
      <4> QED
        BY <2>4, <4>1, <4>2
    <3> QED
      BY <3>1, <3>2, <3>3, <3>4
  <2>8. PICK x : x = out[i]
    OBVIOUS
  <2>9. x.id \in Item /\ x.node = p
    <3>1. i \in DOMAIN out
      BY <2>5
    <3>2. x \in [id : Item, node : Peer]
      BY <2>6, <2>8, <3>1, ElementOf, Zenon
    <3>3. x.id \in Item
      BY <3>2
    <3> QED
      BY <2>5, <2>8, <3>3
  <2>10. sticky[x.id] # None
    <3>1. sticky[x.id] = None => end.room[x.node] >= 0
      BY <2>1, <2>2, <2>5, <2>8 DEF WellPlaced
    <3>2. end.room[p] \in Int
      BY <2>1, <2>3 DEF CarriedTypes
    <3> QED
      BY <2>7, <2>9, <3>1, <3>2
  <2>11. p = sticky[x.id]
    BY <2>1, <2>2, <2>5, <2>8, <2>9, <2>10 DEF WellPlaced
  <2>12. sticky[x.id] = last.before[x.id]
    BY <2>2, <2>9, <2>10 DEF CleanKeysNotIn
  <2> QED
    BY <2>5, <2>8, <2>11, <2>12
<1> QED
  BY <1>1, DistInvariance, PTL

\* The reverse of a sequence has the same elements, each as often.
LEMMA Reversed ==
    ASSUME NEW S, NEW q \in Seq(S)
    PROVE  /\ Reverse(q) \in Seq(S) /\ Len(Reverse(q)) = Len(q)
           /\ ToSet(Reverse(q)) = ToSet(q)
           /\ IsInjective(q) => IsInjective(Reverse(q))
           /\ q = <<>> => Reverse(q) = <<>>
           /\ Reverse(q) = <<>> => q = <<>>
<1>1. PICK n \in Nat : n = Len(q)
  OBVIOUS
<1>2. PICK r : r = Reverse(q)
  OBVIOUS
<1>3. r = [i \in 1 .. n |-> q[(n - i) + 1]]
  BY <1>1, <1>2 DEF Reverse
<1>4. r \in Seq(S) /\ Len(r) = n /\ DOMAIN r = 1 .. n
  <2>1. r \in [1 .. n -> S]
    BY <1>1, <1>3
  <2> QED
    BY <2>1
<1>5. \A i \in 1 .. n : (n - i) + 1 \in 1 .. n /\ r[i] = q[(n - i) + 1]
  BY <1>3
<1>6. DOMAIN q = 1 .. n
  BY <1>1
<1>7. ToSet(r) = ToSet(q)
  <2>1. ASSUME NEW y \in ToSet(r) PROVE y \in ToSet(q)
    <3>1. PICK i \in 1 .. n : y = r[i]
      BY <1>4 DEF ToSet
    <3> QED
      BY <1>5, <1>6, <3>1 DEF ToSet
  <2>2. ASSUME NEW y \in ToSet(q) PROVE y \in ToSet(r)
    <3>1. PICK i \in 1 .. n : y = q[i]
      BY <1>6 DEF ToSet
    <3>2. PICK j \in 1 .. n : i = (n - j) + 1
      <4>1. (n - i) + 1 \in 1 .. n /\ i = (n - ((n - i) + 1)) + 1
        OBVIOUS
      <4> QED
        BY <4>1
    <3>3. r[j] = y
      BY <1>5, <3>1, <3>2
    <3> QED
      BY <1>4, <3>3 DEF ToSet
  <2> QED
    BY <2>1, <2>2
<1>8. ASSUME IsInjective(q) PROVE IsInjective(r)
  <2> SUFFICES ASSUME NEW a \in 1 .. n, NEW b \in 1 .. n, r[a] = r[b] PROVE a = b
    BY <1>4 DEF IsInjective
  <2>1. q[(n - a) + 1] = q[(n - b) + 1]
    BY <1>5
  <2>2. (n - a) + 1 = (n - b) + 1
    BY <1>5, <1>6, <1>8, <2>1 DEF IsInjective
  <2> QED
    BY <2>2
<1>9. (q = <<>> => r = <<>>) /\ (r = <<>> => q = <<>>)
  <2>1. q = <<>> <=> n = 0
    BY <1>1
  <2>2. r = <<>> <=> n = 0
    BY <1>4
  <2> QED
    BY <2>1, <2>2
<1> QED
  BY <1>1, <1>2, <1>4, <1>7, <1>8, <1>9

\* Distributing the same items over the same peers again moves nothing, in whatever
\* order items and peers now come, when items do not repeat.
THEOREM DistributeRepeatable == Spec => []Repeatable
<1>1. ASSUME DistInv PROVE Repeatable
  <2> SUFFICES ASSUME IsInjective(last.data), last.peers # <<>>
               PROVE  LET again == Distributed(CleanKeysNotIn(StickyMap, last.peers),
                                               Reverse(last.peers), Reverse(last.data))
                      IN  /\ ToSet(again.out) = ToSet(last.out)
                          /\ again.sticky = StickyMap
    BY DEF Repeatable
  <2>1. PICK sticky, peers, data :
              /\ sticky = CleanKeysNotIn(last.before, last.peers)
              /\ peers = last.peers /\ data = last.data
    OBVIOUS
  <2>2. PICK end : /\ ArgsOK(sticky, peers, data)
                   /\ CarriedOK(end, sticky, peers, data, 1 .. Len(data))
                   /\ last.out = end.out
                   /\ StickyMap = end.sticky
    BY <1>1, <2>1, LastCarried, Zenon
  <2>3. /\ peers \in Seq(Peer) /\ data \in Seq(Item)
        /\ IsInjective(data) /\ peers # <<>>
        /\ ToSet(peers) \subseteq Peer
    BY <2>1, <2>2 DEF ArgsOK, ToSet
  <2>4. PICK st : st = StickyMap
    OBVIOUS
  <2>5. st \in [Item -> ToSet(peers) \cup {None}]
    BY <2>2, <2>4 DEF CarriedOK, CarriedTypes
  <2>6. PICK n \in Nat : n = Len(data)
    BY <2>3
  <2>7. /\ \A k \in 1 .. n : st[data[k]] # None
        /\ ToSet(end.out) = {[id |-> data[k], node |-> st[data[k]]] : k \in 1 .. n}
    BY <2>2, <2>3, <2>4, <2>6 DEF CarriedOK, StickyGrows
  <2>8. CleanKeysNotIn(st, peers) = st
    BY <2>3, <2>5, NoneAssumption DEF CleanKeysNotIn
  <2>9. PICK rp, rd : rp = Reverse(peers) /\ rd = Reverse(data)
    OBVIOUS
  <2>10. /\ rp \in Seq(Peer) /\ rp # <<>> /\ ToSet(rp) = ToSet(peers)
    BY <2>3, <2>9, Reversed
  <2>11. /\ rd \in Seq(Item) /\ Len(rd) = n /\ ToSet(rd) = ToSet(data)
         /\ IsInjective(rd)
    BY <2>3, <2>6, <2>9, Reversed
  <2>12. PICK again : again = Distributed(st, rp, rd)
    OBVIOUS
  <2>13. CarriedOK(again, st, rp, rd, 1 .. n)
    <3>1. ArgsOK(st, rp, rd)
      BY <2>5, <2>10, <2>11 DEF ArgsOK
    <3> QED
      BY <2>11, <2>12, <3>1, DistributedOK
  <2>14. ASSUME NEW k \in 1 .. n
         PROVE  rd[k] \in Item /\ st[rd[k]] # None /\ \E j \in 1 .. n : data[j] = rd[k]
    <3>1. rd[k] \in ToSet(rd) /\ rd[k] \in Item
      BY <2>11 DEF ToSet
    <3>2. PICK j \in 1 .. n : data[j] = rd[k]
      <4>1. rd[k] \in ToSet(data)
        BY <2>11, <3>1
      <4>2. PICK j \in DOMAIN data : data[j] = rd[k]
        BY <4>1 DEF ToSet
      <4> QED
        BY <2>3, <2>6, <4>2
    <3> QED
      BY <2>7, <3>1, <3>2
  <2>15. ASSUME NEW k \in 1 .. n
         PROVE  \E j \in 1 .. n : rd[j] = data[k]
    <3>1. data[k] \in ToSet(data)
      BY <2>3, <2>6 DEF ToSet
    <3>2. PICK j \in DOMAIN rd : rd[j] = data[k]
      <4>1. data[k] \in ToSet(rd)
        BY <2>11, <3>1
      <4> QED
        BY <4>1 DEF ToSet
    <3> QED
      BY <2>11, <3>2
  <2>16. again.sticky = st
    <3>1. again.sticky \in [Item -> ToSet(rp) \cup {None}]
      BY <2>13 DEF CarriedOK, CarriedTypes
    <3>2. ASSUME NEW id \in Item PROVE again.sticky[id] = st[id]
      <4>1. /\ st[id] # None => again.sticky[id] = st[id]
            /\ again.sticky[id] # st[id] => \E k \in 1 .. n : rd[k] = id
        BY <2>13 DEF CarriedOK, StickyGrows
      <4> QED
        BY <2>14, <4>1
    <3> QED
      BY <2>5, <3>1, <3>2
  <2>17. ToSet(again.out) = {[id |-> rd[k], node |-> st[rd[k]]] : k \in 1 .. n}
    BY <2>11, <2>13, <2>16 DEF CarriedOK, StickyGrows
  <2>18. ToSet(again.out) = ToSet(end.out)
    <3>1. ASSUME NEW y \in ToSet(again.out) PROVE y \in ToSet(end.out)
      <4>1. PICK k \in 1 .. n : y = [id |-> rd[k], node |-> st[rd[k]]]
        BY <2>17
      <4>2. PICK j \in 1 .. n : data[j] = rd[k]
        BY <2>14
      <4> QED
        BY <2>7, <4>1, <4>2
    <3>2. ASSUME NEW y \in ToSet(end.out) PROVE y \in ToSet(again.out)
      <4>1. PICK k \in 1 .. n : y = [id |-> data[k], node |-> st[data[k]]]
        BY <2>7
      <4>2. PICK j \in 1 .. n : rd[j] = data[k]
        BY <2>15
      <4> QED
        BY <2>17, <4>1, <4>2
    <3> QED
      BY <3>1, <3>2
  <2>19. Distributed(CleanKeysNotIn(StickyMap, last.peers), Reverse(last.peers),
                     Reverse(last.data)) = again
    BY <2>1, <2>4, <2>8, <2>9, <2>12, Zenon
  <2> QED
    BY <2>2, <2>4, <2>16, <2>18, <2>19, Zenon
<1> QED
  BY <1>1, DistInvariance, PTL

=============================================================================
