-------------------------- MODULE RaftStoreProofs --------------------------
(***************************************************************************)
(* Proofs about RaftStore, for every number of nodes, keys, clients and    *)
(* every bound: the types, that every image of the store is the replay of  *)
(* a prefix of the log, that deletes are final and that replicas agree on  *)
(* keys whose sets are recent; and that RaftStore implements ReplicatedMap.*)
(***************************************************************************)
EXTENDS RaftStore, TLAPS

\* The inductive invariant.
IInv == TypeOK /\ Replayable

-----------------------------------------------------------------------------
(* Images and the log they replay. *)

\* The empty map is the replay of no entry.
LEMMA NoImageReplays ==
    ASSUME NEW L \in Seq(Command), NEW t \in Nat
    PROVE  NoImage \in Image /\ ImageOK(L, t, NoImage)
<1>1. EmptyMap \in Map
  BY DEF EmptyMap, Map
<1>2. NoImage \in Image
  BY <1>1 DEF NoImage, Image
<1>3. NoImage.idx <= Len(L) /\ NoImage.missed = {}
  BY DEF NoImage
<1>4. ASSUME NEW k \in Key PROVE Replays(L, NoImage, k)
  <2>1. NoImage.store[k] = None
    BY DEF NoImage, EmptyMap
  <2>2. 1 .. NoImage.idx = {}
    BY DEF NoImage
  <2> QED
    BY <2>1, <2>2 DEF Replays
<1> QED
  BY <1>2, <1>3, <1>4 DEF ImageOK

\* An entry committed later does not disturb an image (raft never rewrites what
\* it has committed).
LEMMA AppendReplays ==
    ASSUME NEW L \in Seq(Command), NEW c \in Command, NEW t \in Nat,
           NEW img \in Image, ImageOK(L, t, img)
    PROVE  ImageOK(Append(L, c), t, img)
<1> DEFINE K == Append(L, c)
<1>1. K \in Seq(Command) /\ Len(K) = Len(L) + 1
  OBVIOUS
<1>2. \A i \in 1 .. Len(L) : K[i] = L[i]
  OBVIOUS
<1>3. img.idx \in Nat /\ img.idx <= Len(L) /\ Len(L) \in Nat
  BY DEF Image, ImageOK
<1>4. \A i \in 1 .. img.idx : K[i] = L[i]
  BY <1>2, <1>3
<1> HIDE DEF K
<1>5. \A i \in 1 .. img.idx, k \in Key : Touches(K, i, k) <=> Touches(L, i, k)
  BY <1>4 DEF Touches
<1>6. \A i \in 1 .. img.idx : Stale(K, i, t) <=> Stale(L, i, t)
  BY <1>4 DEF Stale
<1>7. ASSUME NEW k \in Key PROVE Replays(K, img, k)
  <2>1. Replays(L, img, k)
    BY DEF ImageOK
  <2>2. \A i \in 1 .. img.idx : (i + 1) .. img.idx \subseteq 1 .. img.idx
    BY <1>3
  <2> QED
    BY <1>4, <1>5, <2>1, <2>2 DEF Replays
<1>8. \A i \in img.missed :
        i \in 1 .. img.idx /\ K[i].op = "set" /\ Stale(K, i, t)
  BY <1>4, <1>6 DEF ImageOK
<1>9. img.idx <= Len(K)
  BY <1>1, <1>3
<1>10. ImageOK(K, t, img)
  BY <1>7, <1>8, <1>9 DEF ImageOK
<1> QED
  BY <1>10 DEF K

\* What is stale stays stale: the clocks of the model only advance.
LEMMA TickReplays ==
    ASSUME NEW L \in Seq(Command), NEW t \in Nat, NEW img \in Image,
           ImageOK(L, t, img)
    PROVE  ImageOK(L, t + 1, img)
<1>1. ASSUME NEW i \in 1 .. Len(L), Stale(L, i, t) PROVE Stale(L, i, t + 1)
  <2>1. PICK q \in Node : TooOld(L[i], q, t)
    BY <1>1 DEF Stale
  <2>2. L[i] \in Command
    OBVIOUS
  <2>3. L[i].time \in Int /\ UtcClock[q] \in Int /\ Window \in Int
    BY <2>2, ClockAssumption, WindowAssumption DEF Command
  <2>4. TooOld(L[i], q, t + 1)
    BY <2>1, <2>3 DEF TooOld, ParseTime
  <2> QED
    BY <2>4 DEF Stale
<1>2. img.idx \in Nat /\ img.idx <= Len(L)
  BY DEF Image, ImageOK
<1>3. \A i \in 1 .. img.idx : i \in 1 .. Len(L)
  BY <1>2
<1> QED
  BY <1>1, <1>3 DEF ImageOK

\* The image after Apply of the entry that follows it.
AfterApply(img, n) ==
    LET i == img.idx + 1
        c == log[i]
    IN  [idx |-> i, store |-> ApplyToMap(img.store, c, n),
         missed |-> IF Dropped(c, n) THEN img.missed \cup {i} ELSE img.missed]

\* Apply turns the replay of a prefix into the replay of the next one.
LEMMA ApplyReplays ==
    ASSUME log \in Seq(Command), now \in Nat, NEW n \in Node,
           NEW img \in Image, ImageOK(log, now, img), img.idx < Len(log)
    PROVE  /\ AfterApply(img, n) \in Image
           /\ ImageOK(log, now, AfterApply(img, n))
<1> DEFINE i == img.idx + 1
           c == log[i]
           new == AfterApply(img, n)
<1>1. /\ img.idx \in Nat /\ img.store \in [Key -> Value \cup {None}]
      /\ img.missed \in SUBSET Nat
  BY DEF Image, Map
<1>2. i \in Nat /\ i \in 1 .. Len(log) /\ c \in Command
  BY <1>1
<1>3. /\ c.key \in Key /\ c.val \in Value \cup {None}
      /\ c.op = "set" <=> c.val # None
      /\ c.op \in {"set", "delete"}
  BY <1>2, NoneAssumption DEF Command
<1> HIDE DEF c
<1> DEFINE st == ApplyToMap(img.store, c, n)
           ms == IF Dropped(c, n) THEN img.missed \cup {i} ELSE img.missed
<1>4. st \in Map
  BY <1>1, <1>3 DEF ApplyToMap, Map
<1>5. ms \in SUBSET Nat
  BY <1>1, <1>2
<1>6. new = [idx |-> i, store |-> st, missed |-> ms]
  BY DEF AfterApply, c
<1>7. new \in Image /\ new.idx = i /\ new.store = st /\ new.missed = ms
  BY <1>2, <1>4, <1>5, <1>6 DEF Image
<1>8. ASSUME NEW j \in ms
      PROVE  j \in 1 .. i /\ log[j].op = "set" /\ Stale(log, j, now)
  <2>1. CASE j \in img.missed
    BY <2>1, <1>1 DEF ImageOK
  <2>2. CASE j \notin img.missed
    <3>1. j = i /\ Dropped(c, n)
      BY <1>8, <2>2
    <3>2. c.op = "set" /\ TooOld(c, n, now)
      BY <3>1 DEF Dropped
    <3> QED
      BY <3>1, <3>2, <1>2 DEF Stale, c
  <2> QED
    BY <2>1, <2>2
<1>9. ASSUME NEW k \in Key PROVE Replays(log, new, k)
  <2>1. Replays(log, img, k)
    BY DEF ImageOK
  <2>2. \A j \in 1 .. img.idx : j \in ms <=> j \in img.missed
    BY <1>1
  <2>3. CASE Touches(log, i, k) /\ ~Dropped(c, n)
    <3>1. c.key = k /\ Kept(c)
      BY <2>3 DEF Touches, c
    <3>2. st[k] = c.val
      BY <3>1, <2>3, <1>1, <1>3 DEF ApplyToMap
    <3>3. i \notin ms
      BY <2>3, <1>1 DEF ImageOK
    <3>4. i \in 1 .. i /\ (i + 1) .. i = {}
      BY <1>2
    <3> QED
      BY <2>3, <3>2, <3>3, <3>4, <1>7 DEF Replays, c
  <2>4. CASE ~Touches(log, i, k) \/ Dropped(c, n)
    <3>1. st[k] = img.store[k]
      <4>1. CASE Dropped(c, n)
        BY <4>1 DEF ApplyToMap
      <4>2. CASE ~Touches(log, i, k)
        <5>1. c.key # k \/ ~Kept(c)
          BY <4>2 DEF Touches, c
        <5> QED
          BY <5>1, <1>1, <1>3 DEF ApplyToMap
      <4> QED
        BY <2>4, <4>1, <4>2
    <3>2. Touches(log, i, k) => i \in ms
      BY <2>4
    <3>3. CASE /\ img.store[k] = None
               /\ \A j \in 1 .. img.idx : Touches(log, j, k) => j \in img.missed
      <4>1. \A j \in 1 .. i : Touches(log, j, k) => j \in ms
        BY <3>2, <3>3, <1>1
      <4> QED
        BY <4>1, <3>1, <3>3, <1>7 DEF Replays
    <3>4. CASE \E h \in 1 .. img.idx :
                  /\ Touches(log, h, k) /\ h \notin img.missed
                  /\ img.store[k] = log[h].val
                  /\ \A j \in (h + 1) .. img.idx :
                        Touches(log, j, k) => j \in img.missed
      <4>1. PICK h \in 1 .. img.idx :
                  /\ Touches(log, h, k) /\ h \notin img.missed
                  /\ img.store[k] = log[h].val
                  /\ \A j \in (h + 1) .. img.idx :
                        Touches(log, j, k) => j \in img.missed
        BY <3>4
      <4>2. h \in 1 .. i /\ h \notin ms
        BY <4>1, <1>1
      <4>3. \A j \in (h + 1) .. i : Touches(log, j, k) => j \in ms
        BY <4>1, <3>2, <1>1
      <4> QED
        BY <4>1, <4>2, <4>3, <3>1, <1>7 DEF Replays
    <3> QED
      BY <2>1, <3>3, <3>4 DEF Replays
  <2> QED
    BY <2>3, <2>4
<1>10. new.idx <= Len(log)
  BY <1>2, <1>7
<1> QED
  BY <1>7, <1>8, <1>9, <1>10 DEF ImageOK

-----------------------------------------------------------------------------
(* The steps preserve the invariant. *)

\* A cluster that starts with empty maps, logs and snapshot stores satisfies the
\* invariant.
LEMMA InitInvariant == Init => IInv
<1> SUFFICES ASSUME Init PROVE IInv
  OBVIOUS
<1>1. log \in Seq(Command) /\ now \in Nat
  BY DEF Init
<1>2. NoImage \in Image /\ ImageOK(log, now, NoImage)
  BY <1>1, NoImageReplays
<1>3. /\ NoImage.idx = 0 /\ NoImage.store = EmptyMap /\ NoImage.missed = {}
      /\ EmptyMap \in Map
  BY <1>2 DEF NoImage, Image
<1>4. TypeOK
  BY <1>1, <1>2, <1>3 DEF Init, TypeOK, Call
<1>5. \A n \in Node : Live(n) = NoImage
  BY DEF Init, Live, NoImage
<1>6. Len(log) = 0
  BY DEF Init
<1>7. Replayable
  BY <1>2, <1>3, <1>5, <1>6 DEF Init, Replayable
<1> QED
  BY <1>4, <1>7 DEF IInv

\* A step of Set or Delete that changes nothing but the call.
LEMMA CallOnly ==
    ASSUME IInv, call' \in [Goroutine -> Call],
           UNCHANGED <<raftVars, fsmVars, up, snap, pending, now, faults>>
    PROVE  IInv'
<1>1. TypeOK'
  BY DEF IInv, TypeOK, raftVars, fsmVars
<1>2. Replayable'
  BY DEF IInv, Replayable, Live, raftVars, fsmVars
<1> QED
  BY <1>1, <1>2 DEF IInv

\* Every step of a Set or Delete call keeps the invariant; the one that matters is
\* raft.Apply, which extends the log under the images that replay it.
LEMMA CallInvariant ==
    ASSUME IInv, NEW c \in Goroutine, ClientStep(c) \/ CallStep(c)
    PROVE  IInv'
<1> USE DEF IInv
<1>0. call \in [Goroutine -> Call] /\ now \in Nat /\ Idle \in Call
  BY DEF TypeOK, Call
<1>1. ASSUME NEW n \in Node, NEW k \in Key, NEW op, NEW v,
             [op |-> op, key |-> k, val |-> v, time |-> FormatTime(n)] \in Command,
             Submit(c, n, op, k, v)
      PROVE  IInv'
  <2>1. [phase |-> "stamped", node |-> n, idx |-> 0,
         cmd |-> [op |-> op, key |-> k, val |-> v, time |-> FormatTime(n)]]
           \in Call
    BY <1>1 DEF Call
  <2>2. call' \in [Goroutine -> Call]
    BY <1>0, <1>1, <2>1 DEF Submit
  <2> QED
    BY <1>1, <2>2, CallOnly DEF Submit
<1>2. \A n \in Node : FormatTime(n) \in Int
  BY <1>0, ClockAssumption DEF FormatTime
<1>3. ASSUME NEW n \in Node, NEW k \in Key, NEW v \in Value, Set(c, n, k, v)
      PROVE  IInv'
  <2>1. [op |-> "set", key |-> k, val |-> v, time |-> FormatTime(n)] \in Command
    BY <1>2 DEF Command
  <2> QED
    BY <1>1, <1>3, <2>1 DEF Set
<1>4. ASSUME NEW n \in Node, NEW k \in Key, Delete(c, n, k)
      PROVE  IInv'
  <2>1. [op |-> "delete", key |-> k, val |-> None, time |-> FormatTime(n)]
          \in Command
    BY <1>2 DEF Command
  <2> QED
    BY <1>1, <1>4, <2>1 DEF Delete
<1>5. CASE RaftApply(c)
  <2>1. /\ call[c].node \in Node /\ call[c].cmd \in Command
        /\ call[c] \in [phase : {"stamped", "logged"}, node : Node,
                        cmd : Command, idx : Nat]
    BY <1>0, <1>5 DEF RaftApply, Call, Idle
  <2>2. /\ log' = Append(log, call[c].cmd)
        /\ UNCHANGED <<leader, up, snap, pending, fsmVars, now, faults>>
        /\ call' = [call EXCEPT ![c] =
                      [phase |-> "logged", node |-> call[c].node,
                       cmd |-> call[c].cmd, idx |-> Len(log) + 1]]
    BY <1>5 DEF RaftApply
  <2>3. log \in Seq(Command) /\ Len(log) \in Nat
    BY DEF TypeOK
  <2>4. log' \in Seq(Command) /\ Len(log') = Len(log) + 1
    BY <2>1, <2>2, <2>3
  <2>5. PICK Q \in Quorum :
          stored' = [q \in Node |-> IF q \in Q THEN Len(log) + 1 ELSE stored[q]]
    BY <1>5 DEF RaftApply
  <2>6. stored' \in [Node -> Nat]
    BY <2>3, <2>5 DEF TypeOK
  <2>7. call' \in [Goroutine -> Call]
    BY <1>0, <2>1, <2>2, <2>3 DEF Call
  <2>8. TypeOK'
    BY <2>2, <2>4, <2>6, <2>7 DEF TypeOK, fsmVars
  <2>9. ASSUME NEW img \in Image, ImageOK(log, now, img)
        PROVE  ImageOK(log', now', img)
    <3>1. ImageOK(Append(log, call[c].cmd), now, img)
      BY <2>1, <2>3, <2>9, <1>0, AppendReplays
    <3> QED
      BY <3>1, <2>2
  <2>10. ASSUME NEW n \in Node
         PROVE  /\ snap'[n].idx <= stored'[n] /\ applied'[n] <= stored'[n]
                /\ stored'[n] <= Len(log')
    <3>1. /\ snap[n].idx \in Nat /\ applied[n] \in Nat /\ stored[n] \in Nat
          /\ snap[n].idx <= stored[n] /\ applied[n] <= stored[n]
          /\ stored[n] <= Len(log)
      BY DEF TypeOK, Image, Replayable
    <3>2. stored'[n] \in {stored[n], Len(log) + 1}
      BY <2>5
    <3> QED
      BY <3>1, <3>2, <2>2, <2>3, <2>4 DEF fsmVars
  <2>11. ASSUME NEW n \in Node
         PROVE  Live(n) \in Image /\ snap[n] \in Image /\ pending[n] \in Image
    BY DEF TypeOK, Live, Image
  <2>12. \A n \in Node : Live(n)' = Live(n)
    BY <2>2 DEF Live, fsmVars
  <2>13. Replayable'
    BY <2>2, <2>9, <2>10, <2>11, <2>12 DEF Replayable, fsmVars
  <2> QED
    BY <2>8, <2>13
<1>6. CASE RaftApplyFails(c)
  <2>1. call' \in [Goroutine -> Call]
    BY <1>0, <1>6 DEF RaftApplyFails
  <2> QED
    BY <1>6, <2>1, CallOnly DEF RaftApplyFails
<1>7. CASE Return(c)
  <2>1. call' \in [Goroutine -> Call]
    BY <1>0, <1>7 DEF Return
  <2> QED
    BY <1>7, <2>1, CallOnly DEF Return
<1>8. CASE ReturnLost(c)
  <2>1. call' \in [Goroutine -> Call]
    BY <1>0, <1>8 DEF ReturnLost
  <2> QED
    BY <1>8, <2>1, CallOnly DEF ReturnLost
<1> QED
  BY <1>3, <1>4, <1>5, <1>6, <1>7, <1>8 DEF ClientStep, CallStep

\* The images of every node, with the facts about them the steps below use.
LEMMA ImagesOfNode ==
    ASSUME IInv, NEW n \in Node
    PROVE  /\ Live(n) \in Image /\ snap[n] \in Image /\ pending[n] \in Image
           /\ ImageOK(log, now, Live(n)) /\ ImageOK(log, now, snap[n])
           /\ ImageOK(log, now, pending[n])
           /\ snap[n].idx \in Nat /\ pending[n].idx \in Nat
           /\ applied[n] \in Nat /\ stored[n] \in Nat /\ Len(log) \in Nat
           /\ snap[n].idx <= stored[n] /\ applied[n] <= stored[n]
           /\ stored[n] <= Len(log)
           /\ up[n] => snap[n].idx <= applied[n] /\ pending[n].idx <= applied[n]
           /\ ~up[n] => pending[n] = NoImage
<1>1. Live(n) \in Image /\ snap[n] \in Image /\ pending[n] \in Image
  BY DEF IInv, TypeOK, Live, Image
<1>2. snap[n].idx \in Nat /\ pending[n].idx \in Nat
  BY <1>1 DEF Image
<1>3. applied[n] \in Nat /\ stored[n] \in Nat /\ Len(log) \in Nat
  BY DEF IInv, TypeOK
<1> QED
  BY <1>1, <1>2, <1>3 DEF IInv, Replayable

\* A step of node n that replaces its live image (Apply and Restore).
LEMMA LiveStep ==
    ASSUME IInv, NEW n \in Node, NEW img \in Image,
           m' = [m EXCEPT ![n] = img.store],
           applied' = [applied EXCEPT ![n] = img.idx],
           missed' = [missed EXCEPT ![n] = img.missed]
    PROVE  /\ m' \in [Node -> Map] /\ applied' \in [Node -> Nat]
           /\ missed' \in [Node -> SUBSET Nat]
           /\ Live(n)' = img
           /\ \A q \in Node \ {n} : Live(q)' = Live(q)
<1>1. img.store \in Map /\ img.idx \in Nat /\ img.missed \in SUBSET Nat
  BY DEF Image
<1>2. /\ m \in [Node -> Map] /\ applied \in [Node -> Nat]
      /\ missed \in [Node -> SUBSET Nat]
  BY DEF IInv, TypeOK
<1>3. /\ m' \in [Node -> Map] /\ applied' \in [Node -> Nat]
      /\ missed' \in [Node -> SUBSET Nat]
  BY <1>1, <1>2
<1>4. img = [idx |-> img.idx, store |-> img.store, missed |-> img.missed]
  BY DEF Image
<1>5. Live(n)' = img
  BY <1>2, <1>4 DEF Live
<1>6. \A q \in Node \ {n} : Live(q)' = Live(q)
  BY <1>2 DEF Live
<1> QED
  BY <1>3, <1>5, <1>6

\* Every step of a node keeps the invariant: replication, Apply, the snapshots it
\* takes, writes, cancels or receives, elections, crashes and restarts.
LEMMA NodeInvariant ==
    ASSUME IInv, NEW n \in Node, NodeStep(n)
    PROVE  IInv'
<1> USE DEF IInv
<1>0. /\ log \in Seq(Command) /\ now \in Nat /\ Idle \in Call
      /\ NoImage \in Image /\ ImageOK(log, now, NoImage) /\ NoImage.idx = 0
  BY NoImageReplays DEF TypeOK, Call, NoImage
<1>1. CASE Replicate(n)
  <2>1. stored' \in [Node -> Nat] /\ stored'[n] = stored[n] + 1
        /\ \A q \in Node \ {n} : stored'[q] = stored[q]
    BY <1>1 DEF Replicate, TypeOK
  <2>2. TypeOK'
    BY <1>1, <2>1 DEF Replicate, TypeOK, fsmVars
  <2>3. stored[n] < Len(log)
    BY <1>1 DEF Replicate
  <2>4. \A q \in Node : Live(q)' = Live(q)
    BY <1>1 DEF Replicate, fsmVars, Live
  <2>5. ASSUME NEW q \in Node
        PROVE  /\ snap[q].idx <= stored'[q] /\ applied[q] <= stored'[q]
               /\ stored'[q] <= Len(log)
    <3>1. CASE q = n
      BY <3>1, <2>1, <2>3, ImagesOfNode
    <3>2. CASE q # n
      BY <3>2, <2>1, ImagesOfNode
    <3> QED
      BY <3>1, <3>2
  <2>6. Replayable'
    BY <1>1, <2>4, <2>5, ImagesOfNode DEF Replicate, Replayable, fsmVars
  <2> QED
    BY <2>2, <2>6
<1>2. CASE FsmApply(n)
  <2> DEFINE i == applied[n] + 1
             c == log[i]
             img == AfterApply(Live(n), n)
  <2>1. /\ Live(n) \in Image /\ ImageOK(log, now, Live(n))
        /\ Live(n).idx = applied[n] /\ applied[n] < stored[n]
        /\ applied[n] < Len(log)
    BY <1>2, ImagesOfNode DEF Live, FsmApply
  <2>2. img \in Image /\ ImageOK(log, now, img)
    BY <1>0, <2>1, ApplyReplays
  <2>3. /\ img.idx = i /\ img.store = ApplyToMap(m[n], c, n)
        /\ img.missed = IF Dropped(c, n) THEN missed[n] \cup {i} ELSE missed[n]
    BY DEF AfterApply, Live
  <2>4. /\ m' = [m EXCEPT ![n] = img.store]
        /\ applied' = [applied EXCEPT ![n] = img.idx]
        /\ missed' = [missed EXCEPT ![n] = img.missed]
    BY <1>2, <2>3 DEF FsmApply
  <2>5. /\ m' \in [Node -> Map] /\ applied' \in [Node -> Nat]
        /\ missed' \in [Node -> SUBSET Nat]
        /\ Live(n)' = img /\ \A q \in Node \ {n} : Live(q)' = Live(q)
    BY <2>2, <2>4, LiveStep
  <2>6. c \in Command
    BY <1>0, <2>1, ImagesOfNode
  <2>7. peersFile' \in [Node -> Value \cup {None}]
    BY <1>2, <2>6, ClusterAssumption
       DEF FsmApply, ApplyToPeersFile, SetsCluster, TypeOK
  <2>14. post' \in [Node -> {"none", "find", "posted"}]
    BY <1>2 DEF FsmApply, TypeOK
  <2>8. TypeOK'
    BY <1>2, <2>5, <2>7, <2>14 DEF FsmApply, TypeOK, raftVars
  <2>9. applied'[n] = i /\ \A q \in Node \ {n} : applied'[q] = applied[q]
    BY <2>3, <2>4 DEF TypeOK
  <2>10. ASSUME NEW q \in Node
         PROVE  /\ applied'[q] <= stored[q] /\ ImageOK(log, now, Live(q)')
                /\ up[q] => /\ snap[q].idx <= applied'[q]
                            /\ pending[q].idx <= applied'[q]
    <3>1. CASE q = n
      BY <3>1, <2>1, <2>2, <2>5, <2>9, ImagesOfNode
    <3>2. CASE q # n
      BY <3>2, <2>5, <2>9, ImagesOfNode
    <3> QED
      BY <3>1, <3>2
  <2>11. UNCHANGED <<log, stored, up, snap, pending, now>>
    BY <1>2 DEF FsmApply, raftVars
  <2>12. Replayable'
    BY <2>10, <2>11, ImagesOfNode DEF Replayable
  <2> QED
    BY <2>8, <2>12
<1>3. CASE Snapshot(n)
  <2>1. UNCHANGED <<raftVars, fsmVars, up, snap, call, now, faults>>
    BY <1>3 DEF Snapshot
  <2>2. /\ pending' = [pending EXCEPT ![n] = Live(n)] /\ up[n]
        /\ pending \in [Node -> Image]
    BY <1>3 DEF Snapshot, TypeOK
  <2>3. pending' \in [Node -> Image] /\ pending'[n] = Live(n)
        /\ \A q \in Node \ {n} : pending'[q] = pending[q]
    BY <2>2, ImagesOfNode
  <2>4. TypeOK'
    BY <2>1, <2>3 DEF TypeOK, raftVars, fsmVars
  <2>5. \A q \in Node : Live(q)' = Live(q)
    BY <2>1 DEF Live, fsmVars
  <2>6. Live(n).idx = applied[n]
    BY DEF Live
  <2>7. ASSUME NEW q \in Node
        PROVE  /\ ImageOK(log, now, pending'[q])
               /\ up[q] => pending'[q].idx <= applied[q]
               /\ ~up[q] => pending'[q] = NoImage
    <3>1. CASE q = n
      BY <3>1, <2>2, <2>3, <2>6, ImagesOfNode
    <3>2. CASE q # n
      BY <3>2, <2>3, ImagesOfNode
    <3> QED
      BY <3>1, <3>2
  <2>8. Replayable'
    BY <2>1, <2>5, <2>7, ImagesOfNode DEF Replayable, raftVars, fsmVars
  <2> QED
    BY <2>4, <2>8
<1>4. CASE Persist(n) \/ PersistFails(n)
  <2>1. /\ UNCHANGED <<raftVars, fsmVars, up, call, now, faults>> /\ up[n]
        /\ pending' = [pending EXCEPT ![n] = NoImage]
        /\ snap' = snap \/ snap' = [snap EXCEPT ![n] = pending[n]]
    BY <1>4 DEF Persist, PersistFails, PersistedImage, TypeOK
  <2>2. pending \in [Node -> Image] /\ snap \in [Node -> Image]
    BY DEF TypeOK
  <2>3. /\ pending' \in [Node -> Image] /\ pending'[n] = NoImage
        /\ \A q \in Node \ {n} : pending'[q] = pending[q]
    BY <1>0, <2>1, <2>2
  <2>4. /\ snap' \in [Node -> Image] /\ snap'[n] \in {snap[n], pending[n]}
        /\ \A q \in Node \ {n} : snap'[q] = snap[q]
    BY <2>1, <2>2
  <2>5. TypeOK'
    BY <2>1, <2>3, <2>4 DEF TypeOK, raftVars, fsmVars
  <2>6. \A q \in Node : Live(q)' = Live(q)
    BY <2>1 DEF Live, fsmVars
  <2>7. ASSUME NEW q \in Node
        PROVE  /\ ImageOK(log, now, pending'[q]) /\ ImageOK(log, now, snap'[q])
               /\ up[q] => /\ pending'[q].idx <= applied[q]
                           /\ snap'[q].idx <= applied[q]
               /\ ~up[q] => pending'[q] = NoImage
               /\ snap'[q].idx <= stored[q]
    <3>1. CASE q = n
      BY <3>1, <1>0, <2>1, <2>3, <2>4, ImagesOfNode
    <3>2. CASE q # n
      BY <3>2, <2>3, <2>4, ImagesOfNode
    <3> QED
      BY <3>1, <3>2
  <2>8. Replayable'
    BY <2>1, <2>6, <2>7, ImagesOfNode DEF Replayable, raftVars, fsmVars
  <2> QED
    BY <2>5, <2>8
<1>5. CASE InstallSnapshot(n)
  <2> DEFINE img == snap[leader]
  <2>1. leader \in Node /\ stored[n] < img.idx
    BY <1>5 DEF InstallSnapshot, TypeOK
  <2>2. img \in Image /\ ImageOK(log, now, img) /\ img.idx \in Nat
        /\ img.idx <= Len(log)
    BY <2>1, ImagesOfNode DEF ImageOK
  <2>3. /\ m' = [m EXCEPT ![n] = img.store]
        /\ applied' = [applied EXCEPT ![n] = img.idx]
        /\ missed' = [missed EXCEPT ![n] = img.missed]
    BY <1>5 DEF InstallSnapshot, Restore
  <2> HIDE DEF img
  <2>4. /\ m' \in [Node -> Map] /\ applied' \in [Node -> Nat]
        /\ missed' \in [Node -> SUBSET Nat]
        /\ Live(n)' = img /\ \A q \in Node \ {n} : Live(q)' = Live(q)
    BY <2>2, <2>3, LiveStep
  <2>5. /\ snap' = [snap EXCEPT ![n] = img]
        /\ stored' = [stored EXCEPT ![n] = img.idx]
        /\ UNCHANGED <<log, leader, peersFile, post, up, pending, call, now,
                       faults>>
    BY <1>5 DEF InstallSnapshot, img
  <2>6. /\ snap' \in [Node -> Image] /\ stored' \in [Node -> Nat]
        /\ snap'[n] = img /\ stored'[n] = img.idx /\ applied'[n] = img.idx
        /\ \A q \in Node \ {n} : /\ snap'[q] = snap[q] /\ stored'[q] = stored[q]
                                 /\ applied'[q] = applied[q]
    BY <2>2, <2>3, <2>5 DEF TypeOK
  <2>7. TypeOK'
    BY <2>4, <2>5, <2>6 DEF TypeOK
  <2>8. ASSUME NEW q \in Node
        PROVE  /\ ImageOK(log, now, Live(q)') /\ ImageOK(log, now, snap'[q])
               /\ snap'[q].idx <= stored'[q] /\ applied'[q] <= stored'[q]
               /\ stored'[q] <= Len(log)
               /\ up[q] => /\ pending[q].idx <= applied'[q]
                           /\ snap'[q].idx <= applied'[q]
    <3>1. CASE q = n
      BY <3>1, <2>1, <2>2, <2>4, <2>6, ImagesOfNode
    <3>2. CASE q # n
      BY <3>2, <2>4, <2>6, ImagesOfNode
    <3> QED
      BY <3>1, <3>2
  <2>9. Replayable'
    BY <2>5, <2>8, ImagesOfNode DEF Replayable
  <2> QED
    BY <2>7, <2>9
<1>6. CASE Elect(n)
  <2>1. TypeOK'
    BY <1>6 DEF Elect, TypeOK, fsmVars
  <2>2. Replayable'
    BY <1>6 DEF Elect, Replayable, Live, fsmVars
  <2> QED
    BY <2>1, <2>2
<1>7. CASE Crash(n)
  <2>1. /\ m' = [m EXCEPT ![n] = NoImage.store]
        /\ applied' = [applied EXCEPT ![n] = NoImage.idx]
        /\ missed' = [missed EXCEPT ![n] = NoImage.missed]
    BY <1>7 DEF Crash, Restore
  <2>2. /\ m' \in [Node -> Map] /\ applied' \in [Node -> Nat]
        /\ missed' \in [Node -> SUBSET Nat]
        /\ Live(n)' = NoImage /\ \A q \in Node \ {n} : Live(q)' = Live(q)
    BY <1>0, <2>1, LiveStep
  <2>3. /\ up' = [up EXCEPT ![n] = FALSE]
        /\ pending' = [pending EXCEPT ![n] = NoImage]
        /\ UNCHANGED <<log, stored, snap, peersFile, now>>
    BY <1>7 DEF Crash
  <2>4. up' \in [Node -> BOOLEAN] /\ ~up'[n]
        /\ \A q \in Node \ {n} : up'[q] = up[q]
    BY <2>3 DEF TypeOK
  <2>5. /\ pending' \in [Node -> Image] /\ pending'[n] = NoImage
        /\ \A q \in Node \ {n} : pending'[q] = pending[q]
    BY <1>0, <2>3 DEF TypeOK
  <2>6. call' \in [Goroutine -> Call]
    BY <1>0, <1>7 DEF Crash, TypeOK
  <2>7. /\ leader' \in Node \cup {None} /\ faults' \in Nat
        /\ post' \in [Node -> {"none", "find", "posted"}]
    BY <1>7 DEF Crash, TypeOK
  <2>8. TypeOK'
    BY <2>2, <2>3, <2>4, <2>5, <2>6, <2>7 DEF TypeOK
  <2>9. applied'[n] = 0 /\ \A q \in Node \ {n} : applied'[q] = applied[q]
    BY <1>0, <2>1 DEF TypeOK
  <2>10. ASSUME NEW q \in Node
         PROVE  /\ ImageOK(log, now, Live(q)') /\ ImageOK(log, now, pending'[q])
                /\ applied'[q] <= stored[q]
                /\ up'[q] => /\ pending'[q].idx <= applied'[q]
                             /\ snap[q].idx <= applied'[q]
                /\ ~up'[q] => pending'[q] = NoImage
    <3>1. CASE q = n
      BY <3>1, <1>0, <2>2, <2>4, <2>5, <2>9, ImagesOfNode
    <3>2. CASE q # n
      BY <3>2, <2>2, <2>4, <2>5, <2>9, ImagesOfNode
    <3> QED
      BY <3>1, <3>2
  <2>11. Replayable'
    BY <2>3, <2>10, ImagesOfNode DEF Replayable
  <2> QED
    BY <2>8, <2>11
<1>8. CASE Restart(n)
  <2> DEFINE img == snap[n]
  <2>1. /\ m' = [m EXCEPT ![n] = img.store]
        /\ applied' = [applied EXCEPT ![n] = img.idx]
        /\ missed' = [missed EXCEPT ![n] = img.missed]
    BY <1>8 DEF Restart, Restore
  <2>2. img \in Image /\ ImageOK(log, now, img)
    BY ImagesOfNode
  <2>3. /\ up' = [up EXCEPT ![n] = TRUE] /\ pending[n] = NoImage
        /\ UNCHANGED <<log, leader, stored, peersFile, post, snap, pending,
                       call, now, faults>>
    BY <1>8, ImagesOfNode DEF Restart, raftVars
  <2> HIDE DEF img
  <2>4. /\ m' \in [Node -> Map] /\ applied' \in [Node -> Nat]
        /\ missed' \in [Node -> SUBSET Nat]
        /\ Live(n)' = img /\ \A q \in Node \ {n} : Live(q)' = Live(q)
    BY <2>1, <2>2, LiveStep
  <2>5. up' \in [Node -> BOOLEAN] /\ up'[n]
        /\ \A q \in Node \ {n} : up'[q] = up[q]
    BY <2>3 DEF TypeOK
  <2>6. TypeOK'
    BY <2>3, <2>4, <2>5 DEF TypeOK
  <2>7. /\ applied'[n] = snap[n].idx
        /\ \A q \in Node \ {n} : applied'[q] = applied[q]
    BY <2>1 DEF TypeOK, img
  <2>8. ASSUME NEW q \in Node
        PROVE  /\ ImageOK(log, now, Live(q)') /\ applied'[q] <= stored[q]
               /\ up'[q] => /\ pending[q].idx <= applied'[q]
                            /\ snap[q].idx <= applied'[q]
               /\ ~up'[q] => pending[q] = NoImage
    <3>1. CASE q = n
      BY <3>1, <1>0, <2>2, <2>3, <2>4, <2>5, <2>7, ImagesOfNode
    <3>2. CASE q # n
      BY <3>2, <2>4, <2>5, <2>7, ImagesOfNode
    <3> QED
      BY <3>1, <3>2
  <2>9. Replayable'
    BY <2>3, <2>8, ImagesOfNode DEF Replayable
  <2> QED
    BY <2>6, <2>9
<1>9. CASE JoinLeader(n) \/ JoinFails(n) \/ JoinAnswered(n)
  <2>1. UNCHANGED <<log, leader, stored, m, applied, missed, peersFile, up, snap,
                    pending, now, faults>>
    BY <1>9 DEF JoinLeader, JoinFails, JoinAnswered, raftVars
  <2>2. post' \in [Node -> {"none", "find", "posted"}]
    BY <1>9 DEF JoinLeader, JoinFails, JoinAnswered, TypeOK
  <2>3. call' \in [Goroutine -> Call]
    <3>1. CASE JoinLeader(n)
      <4>1. leader \in Node /\ call \in [Goroutine -> Call]
        BY <3>1 DEF JoinLeader, TypeOK
      <4>2. FormatTime(leader) \in Int
        BY <1>0, <4>1, ClockAssumption DEF FormatTime
      <4>3. PICK v \in Value :
              call' = [call EXCEPT ![n] =
                         [phase |-> "stamped", node |-> leader, idx |-> 0,
                          cmd |-> [op |-> "set", key |-> SavedKey, val |-> v,
                                   time |-> FormatTime(leader)]]]
        BY <3>1 DEF JoinLeader
      <4>4. [op |-> "set", key |-> SavedKey, val |-> v,
             time |-> FormatTime(leader)] \in Command
        BY <4>2, ClusterAssumption DEF Command
      <4>5. [phase |-> "stamped", node |-> leader, idx |-> 0,
             cmd |-> [op |-> "set", key |-> SavedKey, val |-> v,
                      time |-> FormatTime(leader)]] \in Call
        BY <4>1, <4>4 DEF Call
      <4> QED
        BY <4>1, <4>3, <4>5
    <3>2. CASE JoinFails(n) \/ JoinAnswered(n)
      BY <3>2 DEF JoinFails, JoinAnswered, TypeOK
    <3> QED
      BY <1>9, <3>1, <3>2
  <2>4. TypeOK'
    BY <2>1, <2>2, <2>3 DEF TypeOK
  <2>5. Replayable'
    BY <2>1 DEF Replayable, Live
  <2> QED
    BY <2>4, <2>5
<1> QED
  BY <1>1, <1>2, <1>3, <1>4, <1>5, <1>6, <1>7, <1>8, <1>9 DEF NodeStep

\* The invariant is inductive.
LEMMA NextInvariant == IInv /\ [Next]_vars => IInv'
<1> SUFFICES ASSUME IInv, [Next]_vars PROVE IInv'
  OBVIOUS
<1>1. CASE \/ \E c \in Client : ClientStep(c)
           \/ \E g \in Goroutine : CallStep(g)
  BY <1>1, CallInvariant DEF Goroutine
<1>2. CASE \E n \in Node : NodeStep(n)
  BY <1>2, NodeInvariant
<1>3. CASE StepDown
  <2>1. TypeOK'
    BY <1>3 DEF StepDown, IInv, TypeOK, fsmVars
  <2>2. Replayable'
    BY <1>3 DEF StepDown, IInv, Replayable, Live, fsmVars
  <2> QED
    BY <2>1, <2>2 DEF IInv
<1>4. CASE Tick
  <2>1. /\ UNCHANGED <<log, leader, stored, m, applied, missed, peersFile,
                       post, up, snap, pending, call, faults>>
        /\ now' = now + 1 /\ now \in Nat /\ log \in Seq(Command)
    BY <1>4 DEF Tick, IInv, TypeOK, raftVars, fsmVars
  <2>2. TypeOK'
    BY <2>1 DEF IInv, TypeOK
  <2>3. ASSUME NEW img \in Image, ImageOK(log, now, img)
        PROVE  ImageOK(log, now + 1, img)
    BY <2>1, <2>3, TickReplays
  <2>4. \A n \in Node : Live(n)' = Live(n)
    BY <2>1 DEF Live
  <2>5. ASSUME NEW n \in Node
        PROVE  /\ ImageOK(log, now', Live(n)) /\ ImageOK(log, now', snap[n])
               /\ ImageOK(log, now', pending[n])
    BY <2>1, <2>3, ImagesOfNode
  <2>6. Replayable'
    BY <2>1, <2>4, <2>5 DEF IInv, Replayable
  <2> QED
    BY <2>2, <2>6 DEF IInv
<1>5. CASE UNCHANGED vars
  <2>1. TypeOK'
    BY <1>5 DEF vars, IInv, TypeOK
  <2>2. Replayable'
    BY <1>5 DEF vars, IInv, Replayable, Live
  <2> QED
    BY <2>1, <2>2 DEF IInv
<1> QED
  BY <1>1, <1>2, <1>3, <1>4, <1>5 DEF Next

-----------------------------------------------------------------------------
(* The theorems. *)

\* Types and the replay of the log hold of every reachable state, for every
\* cluster, window, clock offset and bound.
THEOREM Invariance == Spec => []IInv
<1>1. Init => IInv
  BY InitInvariant
<1>2. IInv /\ [Next]_vars => IInv'
  BY NextInvariant
<1> QED
  BY <1>1, <1>2, PTL DEF Spec

\* Type correctness of the store, for every size of the cluster.
THEOREM TypeCorrect == Spec => []TypeOK
<1>1. IInv => TypeOK
  BY DEF IInv
<1> QED
  BY <1>1, Invariance, PTL

\* Live maps, snapshots and clones in flight are replays of the log.
THEOREM ImagesReplay == Spec => []Replayable
<1>1. IInv => Replayable
  BY DEF IInv
<1> QED
  BY <1>1, Invariance, PTL

\* No value comes back after a delete: Apply does not age-check deletes, Persist
\* writes a clone that matches its index, Restore replaces the whole map.
THEOREM DeletesAreFinal == Spec => []NoResurrection
<1>1. ASSUME IInv PROVE NoResurrection
  <2> SUFFICES ASSUME NEW n \in Node, NEW k \in Key, up[n], m[n][k] # None
               PROVE  \E i \in 1 .. applied[n] :
                        /\ Touches(log, i, k) /\ log[i].op = "set"
                        /\ log[i].val = m[n][k]
                        /\ \A j \in (i + 1) .. applied[n] :
                              ~(Touches(log, j, k) /\ log[j].op = "delete")
    BY DEF NoResurrection
  <2>1. /\ Live(n).idx = applied[n] /\ Live(n).store = m[n]
        /\ Live(n).missed = missed[n]
    BY DEF Live
  <2>2. ImageOK(log, now, Live(n)) /\ applied[n] \in Nat
        /\ applied[n] <= Len(log) /\ log \in Seq(Command)
    BY <1>1, <2>1, ImagesOfNode DEF ImageOK, IInv, TypeOK
  <2>3. PICK i \in 1 .. applied[n] :
          /\ Touches(log, i, k) /\ m[n][k] = log[i].val
          /\ \A j \in (i + 1) .. applied[n] :
                Touches(log, j, k) => j \in missed[n]
    BY <2>1, <2>2 DEF ImageOK, Replays
  <2>4. log[i] \in Command
    BY <2>2
  <2>5. log[i].op = "set"
    BY <2>3, <2>4 DEF Command
  <2>6. \A j \in missed[n] : log[j].op = "set"
    BY <2>1, <2>2 DEF ImageOK
  <2> QED
    BY <2>3, <2>5, <2>6
<1> QED
  BY <1>1, Invariance, PTL

\* While the sets of a key are recent, the value a replica holds depends on its
\* applied index alone, not on the snapshots and restarts it went through.
THEOREM YoungReplicasAgree == Spec => []YoungLogAgrees
<1>1. ASSUME IInv PROVE YoungLogAgrees
  <2> SUFFICES ASSUME NEW n1 \in Node, NEW n2 \in Node, NEW k \in Key,
                      applied[n1] = applied[n2],
                      \A i \in 1 .. applied[n1] :
                        Touches(log, i, k) /\ log[i].op = "set"
                          => ~Stale(log, i, now)
               PROVE  m[n1][k] = m[n2][k]
    BY DEF YoungLogAgrees
  <2> DEFINE a == applied[n1]
             Last(i) == /\ Touches(log, i, k)
                        /\ \A j \in (i + 1) .. a : ~Touches(log, j, k)
  <2>1. a \in Nat
    BY <1>1, ImagesOfNode
  <2>2. ASSUME NEW n \in Node, applied[n] = a
        PROVE  \/ m[n][k] = None /\ \A j \in 1 .. a : ~Touches(log, j, k)
               \/ \E i \in 1 .. a : Last(i) /\ m[n][k] = log[i].val
    <3>1. /\ Live(n).idx = a /\ Live(n).store = m[n]
          /\ Live(n).missed = missed[n]
      BY <2>2 DEF Live
    <3>2. ImageOK(log, now, Live(n))
      BY <1>1, ImagesOfNode
    <3>3. \A j \in 1 .. a : Touches(log, j, k) => j \notin missed[n]
      BY <3>1, <3>2 DEF ImageOK
    <3>4. \A i \in 1 .. a : (i + 1) .. a \subseteq 1 .. a
      BY <2>1
    <3>5. Replays(log, Live(n), k)
      BY <3>2 DEF ImageOK
    <3> QED
      BY <3>1, <3>3, <3>4, <3>5 DEF Replays
  <2>3. ASSUME NEW i \in 1 .. a, NEW j \in 1 .. a, Last(i), Last(j)
        PROVE  i = j
    BY <2>1, <2>3
  <2> HIDE DEF Last
  <2>4. \A i \in 1 .. a : Last(i) => Touches(log, i, k)
    BY DEF Last
  <2> QED
    BY <2>2, <2>3, <2>4
<1> QED
  BY <1>1, Invariance, PTL

-----------------------------------------------------------------------------
(* The refinement.  The steps of a client, of raft and of the clock change no *)
(* image or only lengthen the log; the FSM's steps are those of a replica.    *)
(* The invariant is needed for one fact: an entry that a node applies is in   *)
(* the log.                                                                   *)

\* The two variables of ReplicatedMap that are not RaftStore's own.
Images == [n \in Node |-> Live(n)]
SavedImages ==
    {NoImage} \cup {snap[n] : n \in Node} \cup {pending[n] : n \in Node}

\* A step of ReplicatedMap, or none.
ReplicaStep == Replicas!Next \/ UNCHANGED <<log, Images, SavedImages>>

\* Every node starts with the image of the empty log.
LEMMA InitRefines == Init => Replicas!Init
<1> SUFFICES ASSUME Init PROVE Replicas!Init
  OBVIOUS
<1>1. \A n \in Node : Live(n) = NoImage
  BY DEF Init, Live, NoImage
<1>2. [n \in Node |-> Live(n)] = [n \in Node |-> NoImage]
  BY <1>1
<1>3. \A n \in Node : snap[n] = NoImage /\ pending[n] = NoImage
  BY DEF Init
<1>4. {NoImage} \cup {snap[n] : n \in Node} \cup {pending[n] : n \in Node}
        = {NoImage}
  BY <1>3
<1>5. log = <<>>
  BY DEF Init
<1> QED
  BY <1>2, <1>4, <1>5 DEF Replicas!Init

\* A step that leaves the log and everything of the FSM alone is no step.
LEMMA NoReplicaStep ==
    ASSUME UNCHANGED <<log, applied, m, missed, snap, pending>>
    PROVE  ReplicaStep
<1>1. Images' = Images
  BY DEF Images, Live
<1>2. SavedImages' = SavedImages
  BY DEF SavedImages
<1> QED
  BY <1>1, <1>2 DEF ReplicaStep

\* Set and Delete lengthen the log or leave the replicas alone.
LEMMA CallRefines ==
    ASSUME IInv, NEW c \in Goroutine, ClientStep(c) \/ CallStep(c)
    PROVE  ReplicaStep
<1>1. CASE RaftApply(c)
  <2>1. /\ log' = Append(log, call[c].cmd)
        /\ UNCHANGED <<applied, m, missed, snap, pending>>
    BY <1>1 DEF RaftApply, fsmVars
  <2>2. log \in Seq(Command) /\ Len(log) \in Nat
    BY DEF IInv, TypeOK
  <2>3. Len(log') = Len(log) + 1 /\ \A i \in 1 .. Len(log) : log'[i] = log[i]
    BY <2>1, <2>2
  <2>4. [n \in Node |-> Live(n)]' = [n \in Node |-> Live(n)]
    BY <2>1 DEF Live
  <2>5. SavedImages' = SavedImages
    BY <2>1 DEF SavedImages
  <2>6. Replicas!Extend
    BY <2>3, <2>4, <2>5 DEF Replicas!Extend, SavedImages
  <2> QED
    BY <2>6 DEF ReplicaStep, Replicas!Next
<1>2. CASE ~RaftApply(c)
  <2>1. UNCHANGED <<log, applied, m, missed, snap, pending>>
    BY <1>2 DEF ClientStep, CallStep, Set, Delete, Submit, RaftApplyFails,
                Return, ReturnLost, raftVars, fsmVars
  <2> QED
    BY <2>1, NoReplicaStep
<1> QED
  BY <1>1, <1>2

\* Apply is a step of the replica: the entry is carried out, or it is a set and
\* passed over.
LEMMA ApplyRefines ==
    ASSUME IInv, NEW n \in Node, FsmApply(n)
    PROVE  Replicas!Advance(n)
<1> DEFINE i == applied[n] + 1
           c == log[i]
           st == ApplyToMap(m[n], c, n)
           ms == IF Dropped(c, n) THEN missed[n] \cup {i} ELSE missed[n]
           img == [idx |-> i, store |-> st, missed |-> ms]
<1>1. /\ applied \in [Node -> Nat] /\ stored \in [Node -> Nat]
      /\ m \in [Node -> Map] /\ missed \in [Node -> SUBSET Nat]
      /\ log \in Seq(Command) /\ Len(log) \in Nat
  BY DEF IInv, TypeOK
<1>2. i <= Len(log)
  BY <1>1 DEF FsmApply, IInv, Replayable
<1>3. /\ applied' = [applied EXCEPT ![n] = i]
      /\ m' = [m EXCEPT ![n] = st]
      /\ missed' = [missed EXCEPT ![n] = ms]
      /\ UNCHANGED <<log, snap, pending>>
  BY DEF FsmApply, raftVars
<1>4. Images[n] = Live(n) /\ Live(n).idx = applied[n]
      /\ Live(n).store = m[n] /\ Live(n).missed = missed[n]
  BY DEF Images, Live
<1>5. Images' = [Images EXCEPT ![n] = img]
  <2>1. ASSUME NEW q \in Node PROVE Live(q)' = [Images EXCEPT ![n] = img][q]
    BY <1>1, <1>3 DEF Images, Live
  <2> QED
    BY <2>1 DEF Images
<1>6. SavedImages' = SavedImages
  BY <1>3 DEF SavedImages
<1>7. c.op \in {"set", "delete"}
  BY <1>1, <1>2 DEF Command
<1> HIDE DEF c
<1>8. CASE Dropped(c, n)
  <2>1. c.op = "set" /\ st = m[n] /\ ms = missed[n] \cup {i}
    BY <1>8 DEF Dropped, ApplyToMap
  <2>2. img = [idx |-> Images[n].idx + 1, store |-> Images[n].store,
               missed |-> Images[n].missed \cup {Images[n].idx + 1}]
    BY <2>1, <1>4
  <2> QED
    BY <2>1, <2>2, <1>2, <1>3, <1>4, <1>5, <1>6
    DEF Replicas!Advance, Images, SavedImages, c
<1>9. CASE ~Dropped(c, n)
  <2>1. st = Replicas!Execute(m[n], c) /\ ms = missed[n]
    BY <1>9 DEF ApplyToMap, Replicas!Execute
  <2>2. img = [idx |-> Images[n].idx + 1,
               store |-> Replicas!Execute(Images[n].store, c),
               missed |-> Images[n].missed]
    BY <2>1, <1>4
  <2> QED
    BY <2>2, <1>2, <1>3, <1>4, <1>5, <1>6
    DEF Replicas!Advance, Images, SavedImages, c
<1> QED
  BY <1>8, <1>9

\* Restore takes an image that was saved.
LEMMA RestoreRefines ==
    ASSUME IInv, NEW n \in Node, NEW img \in SavedImages, Restore(n, img),
           log' = log, SavedImages' \subseteq SavedImages
    PROVE  Replicas!Load(n)
<1>1. /\ applied \in [Node -> Nat] /\ m \in [Node -> Map]
      /\ missed \in [Node -> SUBSET Nat] /\ img \in Image
  BY DEF IInv, TypeOK, SavedImages, NoImage, Image, Map, EmptyMap
<1>2. img = [idx |-> img.idx, store |-> img.store, missed |-> img.missed]
  BY <1>1 DEF Image
<1>3. Images' = [Images EXCEPT ![n] = img]
  <2>1. ASSUME NEW q \in Node PROVE Live(q)' = [Images EXCEPT ![n] = img][q]
    BY <1>1, <1>2 DEF Restore, Images, Live
  <2> QED
    BY <2>1 DEF Images
<1> QED
  BY <1>3 DEF Replicas!Load, Images, SavedImages

\* Every step of a node is a step of its replica, or none.
LEMMA NodeRefines ==
    ASSUME IInv, NEW n \in Node, NodeStep(n)
    PROVE  ReplicaStep
<1>0. /\ snap \in [Node -> Image] /\ pending \in [Node -> Image]
  BY DEF IInv, TypeOK
<1>1. CASE \/ Replicate(n) \/ Elect(n)
           \/ JoinLeader(n) \/ JoinFails(n) \/ JoinAnswered(n)
  <2>1. UNCHANGED <<log, applied, m, missed, snap, pending>>
    BY <1>1 DEF Replicate, Elect, JoinLeader, JoinFails, JoinAnswered, raftVars,
                fsmVars
  <2> QED
    BY <2>1, NoReplicaStep
<1>2. CASE FsmApply(n)
  BY <1>2, ApplyRefines DEF ReplicaStep, Replicas!Next
<1>3. CASE Snapshot(n)
  <2>1. /\ pending' = [pending EXCEPT ![n] = Live(n)] /\ pending[n] = NoImage
        /\ UNCHANGED <<log, applied, m, missed, snap>>
    BY <1>3 DEF Snapshot, raftVars, fsmVars
  <2>2. SavedImages' = SavedImages \cup {Images[n]}
    <3>1. \A q \in Node : q # n => pending'[q] = pending[q]
      BY <2>1, <1>0
    <3>2. pending'[n] = Images[n]
      BY <2>1, <1>0 DEF Images
    <3>3. {pending'[q] : q \in Node} \subseteq {pending[q] : q \in Node} \cup {Images[n]}
      BY <3>1, <3>2
    <3>4. {pending[q] : q \in Node} \subseteq {pending'[q] : q \in Node} \cup {NoImage}
      BY <3>1, <2>1
    <3>5. Images[n] \in {pending'[q] : q \in Node}
      BY <3>2
    <3> QED
      BY <2>1, <3>3, <3>4, <3>5 DEF SavedImages
  <2>3. Images' = Images
    BY <2>1 DEF Images, Live
  <2>4. Replicas!Save(n)
    BY <2>1, <2>2, <2>3 DEF Replicas!Save, Images, SavedImages
  <2> QED
    BY <2>4 DEF ReplicaStep, Replicas!Next
<1>4. CASE Persist(n) \/ PersistFails(n)
  <2>1. /\ UNCHANGED <<log, applied, m, missed>>
        /\ pending' = [pending EXCEPT ![n] = NoImage]
        /\ \A q \in Node : snap'[q] \in {snap[q], pending[q]}
    BY <1>0, <1>4 DEF Persist, PersistFails, PersistedImage, raftVars, fsmVars
  <2>2. \A q \in Node : pending'[q] \in {pending[q], NoImage}
    BY <2>1, <1>0
  <2>3. SavedImages' \subseteq SavedImages
    BY <2>1, <2>2 DEF SavedImages
  <2>4. Images' = Images
    BY <2>1 DEF Images, Live
  <2>5. Replicas!Discard
    BY <2>1, <2>3, <2>4 DEF Replicas!Discard, Images, SavedImages
  <2> QED
    BY <2>5 DEF ReplicaStep, Replicas!Next
<1>5. CASE InstallSnapshot(n)
  <2>1. /\ leader \in Node /\ Restore(n, snap[leader])
        /\ snap' = [snap EXCEPT ![n] = snap[leader]]
        /\ UNCHANGED <<log, pending>>
    BY <1>5 DEF InstallSnapshot, IInv, TypeOK
  <2>2. snap[leader] \in SavedImages
    BY <2>1 DEF SavedImages
  <2>3. \A q \in Node : snap'[q] \in {snap[q], snap[leader]}
    BY <2>1, <1>0
  <2>4. SavedImages' \subseteq SavedImages
    BY <2>1, <2>3 DEF SavedImages
  <2>5. Replicas!Load(n)
    BY <2>1, <2>2, <2>4, RestoreRefines
  <2> QED
    BY <2>5 DEF ReplicaStep, Replicas!Next
<1>6. CASE Crash(n)
  <2>1. /\ Restore(n, NoImage) /\ UNCHANGED <<log, snap>>
        /\ pending' = [pending EXCEPT ![n] = NoImage]
    BY <1>6 DEF Crash
  <2>2. \A q \in Node : pending'[q] \in {pending[q], NoImage}
    BY <2>1, <1>0
  <2>3. SavedImages' \subseteq SavedImages /\ NoImage \in SavedImages
    BY <2>1, <2>2 DEF SavedImages
  <2>4. Replicas!Load(n)
    BY <2>1, <2>3, RestoreRefines
  <2> QED
    BY <2>4 DEF ReplicaStep, Replicas!Next
<1>7. CASE Restart(n)
  <2>1. Restore(n, snap[n]) /\ UNCHANGED <<log, snap, pending>>
    BY <1>7 DEF Restart, raftVars
  <2>2. SavedImages' = SavedImages /\ snap[n] \in SavedImages
    BY <2>1 DEF SavedImages
  <2>3. Replicas!Load(n)
    BY <2>1, <2>2, RestoreRefines
  <2> QED
    BY <2>3 DEF ReplicaStep, Replicas!Next
<1> QED
  BY <1>1, <1>2, <1>3, <1>4, <1>5, <1>6, <1>7 DEF NodeStep

-----------------------------------------------------------------------------
\* The store implements a replicated map, for every cluster, window, clock and
\* bound: replicas move along the one log or to images that were saved, and only
\* sets are ever passed over.
THEOREM StoreImplementsReplicas == Spec => ImplementsReplicas
<1>1. Init => Replicas!Init
  BY InitRefines
<1>2. IInv /\ [Next]_vars => [Replicas!Next]_(Replicas!vars)
  <2> SUFFICES ASSUME IInv, [Next]_vars PROVE ReplicaStep
    BY DEF ReplicaStep, Replicas!vars, Images, SavedImages
  <2>1. ASSUME NEW c \in Goroutine, (c \in Client /\ ClientStep(c)) \/ CallStep(c)
        PROVE  ReplicaStep
    BY <2>1, CallRefines
  <2>2. ASSUME NEW n \in Node, NodeStep(n) PROVE ReplicaStep
    BY <2>2, NodeRefines
  <2>3. CASE StepDown \/ Tick \/ UNCHANGED vars
    <3>1. UNCHANGED <<log, applied, m, missed, snap, pending>>
      BY <2>3 DEF StepDown, Tick, vars, raftVars, fsmVars
    <3> QED
      BY <3>1, NoReplicaStep
  <2> QED
    BY <2>1, <2>2, <2>3 DEF Next, Goroutine
<1> QED
  BY <1>1, <1>2, Invariance, PTL DEF Spec, ImplementsReplicas, Replicas!Spec

=============================================================================
