------------------------- MODULE StoreDealersProofs -------------------------
(***************************************************************************)
(* Proofs about StoreDealers, on top of the invariant of the store: the    *)
(* order in which the dealers of a process run and which entries can pass  *)
(* them by, for every cluster, log and set of dealers.                     *)
(***************************************************************************)
EXTENDS StoreDealers, RaftStoreProofs

\* Types of what the dealers add to the store.
DealTypes ==
    /\ called \in [Node -> Seq(Nat)] /\ base \in [Node -> Nat]
    /\ ever \in [Node -> SUBSET Nat] /\ sent \in [Node -> Nat]

\* The calls of n's process, in order and after the snapshot it started from.
CallsInOrder(n) ==
    /\ \A i \in 1 .. Len(called[n]) : base[n] < called[n][i]
    /\ \A i \in 1 .. (Len(called[n]) - 1) : called[n][i] < called[n][i + 1]

\* A dealer runs only for what the process has applied: the next entry it applies
\* is later than every call so far.
CallsApplied(n) ==
    up[n] => /\ base[n] <= applied[n]
             /\ \A i \in 1 .. Len(called[n]) : called[n][i] <= applied[n]

\* The dealers of n have seen the entries up to k, in some process, or a leader's
\* snapshot has passed over them.
Covered(n, k) ==
    \A i \in 1 .. k : Invoked(log[i]) => i \in ever[n] \/ i <= sent[n]

\* A crash loses what was applied and goes back to the newest snapshot, so the
\* entries under the snapshot have to be covered too, also while the node is down.
NodeCovered(n) == Covered(n, snap[n].idx) /\ (up[n] => Covered(n, applied[n]))

\* The inductive invariant.
DealIInv ==
    /\ IInv /\ DealTypes
    /\ \A n \in Node : CallsInOrder(n) /\ CallsApplied(n) /\ NodeCovered(n)

-----------------------------------------------------------------------------
(* The steps. *)

\* A step of the composed system is a step of the store.
LEMMA DealStepIsStoreStep == [DealNext]_<<vars, dealVars>> => [Next]_vars
BY DEF DealNext, DealApply, DealInstall, DealRestart, OtherStep, Next, NodeStep

\* The other steps apply nothing and start no process; a snapshot that they put in
\* place is the one that was being written.
LEMMA OtherStepShape ==
    ASSUME DealIInv, OtherStep, NEW q \in Node
    PROVE  /\ up'[q] => up[q] /\ applied'[q] = applied[q]
           /\ snap'[q] = snap[q] \/ (up[q] /\ snap'[q] = pending[q])
           /\ \A i \in 1 .. Len(log) : log'[i] = log[i]
<1> USE DEF DealIInv, IInv
<1>0. /\ up \in [Node -> BOOLEAN] /\ applied \in [Node -> Nat]
      /\ snap \in [Node -> Image] /\ log \in Seq(Command)
  BY DEF TypeOK
<1>1. ASSUME NEW c \in Goroutine, ClientStep(c) \/ CallStep(c)
      PROVE  UNCHANGED <<up, applied, snap>> /\ \A i \in 1 .. Len(log) : log'[i] = log[i]
  <2>1. CASE RaftApply(c)
    <3>1. call[c].cmd \in Command
      BY <2>1 DEF RaftApply, TypeOK, Call, Idle
    <3> QED
      BY <1>0, <2>1, <3>1 DEF RaftApply, fsmVars
  <2>2. CASE ~RaftApply(c)
    BY <1>1, <2>2 DEF ClientStep, CallStep, Set, Delete, Submit, RaftApplyFails,
                      Return, ReturnLost, raftVars, fsmVars
  <2> QED
    BY <2>1, <2>2
<1>2. ASSUME NEW n \in Node, Replicate(n) \/ Snapshot(n) \/ PersistFails(n) \/ Elect(n)
      PROVE  UNCHANGED <<up, applied, snap, log>>
  BY <1>2 DEF Replicate, Snapshot, PersistFails, Elect, raftVars, fsmVars
<1>3. ASSUME NEW n \in Node, Persist(n)
      PROVE  /\ UNCHANGED <<up, applied, log>>
             /\ snap'[q] = snap[q] \/ (up[q] /\ snap'[q] = pending[q])
  BY <1>0, <1>3 DEF Persist, PersistedImage, raftVars, fsmVars
<1>4. ASSUME NEW n \in Node, Crash(n)
      PROVE  /\ UNCHANGED <<snap, log>>
             /\ up'[q] => up[q] /\ applied'[q] = applied[q]
  BY <1>0, <1>4 DEF Crash, Restore
<1>5. ASSUME NEW n \in Node, JoinLeader(n) \/ JoinFails(n) \/ JoinAnswered(n)
      PROVE  UNCHANGED <<up, applied, snap, log>>
  BY <1>5 DEF JoinLeader, JoinFails, JoinAnswered, raftVars
<1>6. CASE StepDown \/ Tick
  BY <1>6 DEF StepDown, Tick, raftVars, fsmVars
<1> QED
  BY <1>1, <1>2, <1>3, <1>4, <1>5, <1>6 DEF OtherStep, Goroutine

\* A dealer that runs does so for the entry after all it has run for.
LEMMA ApplyKeepsDealing ==
    ASSUME DealIInv, NEW n \in Node, DealApply(n)
    PROVE  /\ DealTypes'
           /\ \A q \in Node : (CallsInOrder(q) /\ CallsApplied(q) /\ NodeCovered(q))'
<1> DEFINE i == applied[n] + 1
           runs == Invoked(log[i])
<1>0. /\ up \in [Node -> BOOLEAN] /\ applied \in [Node -> Nat] /\ i \in Nat
      /\ snap[n].idx \in Nat
  BY ImagesOfNode DEF DealIInv, IInv, TypeOK
<1>1. /\ up[n] /\ UNCHANGED <<log, up, snap, base, sent>>
      /\ applied' = [applied EXCEPT ![n] = i]
      /\ called' = [called EXCEPT ![n] = IF runs THEN Append(@, i) ELSE @]
      /\ ever' = [ever EXCEPT ![n] = IF runs THEN @ \cup {i} ELSE @]
  BY DEF DealApply, FsmApply, raftVars
<1>2. DealTypes /\ called[n] \in Seq(Nat)
  BY DEF DealIInv, DealTypes
<1>3. DealTypes'
  <2>1. called' \in [Node -> Seq(Nat)]
    BY <1>0, <1>1, <1>2 DEF DealTypes
  <2>2. ever' \in [Node -> SUBSET Nat]
    BY <1>0, <1>1, <1>2 DEF DealTypes
  <2> QED
    BY <1>1, <1>2, <2>1, <2>2 DEF DealTypes
<1>4. /\ applied'[n] = i
      /\ called'[n] = IF runs THEN Append(called[n], i) ELSE called[n]
      /\ ever'[n] = IF runs THEN ever[n] \cup {i} ELSE ever[n]
      /\ \A q \in Node \ {n} : /\ applied'[q] = applied[q] /\ called'[q] = called[q]
                               /\ ever'[q] = ever[q]
  BY <1>0, <1>1, <1>2 DEF DealTypes
<1>5. \A j \in 1 .. Len(called[n]) : called[n][j] \in Nat /\ called[n][j] < i
  BY <1>0, <1>1, <1>2 DEF DealIInv, CallsApplied
<1>6. base[n] \in Nat /\ base[n] < i
  BY <1>0, <1>1, <1>2 DEF DealIInv, CallsApplied, DealTypes
<1>7. CallsInOrder(n)' /\ CallsApplied(n)'
  <2>0. CallsInOrder(n)
    BY DEF DealIInv
  <2>1. CASE runs
    <3>1. /\ Len(called'[n]) = Len(called[n]) + 1 /\ Len(called[n]) \in Nat
          /\ called'[n][Len(called[n]) + 1] = i
          /\ \A j \in 1 .. Len(called[n]) : called'[n][j] = called[n][j]
      BY <1>0, <1>2, <1>4, <2>1
    <3>2. ASSUME NEW j \in 1 .. Len(called'[n])
          PROVE  base[n] < called'[n][j] /\ called'[n][j] <= i
      <4>1. CASE j = Len(called[n]) + 1
        BY <1>0, <1>6, <3>1, <4>1
      <4>2. CASE j # Len(called[n]) + 1
        <5>1. j \in 1 .. Len(called[n])
          BY <3>1, <4>2
        <5>2. base[n] < called[n][j] /\ called[n][j] \in Nat /\ called[n][j] < i
          BY <1>5, <2>0, <5>1 DEF CallsInOrder
        <5>3. called'[n][j] = called[n][j]
          BY <3>1, <5>1
        <5> QED
          BY <1>0, <5>2, <5>3
      <4> QED
        BY <4>1, <4>2
    <3>3. ASSUME NEW j \in 1 .. (Len(called'[n]) - 1)
          PROVE  called'[n][j] < called'[n][j + 1]
      <4>1. CASE j = Len(called[n])
        BY <1>5, <3>1, <4>1
      <4>2. CASE j # Len(called[n])
        <5>1. j \in 1 .. (Len(called[n]) - 1) /\ j + 1 \in 1 .. Len(called[n])
          BY <3>1, <4>2
        <5> QED
          BY <2>0, <3>1, <5>1 DEF CallsInOrder
      <4> QED
        BY <4>1, <4>2
    <3>4. base'[n] = base[n] /\ base[n] <= i /\ applied'[n] = i
      BY <1>0, <1>1, <1>4, <1>6
    <3>5. CallsInOrder(n)'
      BY <3>2, <3>3, <3>4 DEF CallsInOrder
    <3>6. CallsApplied(n)'
      BY <3>2, <3>4 DEF CallsApplied
    <3> QED
      BY <3>5, <3>6
  <2>2. CASE ~runs
    BY <1>0, <1>1, <1>4, <1>5, <1>6, <2>0, <2>2 DEF CallsInOrder, CallsApplied
  <2> QED
    BY <2>1, <2>2
<1>8. NodeCovered(n)'
  <2>1. Covered(n, applied[n]) /\ Covered(n, snap[n].idx)
    BY <1>1 DEF DealIInv, NodeCovered
  <2>2. Covered(n, snap[n].idx)'
    BY <1>1, <1>4, <2>1 DEF Covered, Invoked, TakenFirst
  <2>3. ASSUME NEW j \in 1 .. i, Invoked(log[j]) PROVE j \in ever'[n] \/ j <= sent[n]
    <3>1. CASE j = i
      BY <1>4, <2>3, <3>1
    <3>2. CASE j # i
      <4>1. j \in 1 .. applied[n]
        BY <1>0, <3>2
      <4> QED
        BY <1>4, <2>1, <2>3, <4>1 DEF Covered
    <3> QED
      BY <3>1, <3>2
  <2> QED
    BY <1>1, <1>4, <2>2, <2>3 DEF NodeCovered, Covered, Invoked, TakenFirst
<1>9. ASSUME NEW q \in Node, q # n
      PROVE  (CallsInOrder(q) /\ CallsApplied(q) /\ NodeCovered(q))'
  <2>1. CallsInOrder(q) /\ CallsApplied(q) /\ NodeCovered(q)
    BY DEF DealIInv
  <2>2. UNCHANGED <<called[q], base[q], ever[q], sent[q], up[q], applied[q],
                    snap[q], log>>
    BY <1>1, <1>4, <1>9
  <2> QED
    BY <2>1, <2>2 DEF CallsInOrder, CallsApplied, NodeCovered, Covered, Invoked, TakenFirst
<1> QED
  BY <1>3, <1>7, <1>8, <1>9

\* A snapshot from a leader is ahead of what the node has stored; the dealers do
\* not see what it covers.
LEMMA InstallKeepsDealing ==
    ASSUME DealIInv, NEW n \in Node, DealInstall(n)
    PROVE  /\ DealTypes'
           /\ \A q \in Node : (CallsInOrder(q) /\ CallsApplied(q) /\ NodeCovered(q))'
<1> DEFINE k == snap[leader].idx
<1>0. leader \in Node /\ applied \in [Node -> Nat] /\ snap \in [Node -> Image]
  BY NoneAssumption DEF DealInstall, InstallSnapshot, DealIInv, IInv, TypeOK
<1>1. /\ up[n] /\ UNCHANGED <<log, up, called, base, ever>>
      /\ applied' = [applied EXCEPT ![n] = k]
      /\ snap' = [snap EXCEPT ![n] = snap[leader]]
      /\ sent' = [sent EXCEPT ![n] = k] /\ stored[n] < k
  BY DEF DealInstall, InstallSnapshot, Restore
<1>2. k \in Nat /\ applied[n] \in Nat /\ stored[n] \in Nat /\ applied[n] <= stored[n]
  BY <1>0, ImagesOfNode DEF DealIInv
<1>3. DealTypes
  BY DEF DealIInv
<1>4. /\ applied'[n] = k /\ snap'[n].idx = k /\ sent'[n] = k
      /\ \A q \in Node \ {n} : /\ applied'[q] = applied[q] /\ snap'[q] = snap[q]
                               /\ sent'[q] = sent[q]
  BY <1>0, <1>1, <1>3 DEF DealTypes
<1> HIDE DEF k
<1>5. DealTypes'
  BY <1>1, <1>2, <1>3 DEF DealTypes
<1>6. CallsInOrder(n)' /\ CallsApplied(n)'
  <2>1. CallsInOrder(n) /\ CallsApplied(n) /\ called[n] \in Seq(Nat) /\ base[n] \in Nat
    BY <1>3 DEF DealIInv, DealTypes
  <2>2. \A i \in 1 .. Len(called[n]) : called[n][i] \in Nat
    BY <2>1
  <2> QED
    BY <1>1, <1>2, <1>4, <2>1, <2>2 DEF CallsInOrder, CallsApplied
<1>7. NodeCovered(n)'
  <2>1. \A i \in 1 .. k : i <= sent'[n]
    BY <1>2, <1>4
  <2> QED
    BY <1>4, <2>1 DEF NodeCovered, Covered
<1>8. ASSUME NEW q \in Node, q # n
      PROVE  (CallsInOrder(q) /\ CallsApplied(q) /\ NodeCovered(q))'
  <2>1. CallsInOrder(q) /\ CallsApplied(q) /\ NodeCovered(q)
    BY DEF DealIInv
  <2>2. UNCHANGED <<called[q], base[q], ever[q], sent[q], up[q], applied[q],
                    snap[q], log>>
    BY <1>1, <1>4, <1>8
  <2> QED
    BY <2>1, <2>2 DEF CallsInOrder, CallsApplied, NodeCovered, Covered, Invoked, TakenFirst
<1> QED
  BY <1>5, <1>6, <1>7, <1>8

\* A new process starts from the newest snapshot, under which nothing is missing.
LEMMA RestartKeepsDealing ==
    ASSUME DealIInv, NEW n \in Node, DealRestart(n)
    PROVE  /\ DealTypes'
           /\ \A q \in Node : (CallsInOrder(q) /\ CallsApplied(q) /\ NodeCovered(q))'
<1> DEFINE k == snap[n].idx
<1>0. /\ up \in [Node -> BOOLEAN] /\ applied \in [Node -> Nat] /\ k \in Nat
  BY ImagesOfNode DEF DealIInv, IInv, TypeOK
<1>1. /\ UNCHANGED <<log, snap, ever, sent>>
      /\ up' = [up EXCEPT ![n] = TRUE]
      /\ applied' = [applied EXCEPT ![n] = k]
      /\ called' = [called EXCEPT ![n] = <<>>]
      /\ base' = [base EXCEPT ![n] = k]
  BY DEF DealRestart, Restart, Restore, raftVars
<1>2. DealTypes
  BY DEF DealIInv
<1>3. /\ applied'[n] = k /\ called'[n] = <<>> /\ base'[n] = k
      /\ \A q \in Node \ {n} : /\ applied'[q] = applied[q] /\ called'[q] = called[q]
                               /\ base'[q] = base[q] /\ up'[q] = up[q]
  BY <1>0, <1>1, <1>2 DEF DealTypes
<1>4. DealTypes'
  <2>1. <<>> \in Seq(Nat)
    OBVIOUS
  <2> QED
    BY <1>0, <1>1, <1>2, <2>1 DEF DealTypes
<1>5. CallsInOrder(n)' /\ CallsApplied(n)'
  BY <1>0, <1>3 DEF CallsInOrder, CallsApplied
<1>6. NodeCovered(n)'
  <2>1. Covered(n, k)
    BY DEF DealIInv, NodeCovered
  <2>2. Covered(n, k)'
    BY <1>1, <2>1 DEF Covered, Invoked, TakenFirst
  <2> QED
    BY <1>1, <1>3, <2>2 DEF NodeCovered, Covered
<1>7. ASSUME NEW q \in Node, q # n
      PROVE  (CallsInOrder(q) /\ CallsApplied(q) /\ NodeCovered(q))'
  <2>1. CallsInOrder(q) /\ CallsApplied(q) /\ NodeCovered(q)
    BY DEF DealIInv
  <2>2. UNCHANGED <<called[q], base[q], ever[q], sent[q], up[q], applied[q],
                    snap[q], log>>
    BY <1>1, <1>3, <1>7
  <2> QED
    BY <2>1, <2>2 DEF CallsInOrder, CallsApplied, NodeCovered, Covered, Invoked, TakenFirst
<1> QED
  BY <1>4, <1>5, <1>6, <1>7

\* The other steps leave the calls alone; a snapshot in place is never ahead of
\* what was applied.
LEMMA OtherKeepsDealing ==
    ASSUME DealIInv, OtherStep
    PROVE  /\ DealTypes'
           /\ \A q \in Node : (CallsInOrder(q) /\ CallsApplied(q) /\ NodeCovered(q))'
<1>1. UNCHANGED <<called, base, ever, sent>>
  BY DEF OtherStep, dealVars
<1>2. DealTypes'
  BY <1>1 DEF DealIInv, DealTypes
<1>3. ASSUME NEW q \in Node
      PROVE  (CallsInOrder(q) /\ CallsApplied(q) /\ NodeCovered(q))'
  <2>1. CallsInOrder(q) /\ CallsApplied(q) /\ NodeCovered(q)
    BY DEF DealIInv
  <2>2. /\ up'[q] => up[q] /\ applied'[q] = applied[q]
        /\ snap'[q] = snap[q] \/ (up[q] /\ snap'[q] = pending[q])
        /\ \A i \in 1 .. Len(log) : log'[i] = log[i]
    BY OtherStepShape
  <2>3. /\ applied[q] \in Nat /\ snap[q].idx \in Nat /\ pending[q].idx \in Nat
        /\ applied[q] <= Len(log) /\ snap[q].idx <= Len(log) /\ Len(log) \in Nat
        /\ up[q] => pending[q].idx <= applied[q]
    BY ImagesOfNode DEF DealIInv, ImageOK
  <2>4. ASSUME NEW k \in Nat, k <= Len(log), Covered(q, k)
        PROVE  \A i \in 1 .. k : Invoked(log'[i]) => i \in ever'[q] \/ i <= sent'[q]
    <3>1. \A i \in 1 .. k : i \in 1 .. Len(log)
      BY <2>3, <2>4
    <3> QED
      BY <1>1, <2>2, <2>4, <3>1 DEF Covered
  <2>5. CallsInOrder(q)' /\ CallsApplied(q)'
    BY <1>1, <2>1, <2>2 DEF CallsInOrder, CallsApplied
  <2>6. up'[q] => Covered(q, applied[q])'
    BY <2>1, <2>2, <2>3, <2>4 DEF NodeCovered, Covered, Invoked, TakenFirst
  <2>7. Covered(q, snap[q].idx)'
    <3>1. CASE snap'[q] = snap[q]
      BY <2>1, <2>3, <2>4, <3>1 DEF NodeCovered, Covered, Invoked, TakenFirst
    <3>2. CASE up[q] /\ snap'[q] = pending[q]
      <4>1. Covered(q, pending[q].idx) /\ pending[q].idx <= Len(log)
        <5>1. pending[q].idx <= applied[q] /\ Covered(q, applied[q])
          BY <2>1, <2>3, <3>2 DEF NodeCovered
        <5>2. \A i \in 1 .. pending[q].idx : i \in 1 .. applied[q]
          BY <2>3, <5>1
        <5> QED
          BY <2>3, <5>1, <5>2 DEF Covered
      <4> QED
        BY <2>3, <2>4, <3>2, <4>1 DEF Covered, Invoked, TakenFirst
    <3> QED
      BY <2>2, <3>1, <3>2
  <2> QED
    BY <2>5, <2>6, <2>7 DEF NodeCovered
<1> QED
  BY <1>2, <1>3

-----------------------------------------------------------------------------
(* The theorems. *)

\* No dealer has run in the beginning.
LEMMA DealInitInvariant == DealInit => DealIInv
<1> SUFFICES ASSUME DealInit PROVE DealIInv
  OBVIOUS
<1>1. IInv
  BY InitInvariant DEF DealInit
<1>2. DealTypes
  <2>1. <<>> \in Seq(Nat)
    OBVIOUS
  <2> QED
    BY <2>1 DEF DealInit, DealTypes
<1>3. ASSUME NEW n \in Node PROVE CallsInOrder(n) /\ CallsApplied(n) /\ NodeCovered(n)
  <2>1. called[n] = <<>> /\ base[n] = 0 /\ applied[n] = 0 /\ snap[n].idx = 0
    BY DEF DealInit, Init, NoImage
  <2> QED
    BY <2>1 DEF CallsInOrder, CallsApplied, NodeCovered, Covered
<1> QED
  BY <1>1, <1>2, <1>3 DEF DealIInv

\* Every step keeps the invariant.
LEMMA DealNextInvariant == DealIInv /\ [DealNext]_<<vars, dealVars>> => DealIInv'
<1> SUFFICES ASSUME DealIInv, [DealNext]_<<vars, dealVars>> PROVE DealIInv'
  OBVIOUS
<1>1. IInv'
  BY DealStepIsStoreStep, NextInvariant DEF DealIInv
<1>2. CASE \E n \in Node : DealApply(n) \/ DealInstall(n) \/ DealRestart(n)
  BY <1>1, <1>2, ApplyKeepsDealing, InstallKeepsDealing, RestartKeepsDealing
     DEF DealIInv
<1>3. CASE OtherStep
  BY <1>1, <1>3, OtherKeepsDealing DEF DealIInv
<1>4. CASE UNCHANGED <<vars, dealVars>>
  <2>1. UNCHANGED <<log, up, snap, applied, called, base, ever, sent>>
    BY <1>4 DEF vars, dealVars
  <2> QED
    BY <1>1, <2>1 DEF DealIInv, DealTypes, CallsInOrder, CallsApplied, NodeCovered,
                      Covered, Invoked, TakenFirst
<1> QED
  BY <1>2, <1>3, <1>4 DEF DealNext

\* The invariant holds throughout.
LEMMA DealInvariance == DealSpec => []DealIInv
BY DealInitInvariant, DealNextInvariant, PTL DEF DealSpec

\* Within one process no dealer runs twice for an entry, out of the order of the
\* log, or for an entry that the snapshot the process started from covers.
THEOREM DealersRunInOrder == DealSpec => []DealtInOrder
<1>1. ASSUME DealIInv PROVE DealtInOrder
  <2> SUFFICES ASSUME NEW n \in Node,
                      NEW i \in 1 .. (Len(<<base[n]>> \o called[n]) - 1)
               PROVE  (<<base[n]>> \o called[n])[i] < (<<base[n]>> \o called[n])[i + 1]
    BY DEF DealtInOrder
  <2> DEFINE s == <<base[n]>> \o called[n]
  <2>1. base[n] \in Nat /\ called[n] \in Seq(Nat) /\ CallsInOrder(n)
    BY <1>1 DEF DealIInv, DealTypes
  <2>2. /\ Len(s) = Len(called[n]) + 1 /\ Len(called[n]) \in Nat /\ s[1] = base[n]
        /\ \A j \in 1 .. Len(called[n]) : s[j + 1] = called[n][j]
    BY <2>1
  <2> HIDE DEF s
  <2>3. CASE i = 1
    BY <2>1, <2>2, <2>3 DEF CallsInOrder, s
  <2>4. CASE i # 1
    <3>1. i - 1 \in 1 .. (Len(called[n]) - 1) /\ i \in 1 .. Len(called[n])
      BY <2>2, <2>4 DEF s
    <3>2. s[(i - 1) + 1] = called[n][i - 1] /\ s[i + 1] = called[n][i]
      BY <2>2, <3>1
    <3>3. called[n][i - 1] < called[n][(i - 1) + 1]
      BY <2>1, <3>1 DEF CallsInOrder
    <3>4. (i - 1) + 1 = i
      BY <3>1
    <3> QED
      BY <3>2, <3>3, <3>4 DEF s
  <2> QED
    BY <2>3, <2>4
<1> QED
  BY <1>1, DealInvariance, PTL

\* Of the entries for a dealer (decodable, and left alone by the interceptor) that
\* a running node has applied, its dealers have seen, in this process or in one
\* before it, all but those that a leader's snapshot covered.
THEOREM DealersMissOnlySent == DealSpec => []DealtOrSent
<1>1. ASSUME DealIInv PROVE DealtOrSent
  BY <1>1 DEF DealIInv, NodeCovered, Covered, DealtOrSent
<1> QED
  BY <1>1, DealInvariance, PTL

=============================================================================
