------------------------- MODULE LeaderSignalProofs -------------------------
(***************************************************************************)
(* Proofs about LeaderSignal, for every number of changes of leadership:   *)
(* the types, the order of the signals, when the program acts on a stale   *)
(* one, and how many tickers can run at once.                              *)
(***************************************************************************)
EXTENDS LeaderSignal, FiniteSetTheorems, SequenceTheorems, TLAPS

\* Where the signals on the way are, from old to new: what leaderChanging has
\* received, what waits in the channel, what the listener holds.
OnTheWay ==
    /\ listener = "send" <=> held # 0
    /\ seen <= changes /\ held <= changes
    /\ buf # <<>> => seen < buf[1] /\ buf[1] <= changes
    /\ held # 0 => seen < held /\ (buf # <<>> => buf[1] < held)

\* No signal disappears without being counted as lost: it was received, or an
\* older one than the last that was received, or it is on the way.
Accounted ==
    \A s \in 1 .. changes :
        s \in lost \/ s <= seen \/ s = held \/ (buf # <<>> /\ s = buf[1])

\* The goroutines are started one after the other, at most one for each gain that
\* was received, so that StartAsync always finds a new one.
StartedInOrder ==
    \E k \in Nat : 2 * k <= seen + 1
                   /\ \A w \in Worker : ticker[w] = "new" <=> k < w

\* The goroutines that were started, and the losses that were thrown away before
\* the signal that was received last.
Started == {w \in Worker : ticker[w] # "new"}
LostBefore == {s \in lost : ~Gain(s) /\ s <= seen}

\* A goroutine is started only after the loss that ended the gain before was either
\* received, which closes the channel and the second time is the end, or thrown away.
StartsCounted ==
    Cardinality(Started) <= (IF Gain(seen) THEN 1 ELSE 0) + (IF closed THEN 1 ELSE 0)
                            + (IF panicked THEN 1 ELSE 0) + Cardinality(LostBefore)

\* A process that panicked did so on a loss, with the channel closed.
PanicOnLoss == panicked => closed /\ ~Gain(seen)

\* The inductive invariant.
SignalInv ==
    /\ TypeOK /\ OnTheWay /\ Accounted /\ StartedInOrder
    /\ StartsCounted /\ PanicOnLoss

-----------------------------------------------------------------------------
(* Arithmetic and finite sets. *)

\* Gains are odd, losses are even.
LEMMA Parity ==
    ASSUME NEW s \in Nat
    PROVE  Gain(s) <=> ~Gain(s + 1)
BY DEF Gain

\* A gain after the k-th: twice k is even and the gain is odd.
LEMMA RoomForGain ==
    ASSUME NEW k \in Nat, NEW s \in Nat, 2 * k <= s, Gain(s)
    PROVE  2 * (k + 1) <= s + 1
BY DEF Gain

\* There is a goroutine left for every gain up to MaxChange.
LEMMA WorkerForGain ==
    ASSUME NEW k \in Nat, NEW s \in Nat, s <= MaxChange, 2 * (k + 1) <= s + 1
    PROVE  k + 1 \in Worker
BY ChangeAssumption DEF Worker

\* The sets of signals and of goroutines are finite.
LEMMA FiniteSignals ==
    ASSUME NEW S, S \subseteq Signal
    PROVE  IsFiniteSet(S) /\ Cardinality(S) \in Nat
<1>1. IsFiniteSet(Signal)
  BY ChangeAssumption, FS_Interval DEF Signal
<1> QED
  BY <1>1, FS_Subset, FS_CardinalityType

\* The goroutines are finitely many.
LEMMA FiniteWorkers ==
    ASSUME NEW S, S \subseteq Worker
    PROVE  IsFiniteSet(S) /\ Cardinality(S) \in Nat
<1>1. (MaxChange + 1) \div 2 \in Int
  BY ChangeAssumption
<1>2. IsFiniteSet(Worker)
  BY <1>1, FS_Interval DEF Worker
<1> QED
  BY <1>2, FS_Subset, FS_CardinalityType

\* The channel is empty or holds one signal.
LEMMA BufCases ==
    ASSUME TypeOK
    PROVE  \/ buf = <<>>
           \/ /\ buf # <<>> /\ buf[1] \in Signal /\ buf = <<buf[1]>>
              /\ Head(buf) = buf[1] /\ Tail(buf) = <<>>
<1>1. buf \in Seq(Signal) /\ Len(buf) \in Nat /\ Len(buf) <= 1
  BY DEF TypeOK
<1> SUFFICES ASSUME buf # <<>>
             PROVE  /\ buf[1] \in Signal /\ buf = <<buf[1]>>
                    /\ Head(buf) = buf[1] /\ Tail(buf) = <<>>
  OBVIOUS
<1>2. Len(buf) = 1
  <2>1. Len(buf) \in Nat \ {0}
    BY <1>1, EmptySeq
  <2>2. \A k \in Nat \ {0} : k <= 1 => k = 1
    OBVIOUS
  <2> QED
    BY <1>1, <2>1, <2>2, Zenon
<1>3. buf[1] \in Signal /\ buf = <<buf[1]>>
  BY <1>1, <1>2
<1>4. Head(buf) = buf[1]
  BY <1>1
<1>5. Tail(buf) \in Seq(Signal) /\ Len(Tail(buf)) = 0
  BY <1>1, <1>2
<1>6. Tail(buf) = <<>>
  BY <1>5, EmptySeq
<1> QED
  BY <1>3, <1>4, <1>6

\* A step that changes only the phase of goroutines already started, the ticks or
\* the listener's log line.
LEMMA TickerStep ==
    ASSUME SignalInv, TypeOK', UNCHANGED <<changes, held, buf, seen, lost, closed, panicked>>,
           listener' = "send" <=> listener = "send",
           \A w \in Worker : ticker'[w] = "new" <=> ticker[w] = "new"
    PROVE  SignalInv'
<1>1. Started' = Started /\ LostBefore' = LostBefore
  BY DEF Started, LostBefore, Gain
<1>2. OnTheWay' /\ Accounted' /\ PanicOnLoss'
  BY DEF SignalInv, OnTheWay, Accounted, PanicOnLoss, Gain
<1>3. StartedInOrder'
  BY DEF SignalInv, StartedInOrder
<1>4. StartsCounted'
  BY <1>1 DEF SignalInv, StartsCounted, Gain
<1> QED
  BY <1>2, <1>3, <1>4 DEF SignalInv

-----------------------------------------------------------------------------
(* The steps. *)

\* The listener and the channel: what the sender drops is counted.
LEMMA ChangeStep ==
    ASSUME SignalInv, ChangeLeadership
    PROVE  SignalInv'
<1>0. /\ changes \in Nat /\ seen \in Nat /\ held \in Nat /\ changes < MaxChange
      /\ MaxChange \in Nat /\ lost \subseteq Signal
  BY ChangeAssumption DEF SignalInv, TypeOK, ChangeLeadership
<1>1. /\ changes' = changes + 1 /\ UNCHANGED <<buf, seen, closed, panicked, ticker, ticks>>
      /\ \/ /\ listener = "recv" /\ held' = changes + 1 /\ listener' = "send"
            /\ lost' = lost
         \/ /\ listener # "recv" /\ held' = held /\ listener' = listener
            /\ lost' = lost \cup {changes + 1}
  BY DEF ChangeLeadership
<1>2. changes + 1 \in Signal
  BY <1>0 DEF Signal
<1>3. TypeOK'
  <2>1. changes' \in 0 .. MaxChange /\ held' \in 0 .. MaxChange
    BY <1>0, <1>1 DEF SignalInv, TypeOK
  <2>2. lost' \subseteq Signal /\ listener' \in {"off", "recv", "send", "print"}
    BY <1>0, <1>1, <1>2 DEF SignalInv, TypeOK
  <2> QED
    BY <1>1, <2>1, <2>2 DEF SignalInv, TypeOK
<1>4. \/ buf = <<>>
      \/ buf # <<>> /\ buf[1] \in Nat
  BY BufCases DEF SignalInv, Signal
<1>5. OnTheWay'
  BY <1>0, <1>1, <1>4 DEF SignalInv, OnTheWay
<1>6. Accounted'
  <2> SUFFICES ASSUME NEW s \in 1 .. (changes + 1)
               PROVE  s \in lost' \/ s <= seen \/ s = held' \/ (buf # <<>> /\ s = buf[1])
    BY <1>1 DEF Accounted
  <2>1. CASE s = changes + 1
    BY <1>1, <2>1
  <2>2. CASE s # changes + 1
    <3>1. s \in 1 .. changes
      BY <1>0, <2>2
    <3>2. s \in lost \/ s <= seen \/ s = held \/ (buf # <<>> /\ s = buf[1])
      BY <3>1 DEF SignalInv, Accounted
    <3>3. listener = "recv" => held = 0
      BY DEF SignalInv, OnTheWay
    <3> QED
      BY <1>1, <3>1, <3>2, <3>3
  <2> QED
    BY <2>1, <2>2
<1>7. StartedInOrder' /\ PanicOnLoss'
  BY <1>1 DEF SignalInv, StartedInOrder, PanicOnLoss, Gain
<1>8. Started' = Started /\ LostBefore' = LostBefore
  <2>1. ~(changes + 1 <= seen)
    BY <1>0 DEF SignalInv, OnTheWay
  <2> QED
    BY <1>1, <2>1 DEF Started, LostBefore, Gain
<1>9. StartsCounted'
  BY <1>1, <1>8 DEF SignalInv, StartsCounted, Gain
<1> QED
  BY <1>3, <1>5, <1>6, <1>7, <1>9 DEF SignalInv

\* The listener hands the signal on or drops it.
LEMMA SendStep ==
    ASSUME SignalInv, Send
    PROVE  SignalInv'
<1>0. /\ changes \in Nat /\ seen \in Nat /\ held \in Signal
      /\ MaxChange \in Nat /\ lost \subseteq Signal /\ held \in Nat
  BY ChangeAssumption DEF SignalInv, TypeOK, OnTheWay, Send, Signal
<1>1. /\ UNCHANGED <<changes, seen, closed, panicked, ticker, ticks>>
      /\ held' = 0 /\ listener' = "print"
      /\ \/ buf = <<>> /\ buf' = <<held>> /\ lost' = lost
         \/ buf # <<>> /\ buf' = buf /\ lost' = lost \cup {held}
  BY DEF Send
<1>2. seen < held /\ held # 0 /\ held <= changes
  BY <1>0 DEF SignalInv, OnTheWay, Send, TypeOK
<1>3. TypeOK'
  <2>1. <<held>> \in Seq(Signal) /\ Len(<<held>>) = 1
    BY <1>0
  <2>2. buf' = <<held>> \/ buf' = buf
    BY <1>1, Zenon
  <2>3. buf' \in Seq(Signal) /\ Len(buf') <= 1
    <3>1. buf \in Seq(Signal) /\ Len(buf) <= 1
      BY DEF SignalInv, TypeOK
    <3>2. CASE buf' = buf
      BY <3>1, <3>2, Zenon
    <3>3. CASE buf' = <<held>>
      <4>1. Len(<<held>>) <= 1
        OBVIOUS
      <4> QED
        BY <2>1, <3>3, <4>1, Zenon
    <3> QED
      BY <2>2, <3>2, <3>3
  <2>4. held' = 0 /\ (lost' = lost \/ lost' = lost \cup {held})
    BY <1>1, Zenon
  <2>5. lost' \subseteq Signal
    BY <1>0, <2>4, Zenon
  <2>6. held' \in 0 .. MaxChange
    BY <2>4, ChangeAssumption
  <2> QED
    BY <1>1, <2>3, <2>5, <2>6 DEF SignalInv, TypeOK
<1>4. CASE buf = <<>>
  <2>1. buf' # <<>> /\ buf'[1] = held /\ lost' = lost
    BY <1>1, <1>4
  <2>2. OnTheWay'
    BY <1>0, <1>1, <1>2, <2>1 DEF SignalInv, OnTheWay
  <2>3. Accounted'
    BY <1>1, <1>4, <2>1 DEF SignalInv, Accounted
  <2>4. StartedInOrder' /\ PanicOnLoss'
    BY <1>1 DEF SignalInv, StartedInOrder, PanicOnLoss, Gain
  <2>5. Started' = Started /\ LostBefore' = LostBefore
    BY <1>1, <2>1 DEF Started, LostBefore, Gain
  <2>6. StartsCounted'
    BY <1>1, <2>5 DEF SignalInv, StartsCounted, Gain
  <2> QED
    BY <1>3, <2>2, <2>3, <2>4, <2>6 DEF SignalInv
<1>5. CASE buf # <<>>
  <2>1. buf' = buf /\ lost' = lost \cup {held}
    BY <1>1, <1>5
  <2>2. OnTheWay'
    BY <1>0, <1>1, <1>2, <2>1 DEF SignalInv, OnTheWay
  <2>3. Accounted'
    BY <1>1, <2>1 DEF SignalInv, Accounted
  <2>4. StartedInOrder' /\ PanicOnLoss'
    BY <1>1 DEF SignalInv, StartedInOrder, PanicOnLoss, Gain
  <2>5. Started' = Started /\ LostBefore' = LostBefore
    <3>1. ~(held <= seen)
      BY <1>0, <1>2
    <3> QED
      BY <1>1, <2>1, <3>1 DEF Started, LostBefore, Gain
  <2>6. StartsCounted'
    BY <1>1, <2>5 DEF SignalInv, StartsCounted, Gain
  <2> QED
    BY <1>3, <2>2, <2>3, <2>4, <2>6 DEF SignalInv
<1> QED
  BY <1>4, <1>5

\* StartAsync takes the first goroutine that is new.
LEMMA StartAsyncStarts ==
    ASSUME SignalInv, buf # <<>>, Gain(buf[1]), StartAsync
    PROVE  \E k \in Nat :
              /\ 2 * (k + 1) <= buf[1] + 1 /\ k + 1 \in Worker
              /\ \A w \in Worker : ticker[w] = "new" <=> k < w
              /\ ticker' = [ticker EXCEPT ![k + 1] = "exec"]
              /\ UNCHANGED <<closed, panicked>>
<1>1. buf[1] \in Nat /\ buf[1] <= MaxChange /\ seen \in Nat /\ seen < buf[1]
  BY BufCases, ChangeAssumption DEF SignalInv, TypeOK, OnTheWay, Signal
<1>2. PICK k \in Nat : /\ 2 * k <= seen + 1
                       /\ \A w \in Worker : ticker[w] = "new" <=> k < w
  BY DEF SignalInv, StartedInOrder
<1>3. 2 * k <= buf[1]
  BY <1>1, <1>2
<1>4. 2 * (k + 1) <= buf[1] + 1
  BY <1>1, <1>3, RoomForGain
<1>5. k + 1 \in Worker
  BY <1>1, <1>4, WorkerForGain
<1> DEFINE First(w) == ticker[w] = "new" /\ \A x \in 1 .. (w - 1) : ticker[x] # "new"
<1>6. First(k + 1)
  <2>1. ASSUME NEW x \in 1 .. ((k + 1) - 1) PROVE ticker[x] # "new"
    <3>1. x \in Worker /\ ~(k < x)
      BY <1>5, ChangeAssumption DEF Worker
    <3> QED
      BY <1>2, <3>1
  <2>2. k < k + 1
    OBVIOUS
  <2> QED
    BY <1>2, <1>5, <2>1, <2>2
<1>7. ASSUME NEW w \in Worker, First(w) PROVE w = k + 1
  <2>1. k < w /\ w \in Nat
    BY <1>2, <1>7, ChangeAssumption DEF Worker
  <2>2. ~(k + 1 \in 1 .. (w - 1))
    BY <1>6, <1>7
  <2> QED
    BY <2>1, <2>2
<1>8. (CHOOSE w \in Worker : First(w)) = k + 1
  BY <1>5, <1>6, <1>7
<1>9. ticker' = [ticker EXCEPT ![k + 1] = "exec"] /\ UNCHANGED <<closed, panicked>>
  BY <1>8 DEF StartAsync
<1> QED
  BY <1>2, <1>4, <1>5, <1>9

\* leaderChanging takes the signal in the channel.
LEMMA ReceiveStep ==
    ASSUME SignalInv, Receive
    PROVE  SignalInv'
<1> DEFINE s == buf[1]
<1>0. /\ changes \in Nat /\ seen \in Nat /\ held \in Nat /\ held <= changes
      /\ MaxChange \in Nat /\ lost \subseteq Signal /\ Signal \subseteq Nat
  BY ChangeAssumption DEF SignalInv, TypeOK, OnTheWay, Signal
<1>1. /\ buf # <<>> /\ s \in Signal /\ s \in Nat /\ Head(buf) = s /\ Tail(buf) = <<>>
      /\ s <= changes /\ seen < s /\ (held # 0 => s < held) /\ s \in 0 .. MaxChange
  BY BufCases, ChangeAssumption DEF Receive, SignalInv, OnTheWay, Signal
<1>2. /\ ~panicked /\ seen' = s /\ buf' = <<>>
      /\ UNCHANGED <<changes, listener, held, lost, ticks>>
  BY <1>1 DEF Receive
<1>3. OnTheWay'
  BY <1>0, <1>1, <1>2 DEF SignalInv, OnTheWay
<1>4. ASSUME NEW x \in 1 .. changes PROVE x \in lost \/ x <= s \/ x = held
  BY <1>0, <1>1 DEF SignalInv, Accounted
<1>5. Accounted'
  BY <1>2, <1>4 DEF Accounted
<1>6. LostBefore \subseteq Signal /\ LostBefore' \subseteq Signal
  BY <1>0, <1>2 DEF LostBefore
<1>7. LostBefore \subseteq LostBefore'
  <2>1. \A x \in lost : x <= seen => x <= s
    BY <1>0, <1>1
  <2> HIDE DEF s
  <2> QED
    BY <1>2, <2>1 DEF LostBefore, Gain
<1>8. /\ IsFiniteSet(LostBefore') /\ Cardinality(LostBefore') \in Nat
      /\ Cardinality(LostBefore) \in Nat
      /\ Cardinality(LostBefore) <= Cardinality(LostBefore')
  BY <1>6, <1>7, FiniteSignals, FS_Subset
<1>9. buf' \in Seq(Signal) /\ Len(buf') <= 1
  BY <1>2
<1>10. Started \subseteq Worker /\ IsFiniteSet(Started) /\ Cardinality(Started) \in Nat
  BY FiniteWorkers DEF Started
<1> DEFINE K == Cardinality(Started)
           lb == Cardinality(LostBefore)
<1>11. K <= (IF Gain(seen) THEN 1 ELSE 0) + (IF closed THEN 1 ELSE 0) + lb
  BY <1>2, <1>8 DEF SignalInv, StartsCounted
<1>12. CASE Gain(s)
  <2>1. StartAsync
    BY <1>1, <1>12 DEF Receive
  <2>2. PICK k \in Nat :
              /\ 2 * (k + 1) <= s + 1 /\ k + 1 \in Worker
              /\ \A w \in Worker : ticker[w] = "new" <=> k < w
              /\ ticker' = [ticker EXCEPT ![k + 1] = "exec"]
              /\ UNCHANGED <<closed, panicked>>
    BY <1>1, <1>12, <2>1, StartAsyncStarts
  <2>3. ticker \in [Worker -> {"new", "exec", "select", "done"}] /\ Worker \subseteq Nat
    BY ChangeAssumption DEF SignalInv, TypeOK, Worker
  <2>4. TypeOK'
    <3>1. ticker' \in [Worker -> {"new", "exec", "select", "done"}]
      BY <2>2, <2>3
    <3> QED
      BY <1>1, <1>2, <1>9, <2>2, <3>1 DEF SignalInv, TypeOK
  <2>5. \A w \in Worker : ticker'[w] = "new" <=> k + 1 < w
    BY <2>2, <2>3
  <2>6. StartedInOrder'
    BY <1>2, <2>2, <2>5 DEF StartedInOrder
  <2>7. Started' = Started \cup {k + 1}
    BY <2>2, <2>3 DEF Started
  <2>8. Cardinality(Started') <= K + 1 /\ Cardinality(Started') \in Nat
    <3>1. Cardinality(Started') = IF k + 1 \in Started THEN K ELSE K + 1
      BY <1>10, <2>7, FS_AddElement
    <3> QED
      BY <1>10, <3>1
  <2>9. (IF Gain(seen) THEN 1 ELSE 0) + lb <= Cardinality(LostBefore')
    <3>1. CASE ~Gain(seen)
      BY <1>8, <3>1
    <3>2. CASE Gain(seen)
      <4>1. ~Gain(seen + 1)
        BY <1>0, <3>2, Parity
      <4>2. seen + 1 # s
        BY <1>12, <4>1
      <4>3. seen + 1 \in 1 .. changes /\ seen + 1 < s /\ seen + 1 # held
        BY <1>0, <1>1, <4>2
      <4>4. seen + 1 \in lost
        BY <1>0, <4>2, <4>3 DEF SignalInv, Accounted
      <4>5. seen + 1 \in LostBefore'
        BY <1>0, <1>1, <1>2, <4>1, <4>3, <4>4 DEF LostBefore, Gain
      <4>6. seen + 1 \notin LostBefore
        BY <1>0 DEF LostBefore
      <4>7. LostBefore \cup {seen + 1} \in SUBSET (LostBefore')
        BY <1>7, <4>5
      <4>8. Cardinality(LostBefore \cup {seen + 1}) = lb + 1
        BY <1>6, <4>6, FiniteSignals, FS_AddElement
      <4>9. lb + 1 <= Cardinality(LostBefore')
        BY <1>8, <4>7, <4>8, FS_Subset
      <4> QED
        BY <1>8, <3>2, <4>9
    <3> QED
      BY <3>1, <3>2
  <2>10. StartsCounted'
    <3>1. closed' = closed /\ ~panicked' /\ Gain(seen)'
      BY <1>2, <1>12, <2>2 DEF Gain
    <3> HIDE DEF K, lb
    <3>2. Cardinality(Started') <= 1 + (IF closed THEN 1 ELSE 0) + Cardinality(LostBefore')
      BY <1>8, <1>10, <1>11, <2>8, <2>9 DEF K, lb
    <3> QED
      BY <3>1, <3>2, <1>8, <2>8 DEF StartsCounted
  <2>11. PanicOnLoss'
    BY <1>2, <2>2 DEF PanicOnLoss
  <2> QED
    BY <1>3, <1>5, <2>4, <2>6, <2>10, <2>11 DEF SignalInv
<1>13. CASE ~Gain(s)
  <2>1. /\ ticker' = ticker /\ closed' = TRUE
        /\ panicked' = IF closed THEN TRUE ELSE FALSE
    BY <1>1, <1>2, <1>13 DEF Receive, StopAsync, SignalInv, TypeOK
  <2>2. TypeOK'
    BY <1>1, <1>2, <1>9, <2>1 DEF SignalInv, TypeOK
  <2>3. StartedInOrder'
    <3>1. PICK k \in Nat : /\ 2 * k <= seen + 1
                           /\ \A w \in Worker : ticker[w] = "new" <=> k < w
      BY DEF SignalInv, StartedInOrder
    <3>2. 2 * k <= s + 1
      BY <1>0, <1>1, <3>1
    <3> QED
      BY <1>2, <2>1, <3>1, <3>2 DEF StartedInOrder
  <2>4. PanicOnLoss'
    BY <1>2, <1>13, <2>1 DEF PanicOnLoss, Gain
  <2>5. Started' = Started
    BY <2>1 DEF Started
  <2>6. StartsCounted'
    <3>1. ~Gain(seen)'
      BY <1>2, <1>13 DEF Gain
    <3>2. K <= 1 + (IF closed THEN 1 ELSE 0) + Cardinality(LostBefore')
      BY <1>8, <1>10, <1>11
    <3> QED
      BY <1>8, <1>10, <2>1, <2>5, <3>1, <3>2 DEF StartsCounted
  <2> QED
    BY <1>3, <1>5, <2>2, <2>3, <2>4, <2>6 DEF SignalInv
<1> QED
  BY <1>12, <1>13

-----------------------------------------------------------------------------
(* The theorems. *)

\* Nothing has happened in the beginning.
LEMMA SignalInit == Init => SignalInv
<1> SUFFICES ASSUME Init PROVE SignalInv
  OBVIOUS
<1>1. TypeOK
  <2>1. <<>> \in Seq(Signal) /\ Len(<<>>) <= 1
    OBVIOUS
  <2>2. /\ changes \in 0 .. MaxChange /\ held \in 0 .. MaxChange
        /\ seen \in 0 .. MaxChange
    BY ChangeAssumption DEF Init
  <2>3. buf \in Seq(Signal) /\ Len(buf) <= 1
    BY <2>1, Zenon DEF Init
  <2> QED
    BY <2>2, <2>3 DEF Init, TypeOK
<1>2. OnTheWay /\ Accounted /\ PanicOnLoss
  BY DEF Init, OnTheWay, Accounted, PanicOnLoss
<1>3. StartedInOrder
  <2>1. \A w \in Worker : ticker[w] = "new" /\ 0 < w
    BY ChangeAssumption DEF Init, Worker
  <2> QED
    BY <2>1 DEF Init, StartedInOrder
<1>4. StartsCounted
  <2>1. Started = {} /\ LostBefore = {}
    BY DEF Init, Started, LostBefore
  <2> QED
    BY <2>1, FS_EmptySet DEF Init, StartsCounted, Gain
<1> QED
  BY <1>1, <1>2, <1>3, <1>4 DEF SignalInv

\* Every step keeps the invariant.
LEMMA SignalNext == SignalInv /\ [Next]_vars => SignalInv'
<1> SUFFICES ASSUME SignalInv, [Next]_vars PROVE SignalInv'
  OBVIOUS
<1>0. ticker \in [Worker -> {"new", "exec", "select", "done"}] /\ ticks \in [Worker -> Nat]
  BY DEF SignalInv, TypeOK
<1>1. CASE ChangeLeadership
  BY <1>1, ChangeStep
<1>2. CASE StartRaft \/ Printed
  <2>1. UNCHANGED <<changes, held, buf, seen, lost, closed, panicked, ticker, ticks>>
        /\ listener' = "recv" /\ listener # "send"
    BY <1>2 DEF StartRaft, Printed
  <2>2. TypeOK'
    BY <2>1 DEF SignalInv, TypeOK
  <2> QED
    BY <2>1, <2>2, TickerStep
<1>3. CASE Send
  BY <1>3, SendStep
<1>4. CASE Receive
  BY <1>4, ReceiveStep
<1>5. ASSUME NEW w \in Worker, ExecFns(w) \/ TakeTick(w) \/ TakeStop(w)
      PROVE  SignalInv'
  <2>1. /\ UNCHANGED <<changes, listener, held, buf, seen, lost, closed, panicked>>
        /\ ticker[w] \in {"exec", "select"}
        /\ \E p \in {"exec", "select", "done"} : ticker' = [ticker EXCEPT ![w] = p]
        /\ ticks' = ticks \/ ticks' = [ticks EXCEPT ![w] = @ + 1]
    BY <1>5 DEF ExecFns, TakeTick, TakeStop
  <2>2. /\ ticker' \in [Worker -> {"new", "exec", "select", "done"}]
        /\ \A x \in Worker : ticker'[x] = "new" <=> ticker[x] = "new"
    BY <1>0, <2>1
  <2>3. ticks' \in [Worker -> Nat]
    BY <1>0, <2>1
  <2>4. TypeOK'
    BY <2>1, <2>2, <2>3 DEF SignalInv, TypeOK
  <2> QED
    BY <2>1, <2>2, <2>4, TickerStep
<1>6. CASE UNCHANGED vars
  <2>1. TypeOK'
    BY <1>6 DEF SignalInv, TypeOK, vars
  <2> QED
    BY <1>6, <2>1, TickerStep DEF vars
<1> QED
  BY <1>1, <1>2, <1>3, <1>4, <1>5, <1>6 DEF Next

\* The invariant holds throughout.
LEMMA SignalInvariance == Spec => []SignalInv
BY SignalInit, SignalNext, PTL DEF Spec

\* The types; the channel holds one signal at most.
THEOREM SignalTypes == Spec => []TypeOK
<1>1. SignalInv => TypeOK
  BY DEF SignalInv
<1> QED
  BY <1>1, SignalInvariance, PTL

\* A sequence of signals from old to new, which ends before signal x.
Rising(q) == \A i \in 1 .. (Len(q) - 1) : q[i] < q[i + 1]
RisesTo(q, x) == /\ q \in Seq(Nat) /\ Len(q) \in Nat \ {0} /\ Rising(q)
                 /\ q[Len(q)] < x

\* A newer signal may follow.
LEMMA RisesOn ==
    ASSUME NEW q, NEW x \in Nat, NEW y \in Nat, RisesTo(q, x), x < y
    PROVE  RisesTo(q \o <<x>>, y)
<1>1. q \in Seq(Nat) /\ Len(q) \in Nat \ {0} /\ Rising(q) /\ q[Len(q)] < x
  BY DEF RisesTo
<1> DEFINE r == q \o <<x>>
<1>2. /\ r \in Seq(Nat) /\ Len(r) = Len(q) + 1 /\ r[Len(q) + 1] = x
      /\ \A i \in 1 .. Len(q) : r[i] = q[i]
  BY <1>1
<1> HIDE DEF r
<1>3. Rising(r)
  <2> SUFFICES ASSUME NEW i \in 1 .. (Len(r) - 1) PROVE r[i] < r[i + 1]
    BY DEF Rising
  <2>1. CASE i = Len(q)
    BY <1>1, <1>2, <2>1
  <2>2. CASE i # Len(q)
    <3>1. i \in 1 .. (Len(q) - 1) /\ i \in 1 .. Len(q) /\ i + 1 \in 1 .. Len(q)
      BY <1>1, <1>2, <2>2
    <3> QED
      BY <1>1, <1>2, <3>1 DEF Rising
  <2> QED
    BY <2>1, <2>2
<1>4. RisesTo(r, y)
  BY <1>1, <1>2, <1>3 DEF RisesTo
<1> QED
  BY <1>4 DEF r

\* What is on the way rises, whether or not the channel and the listener hold a
\* signal.
LEMMA InvInOrder == SignalInv => SignalsInOrder
<1> SUFFICES ASSUME SignalInv PROVE SignalsInOrder
  OBVIOUS
<1> DEFINE held1 == IF held = 0 THEN <<>> ELSE <<held>>
           y == changes + 1
           z == IF held = 0 THEN y ELSE held
<1>0. /\ changes \in Nat /\ seen \in Nat /\ held \in Nat /\ held <= changes
      /\ seen <= changes /\ y \in Nat /\ y + 1 \in Nat /\ y < y + 1
  BY ChangeAssumption DEF SignalInv, TypeOK, OnTheWay
<1>1. z \in Nat /\ seen < z /\ (held # 0 => z < y)
  BY <1>0 DEF SignalInv, OnTheWay
<1>2. ASSUME NEW x \in Nat, seen < x PROVE RisesTo(<<seen>>, x)
  <2>1. <<seen>> \in Seq(Nat) /\ Len(<<seen>>) = 1 /\ <<seen>>[1] = seen
    BY <1>0
  <2> QED
    BY <1>2, <2>1 DEF RisesTo, Rising
<1>3. RisesTo(<<seen>> \o buf, z)
  <2>1. CASE buf = <<>>
    <3>1. <<seen>> \o <<>> = <<seen>>
      BY <1>0, ConcatEmptySeq
    <3>2. RisesTo(<<seen>>, z)
      BY <1>1, <1>2
    <3> QED
      BY <2>1, <3>1, <3>2, Zenon
  <2>2. CASE buf # <<>>
    <3>1. /\ buf = <<buf[1]>> /\ buf[1] \in Nat /\ seen < buf[1] /\ buf[1] <= changes
          /\ (held # 0 => buf[1] < held)
      BY <2>2, BufCases DEF SignalInv, OnTheWay, Signal
    <3>2. buf[1] < z
      BY <1>0, <3>1
    <3>3. RisesTo(<<seen>> \o <<buf[1]>>, z)
      BY <1>1, <1>2, <3>1, <3>2, RisesOn
    <3> QED
      BY <3>1, <3>3, Zenon
  <2> QED
    BY <2>1, <2>2
<1> DEFINE q == <<seen>> \o buf
<1> HIDE DEF q
<1>4. RisesTo(q \o held1, y)
  <2>1. CASE held = 0
    <3>1. z = y /\ held1 = <<>> /\ RisesTo(q, y)
      BY <1>3, <2>1 DEF q
    <3>2. q \o <<>> = q
      BY <3>1, ConcatEmptySeq DEF RisesTo
    <3> QED
      BY <3>1, <3>2, Zenon
  <2>2. CASE held # 0
    <3>1. z = held /\ held1 = <<held>> /\ RisesTo(q, held) /\ held < y
      BY <1>1, <1>3, <2>2 DEF q
    <3>2. RisesTo(q \o <<held>>, y)
      BY <1>0, <3>1, RisesOn
    <3> QED
      BY <3>1, <3>2, Zenon
  <2> QED
    BY <2>1, <2>2
<1> HIDE DEF held1, z
<1>5. RisesTo((q \o held1) \o <<y>>, y + 1)
  BY <1>0, <1>4, RisesOn
<1>6. Rising((q \o held1) \o <<y>>)
  BY <1>5 DEF RisesTo
<1> QED
  BY <1>6 DEF SignalsInOrder, Rising, q, held1

\* Signals keep the order of the changes of leadership.
THEOREM SignalsKeepOrder == Spec => []SignalsInOrder
BY InvInOrder, SignalInvariance, PTL

\* With nothing on the way, the last change is received or counted as lost.
LEMMA InvStale == SignalInv => StaleOnlyIfLost
<1> SUFFICES ASSUME SignalInv, held = 0, buf = <<>>, changes \notin lost
             PROVE  seen = changes
  BY DEF StaleOnlyIfLost
<1>1. changes \in Nat /\ seen \in Nat /\ seen <= changes
  BY ChangeAssumption DEF SignalInv, TypeOK, OnTheWay
<1>2. CASE changes = 0
  BY <1>1, <1>2
<1>3. CASE changes # 0
  <2>1. changes \in 1 .. changes
    BY <1>1, <1>3
  <2>2. changes <= seen
    BY <1>3, <2>1 DEF SignalInv, Accounted
  <2> QED
    BY <1>1, <2>2
<1> QED
  BY <1>2, <1>3

\* When nothing is on the way, the program acts on the current leadership unless the
\* last change itself was thrown away, by raft's send or by the listener's.
THEOREM StaleOnlyWhenLost == Spec => []StaleOnlyIfLost
BY InvStale, SignalInvariance, PTL

\* Goroutines that run were started; losses thrown away so far include those before
\* the last signal.
LEMMA InvTickers == SignalInv => ExtraTickersNeedLostLoss
<1> SUFFICES ASSUME SignalInv PROVE ExtraTickersNeedLostLoss
  OBVIOUS
<1> DEFINE L == {w \in Worker : Live(w)}
           E == {s \in lost : ~Gain(s)}
<1>1. L \in SUBSET Started /\ Started \subseteq Worker
  BY DEF Started, Live
<1>2. E \subseteq Signal /\ LostBefore \in SUBSET E
  BY DEF LostBefore, SignalInv, TypeOK
<1>3. /\ Cardinality(L) <= Cardinality(Started) /\ Cardinality(L) \in Nat
      /\ Cardinality(Started) \in Nat
  BY <1>1, FiniteWorkers, FS_Subset, FS_CardinalityType
<1>4. /\ Cardinality(LostBefore) <= Cardinality(E) /\ Cardinality(E) \in Nat
      /\ Cardinality(LostBefore) \in Nat
  BY <1>2, FiniteSignals, FS_Subset, FS_CardinalityType
<1> HIDE DEF L, E
<1>5. Cardinality(L) <= 1 + (IF closed THEN 1 ELSE 0) + Cardinality(E)
  <2>1. CASE panicked
    <3>1. closed /\ ~Gain(seen)
      BY <2>1 DEF SignalInv, PanicOnLoss
    <3> QED
      BY <1>3, <1>4, <2>1, <3>1 DEF SignalInv, StartsCounted
  <2>2. CASE ~panicked
    BY <1>3, <1>4, <2>2 DEF SignalInv, StartsCounted
  <2> QED
    BY <2>1, <2>2
<1> QED
  BY <1>5 DEF ExtraTickersNeedLostLoss, L, E

\* A second ticker runs only while the first one is being stopped or after a loss of
\* leadership was thrown away.
THEOREM ExtraTickersBounded == Spec => []ExtraTickersNeedLostLoss
BY InvTickers, SignalInvariance, PTL

=============================================================================
