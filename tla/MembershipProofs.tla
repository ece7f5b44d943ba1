-------------------------- MODULE MembershipProofs --------------------------
(***************************************************************************)
(* Proofs about Membership and Addresses, for every set of nodes, every    *)
(* flag and every sequence of crashes, joins and removals.  That committed *)
(* entries stay committed is hashicorp/raft's promise, CommitsAgree: the   *)
(* theorems about the history take it as their hypothesis and show what    *)
(* the code above raft makes of it.  RaftSafetyProofs proves the promise.  *)
(***************************************************************************)
EXTENDS MCMembership, SequenceTheorems, TLAPS

\* What raft keeps: types and, for every node, a leader runs and has a log, all
\* configurations are valid, and a raft that has shut down does not lead.
RaftOK ==
    /\ up \in [Node -> BOOLEAN] /\ leads \in [Node -> BOOLEAN]
    /\ term \in [Node -> Nat] /\ log \in [Node -> Seq(Entry)]
    /\ commit \in [Node -> Nat] /\ chosen \in Seq(Entry)
    /\ \A n \in Node : \A i \in 1 .. Len(log[n]) : Valid(log[n][i].conf)
    /\ \A n \in Node : commit[n] <= Len(log[n])
    /\ \A n \in Node : leads[n] => up[n] /\ Len(log[n]) > 0
    /\ halted \subseteq {n \in Node : up[n] /\ ~leads[n]}

\* What the calls in progress and the joiners keep: types, and a node waits for an
\* answer exactly as long as one call, and only one, will give it one.
Waits == {"posted", "recovering"}
JoinState == {"off", "recover", "recovering", "loop", "posted", "check", "done"}
PeerFile == {NoFile, TornFile} \cup {WholeFile(c) : c \in SUBSET Node}

CallsOK ==
    /\ peers \in [Node -> PeerFile] /\ join \in [Node -> JoinState]
    /\ hnd \subseteq Handler /\ joined \in [Node -> Won]
    /\ \A n \in Node : up[n] <=> join[n] # "off"
    /\ \A n \in Node : join[n] \in Waits <=> \E h \in hnd : h.for = n /\ h.live
    /\ \A g, h \in hnd : g.live /\ h.live /\ g.for = h.for => g = h

\* What leaders have committed is the beginning of one history, entry by entry.
HistoryOK ==
    \A n \in Node : /\ commit[n] <= Len(chosen)
                    /\ \A k \in 1 .. commit[n] : log[n][k] = chosen[k]

\* The entry at index i of the history lists n.
InHistory(n, i) == i \in 1 .. Len(chosen) /\ n \in chosen[i].conf

\* How a call of Join came to add its server.  The entry it waits for is in the log
\* as long as the node leads in the term in which it took the entry; once the
\* future has been answered the entry is in the history, and what the call will
\* tell the joiner refers to that entry.
CallAdds(h) ==
    /\ h.phase = "adding" =>
          /\ h.term <= term[h.at]
          /\ leads[h.at] /\ term[h.at] = h.term =>
                h.idx \in 1 .. Len(log[h.at]) /\ h.for \in log[h.at][h.idx].conf
    /\ h.phase = "added" => InHistory(h.for, h.idx)
    /\ h.won.how = "added" => InHistory(h.for, h.won.idx)

AddedOK ==
    /\ \A h \in hnd : CallAdds(h)
    /\ \A n \in Node : joined[n].how = "added" => InHistory(n, joined[n].idx)

-----------------------------------------------------------------------------
(* Sequences and configurations. *)

\* A sequence is empty when its length is 0.
LEMMA EmptyLen ==
    ASSUME NEW S, NEW s \in Seq(S)
    PROVE  s = <<>> <=> Len(s) = 0
BY EmptySeq

\* What Append does, entry by entry.
LEMMA AppendEntry ==
    ASSUME NEW s \in Seq(Entry), NEW e \in Entry
    PROVE  /\ Append(s, e) \in Seq(Entry)
           /\ Len(Append(s, e)) = Len(s) + 1
           /\ \A i \in 1 .. Len(s) : Append(s, e)[i] = s[i]
           /\ Append(s, e)[Len(s) + 1] = e
BY AppendProperties

\* An entry of a log.
LEMMA EntryOfLog ==
    ASSUME NEW s \in Seq(Entry), NEW i \in 1 .. Len(s)
    PROVE  s[i] \in Entry /\ s[i].conf \subseteq Node /\ s[i].term \in Nat
<1>1. s[i] \in Entry
    BY ElementOfSeq
<1> QED
    BY <1>1 DEF Entry

\* The newest configuration lists nodes; that of a log with an entry is valid.
LEMMA ConfOK ==
    ASSUME RaftOK, NEW n \in Node
    PROVE  /\ Conf(n) \subseteq Node
           /\ Len(log[n]) > 0 => Conf(n) = log[n][Len(log[n])].conf /\ Valid(Conf(n))
           /\ Conf(n) # {} => Len(log[n]) > 0
<1>1. log[n] \in Seq(Entry) /\ Len(log[n]) \in Nat
    BY LenProperties DEF RaftOK
<1>2. log[n] = <<>> <=> Len(log[n]) = 0
    BY <1>1, EmptyLen
<1>3. CASE Len(log[n]) = 0
    BY <1>2, <1>3 DEF Conf
<1>4. CASE Len(log[n]) > 0
    <2>1. Conf(n) = log[n][Len(log[n])].conf
        BY <1>2, <1>4 DEF Conf, Last
    <2>2. Len(log[n]) \in 1 .. Len(log[n])
        BY <1>1, <1>4
    <2>3. log[n][Len(log[n])].conf \subseteq Node
        BY <1>1, <2>2, EntryOfLog
    <2>4. Valid(log[n][Len(log[n])].conf)
        BY <2>2 DEF RaftOK
    <2> QED
        BY <2>1, <2>3, <2>4, <1>4
<1> QED
    BY <1>1, <1>3, <1>4

-----------------------------------------------------------------------------
(* raft's part of the steps. *)

\* A leader appends an entry with a valid configuration.
LEMMA AppendStep ==
    ASSUME RaftOK, NEW l \in Node, NEW kind \in {"noop", "conf", "set"},
           NEW c \in SUBSET Node, Valid(c), leads[l], Appended(l, kind, c),
           UNCHANGED <<up, leads, term, commit, chosen, halted>>
    PROVE  RaftOK'
<1> DEFINE e == [term |-> term[l], kind |-> kind, conf |-> c]
<1>1. e \in Entry
    BY DEF RaftOK, Entry
<1>2. log[l] \in Seq(Entry)
    BY DEF RaftOK
<1>3. log' = [log EXCEPT ![l] = Append(log[l], e)]
    BY DEF Appended
<1> HIDE DEF e
<1>4. /\ Append(log[l], e) \in Seq(Entry)
      /\ Len(Append(log[l], e)) = Len(log[l]) + 1
      /\ \A i \in 1 .. Len(log[l]) : Append(log[l], e)[i] = log[l][i]
      /\ Append(log[l], e)[Len(log[l]) + 1] = e
    BY <1>1, <1>2, AppendEntry
<1>5. Len(log[l]) \in Nat
    BY <1>2, LenProperties
<1>6. log' \in [Node -> Seq(Entry)]
    BY <1>3, <1>4 DEF RaftOK
<1>7. log'[l] = Append(log[l], e) /\ \A n \in Node \ {l} : log'[n] = log[n]
    BY <1>3 DEF RaftOK
<1>8. ASSUME NEW n \in Node, NEW i \in 1 .. Len(log'[n])
      PROVE  Valid(log'[n][i].conf)
    <2>1. CASE n # l
        BY <2>1, <1>7 DEF RaftOK
    <2>2. CASE n = l /\ i \in 1 .. Len(log[l])
        BY <2>2, <1>4, <1>7 DEF RaftOK
    <2>3. CASE n = l /\ i = Len(log[l]) + 1
        BY <2>3, <1>4, <1>7 DEF e
    <2> QED
        BY <2>1, <2>2, <2>3, <1>4, <1>5, <1>7
<1>9. ASSUME NEW n \in Node
      PROVE  Len(log'[n]) >= Len(log[n]) /\ Len(log[n]) \in Nat
    <2>1. Len(log[n]) \in Nat
        BY LenProperties DEF RaftOK
    <2>2. CASE n = l
        BY <2>2, <1>4, <1>5, <1>7
    <2>3. CASE n # l
        BY <2>1, <2>3, <1>7
    <2> QED
        BY <2>1, <2>2, <2>3
<1>10. \A n \in Node : \A i \in 1 .. Len(log'[n]) : (Valid(log[n][i].conf))'
    BY <1>8 DEF Valid
<1>11. \A n \in Node : commit[n] <= Len(log'[n])
    <2> SUFFICES ASSUME NEW n \in Node PROVE commit[n] <= Len(log'[n])
        OBVIOUS
    <2>1. Len(log'[n]) \in Nat
        BY <1>6, LenProperties
    <2> QED
        BY <2>1, <1>9 DEF RaftOK
<1>12. \A n \in Node : leads[n] => Len(log'[n]) > 0
    <2> SUFFICES ASSUME NEW n \in Node, leads[n] PROVE Len(log'[n]) > 0
        OBVIOUS
    <2>1. Len(log'[n]) \in Nat
        BY <1>6, LenProperties
    <2> QED
        BY <2>1, <1>9 DEF RaftOK
<1> QED
    BY <1>6, <1>10, <1>11, <1>12 DEF RaftOK

\* Steps that raft has no part in.
LEMMA RaftIdle ==
    ASSUME RaftOK, UNCHANGED <<up, raftVars>>
    PROVE  RaftOK'
BY DEF RaftOK, raftVars, Valid

\* Validity of a configuration does not depend on the state.
LEMMA ValidStays ==
    ASSUME NEW c, Valid(c)
    PROVE  Valid(c)'
BY DEF Valid

\* The leader's log on another node.
LEMMA ReplicateStep ==
    ASSUME RaftOK, NEW l \in Node, NEW p \in Node, Replicate(l, p)
    PROVE  RaftOK'
<1>1. /\ leads' = [leads EXCEPT ![p] = FALSE] /\ term' = [term EXCEPT ![p] = term[l]]
      /\ log' = [log EXCEPT ![p] = log[l]] /\ commit' = [commit EXCEPT ![p] = 0]
      /\ UNCHANGED <<up, chosen, halted>>
    BY DEF Replicate
<1>2. log' \in [Node -> Seq(Entry)] /\ log'[p] = log[l]
      /\ \A n \in Node \ {p} : log'[n] = log[n]
    BY <1>1 DEF RaftOK
<1>3. \A n \in Node : \A i \in 1 .. Len(log'[n]) : Valid(log[n][i].conf)'
    <2> SUFFICES ASSUME NEW n \in Node, NEW i \in 1 .. Len(log'[n])
                 PROVE  Valid(log'[n][i].conf)
        BY DEF Valid
    <2>1. CASE n = p
        BY <1>2, <2>1 DEF RaftOK
    <2>2. CASE n # p
        BY <1>2, <2>2 DEF RaftOK
    <2> QED
        BY <2>1, <2>2
<1>4. ASSUME NEW n \in Node
      PROVE  commit'[n] <= Len(log'[n]) /\ (leads'[n] => up[n] /\ Len(log'[n]) > 0)
    <2>1. Len(log'[n]) \in Nat
        BY <1>2, LenProperties
    <2>2. CASE n = p
        BY <1>1, <2>1, <2>2 DEF RaftOK
    <2>3. CASE n # p
        BY <1>1, <1>2, <2>3 DEF RaftOK
    <2> QED
        BY <2>2, <2>3
<1> QED
    BY <1>1, <1>2, <1>3, <1>4 DEF RaftOK

\* The election of a leader, which appends an empty entry.
LEMMA ElectStep ==
    ASSUME RaftOK, NEW n \in Node, Elect(n)
    PROVE  RaftOK'
<1>1. PICK Q \in SUBSET Listening(Conf(n)) : \E T \in {term[q] + 1 : q \in Q} :
        /\ n \in Q /\ n \in Conf(n)
        /\ term' = [q \in Node |-> IF q \in Q THEN T ELSE term[q]]
        /\ leads' = [q \in Node |-> q = n \/ (leads[q] /\ q \notin Q)]
        /\ log' = [log EXCEPT ![n] =
                     Append(log[n], [term |-> T, kind |-> "noop", conf |-> Conf(n)])]
        /\ commit' = [q \in Node |-> IF q \in Q THEN 0 ELSE commit[q]]
        /\ UNCHANGED <<up, halted, chosen>>
    BY DEF Elect
<1>2. PICK T \in {term[q] + 1 : q \in Q} :
        /\ n \in Q /\ n \in Conf(n)
        /\ term' = [q \in Node |-> IF q \in Q THEN T ELSE term[q]]
        /\ leads' = [q \in Node |-> q = n \/ (leads[q] /\ q \notin Q)]
        /\ log' = [log EXCEPT ![n] =
                     Append(log[n], [term |-> T, kind |-> "noop", conf |-> Conf(n)])]
        /\ commit' = [q \in Node |-> IF q \in Q THEN 0 ELSE commit[q]]
        /\ UNCHANGED <<up, halted, chosen>>
    BY <1>1
<1>3. Q \subseteq Node /\ \A q \in Q : up[q] /\ q \notin halted
    BY DEF Listening
<1>4. T \in Nat
    BY <1>2, <1>3 DEF RaftOK
<1>5. Conf(n) \subseteq Node /\ Valid(Conf(n))
    BY <1>2, ConfOK
<1> DEFINE e == [term |-> T, kind |-> "noop", conf |-> Conf(n)]
<1>6. e \in Entry
    BY <1>4, <1>5 DEF Entry
<1>7. e.conf = Conf(n) /\ log' = [log EXCEPT ![n] = Append(log[n], e)]
    BY <1>2
<1> HIDE DEF e
<1>8. log[n] \in Seq(Entry) /\ Len(log[n]) \in Nat
    BY LenProperties DEF RaftOK
<1>9. /\ Append(log[n], e) \in Seq(Entry)
      /\ Len(Append(log[n], e)) = Len(log[n]) + 1
      /\ \A i \in 1 .. Len(log[n]) : Append(log[n], e)[i] = log[n][i]
      /\ Append(log[n], e)[Len(log[n]) + 1] = e
    BY <1>6, <1>8, AppendEntry
<1>10. /\ log' \in [Node -> Seq(Entry)] /\ log'[n] = Append(log[n], e)
       /\ \A p \in Node \ {n} : log'[p] = log[p]
    BY <1>7, <1>9 DEF RaftOK
<1>11. ASSUME NEW p \in Node, NEW i \in 1 .. Len(log'[p])
       PROVE  Valid(log'[p][i].conf)
    <2>1. CASE p # n
        BY <2>1, <1>10 DEF RaftOK
    <2>2. CASE p = n /\ i \in 1 .. Len(log[n])
        BY <2>2, <1>9, <1>10 DEF RaftOK
    <2>3. CASE p = n /\ i = Len(log[n]) + 1
        BY <2>3, <1>5, <1>7, <1>9, <1>10
    <2> QED
        BY <2>1, <2>2, <2>3, <1>8, <1>9, <1>10
<1>12. \A p \in Node : \A i \in 1 .. Len(log'[p]) : Valid(log[p][i].conf)'
    BY <1>11 DEF Valid
<1>13. ASSUME NEW p \in Node
       PROVE  commit'[p] <= Len(log'[p]) /\ (leads'[p] => up[p] /\ Len(log'[p]) > 0)
    <2>1. Len(log'[p]) \in Nat
        BY <1>10, LenProperties
    <2>2. CASE p = n
        <3>1. commit'[p] = 0 /\ up[p]
            BY <1>2, <1>3, <2>2
        <3>2. Len(log'[p]) = Len(log[n]) + 1
            BY <1>9, <1>10, <2>2
        <3> QED
            BY <3>1, <3>2, <1>8
    <2>3. CASE p # n
        BY <1>2, <1>10, <2>1, <2>3 DEF RaftOK
    <2> QED
        BY <2>2, <2>3
<1>14. /\ term' \in [Node -> Nat] /\ commit' \in [Node -> Nat]
       /\ leads' \in [Node -> BOOLEAN]
    BY <1>2, <1>4 DEF RaftOK
<1>15. halted' \subseteq {p \in Node : up'[p] /\ ~leads'[p]}
    BY <1>2, <1>3 DEF RaftOK
<1> QED
    BY <1>2, <1>10, <1>12, <1>13, <1>14, <1>15 DEF RaftOK

\* A commit changes no log; a leader that is no member any more shuts down.
LEMMA CommitStep ==
    ASSUME RaftOK, NEW l \in Node, Commit(l)
    PROVE  RaftOK'
<1>1. log[l] \in Seq(Entry) /\ Len(log[l]) \in Nat
    BY LenProperties DEF RaftOK
<1>2. leads[l] /\ UNCHANGED <<up, term, log>>
    BY DEF Commit, Committable
<1>3. chosen' \in Seq(Entry)
    BY <1>1 DEF Commit, RaftOK
<1>4. \/ commit' = [commit EXCEPT ![l] = Len(log[l])] /\ UNCHANGED <<leads, halted>>
      \/ /\ commit' = [commit EXCEPT ![l] = 0]
         /\ leads' = [leads EXCEPT ![l] = FALSE]
         /\ halted' = halted \cup {l}
    BY DEF Commit
<1>5. \A n \in Node : \A i \in 1 .. Len(log[n]) : Valid(log[n][i].conf)'
    BY <1>2 DEF RaftOK, Valid
<1>6. CASE commit' = [commit EXCEPT ![l] = Len(log[l])] /\ UNCHANGED <<leads, halted>>
    BY <1>1, <1>2, <1>3, <1>5, <1>6 DEF RaftOK
<1>7. CASE /\ commit' = [commit EXCEPT ![l] = 0]
           /\ leads' = [leads EXCEPT ![l] = FALSE]
           /\ halted' = halted \cup {l}
    BY <1>1, <1>2, <1>3, <1>5, <1>7 DEF RaftOK
<1> QED
    BY <1>4, <1>6, <1>7

\* A leader that gives up.
LEMMA StepDownStep ==
    ASSUME RaftOK, NEW l \in Node, StepDown(l)
    PROVE  RaftOK'
<1>1. /\ leads' = [leads EXCEPT ![l] = FALSE] /\ commit' = [commit EXCEPT ![l] = 0]
      /\ UNCHANGED <<up, term, log, chosen, halted>>
    BY DEF StepDown
<1>2. \A n \in Node : \A i \in 1 .. Len(log[n]) : Valid(log[n][i].conf)'
    BY <1>1 DEF RaftOK, Valid
<1>3. \A n \in Node : Len(log[n]) \in Nat
    BY LenProperties DEF RaftOK
<1> QED
    BY <1>1, <1>2, <1>3 DEF RaftOK

\* The end of a process, with its stores when they are in memory.
LEMMA CrashStep ==
    ASSUME RaftOK, NEW n \in Node, Crash(n)
    PROVE  RaftOK'
<1>1. /\ up' = [up EXCEPT ![n] = FALSE] /\ leads' = [leads EXCEPT ![n] = FALSE]
      /\ commit' = [commit EXCEPT ![n] = 0]
      /\ term' = [term EXCEPT ![n] = IF InMem THEN 0 ELSE term[n]]
      /\ log' = [log EXCEPT ![n] = IF InMem THEN <<>> ELSE log[n]]
      /\ halted' = halted \ {n} /\ UNCHANGED chosen
    BY DEF Crash
<1>2. <<>> \in Seq(Entry) /\ Len(<<>>) = 0
    BY EmptySeq
<1>3. log' \in [Node -> Seq(Entry)] /\ term' \in [Node -> Nat]
    BY <1>1, <1>2 DEF RaftOK
<1>4. ASSUME NEW p \in Node
      PROVE  /\ \A i \in 1 .. Len(log'[p]) : Valid(log'[p][i].conf)
             /\ commit'[p] <= Len(log'[p])
             /\ leads'[p] => up'[p] /\ Len(log'[p]) > 0
    <2>1. Len(log'[p]) \in Nat
        BY <1>3, LenProperties
    <2>2. CASE p # n
        BY <1>1, <2>2 DEF RaftOK
    <2>3. CASE p = n /\ InMem
        <3>1. log'[p] = <<>> /\ commit'[p] = 0 /\ ~leads'[p]
            BY <1>1, <2>3 DEF RaftOK
        <3>2. Len(log'[p]) = 0
            BY <3>1, <1>2
        <3> QED
            BY <3>1, <3>2
    <2>4. CASE p = n /\ ~InMem
        <3>1. log'[p] = log[p] /\ commit'[p] = 0 /\ ~leads'[p]
            BY <1>1, <2>4 DEF RaftOK
        <3> QED
            BY <3>1, <2>1 DEF RaftOK
    <2> QED
        BY <2>2, <2>3, <2>4
<1>5. \A p \in Node : \A i \in 1 .. Len(log'[p]) : Valid(log[p][i].conf)'
    BY <1>4 DEF Valid
<1> QED
    BY <1>1, <1>3, <1>4, <1>5 DEF RaftOK

\* The start of a process, which may bootstrap a cluster.
LEMMA OpenStep ==
    ASSUME RaftOK, NEW n \in Node, Open(n)
    PROVE  RaftOK'
<1> DEFINE boot == [term |-> 1, kind |-> "boot", conf |-> {n}]
<1>1. /\ ~up[n] /\ up' = [up EXCEPT ![n] = TRUE]
      /\ term' = [term EXCEPT ![n] = IF Boots(n) THEN 1 ELSE term[n]]
      /\ log' = [log EXCEPT ![n] = IF Boots(n) THEN <<boot>> ELSE log[n]]
      /\ UNCHANGED <<leads, commit, chosen, halted>>
    BY DEF Open
<1>2. boot \in Entry /\ boot.conf = {n} /\ Valid({n})
    BY DEF Entry, Valid
<1> HIDE DEF boot
<1>3. <<boot>> \in Seq(Entry) /\ Len(<<boot>>) = 1 /\ <<boot>>[1] = boot
    BY <1>2
<1>4. log' \in [Node -> Seq(Entry)] /\ term' \in [Node -> Nat]
    BY <1>1, <1>3 DEF RaftOK
<1>5. ~leads[n]
    BY <1>1 DEF RaftOK
<1>6. ASSUME NEW p \in Node
      PROVE  /\ \A i \in 1 .. Len(log'[p]) : Valid(log'[p][i].conf)
             /\ commit[p] <= Len(log'[p])
             /\ leads[p] => up'[p] /\ Len(log'[p]) > 0
    <2>1. CASE p # n
        BY <1>1, <2>1 DEF RaftOK
    <2>2. CASE p = n /\ ~Boots(n)
        BY <1>1, <1>5, <2>2 DEF RaftOK
    <2>3. CASE p = n /\ Boots(n)
        <3>1. log'[p] = <<boot>>
            BY <1>1, <2>3 DEF RaftOK
        <3>2. log[n] = <<>>
            BY <2>3 DEF Boots
        <3>3. Len(log[n]) = 0
            BY <3>2, EmptyLen DEF RaftOK
        <3>4. commit[p] <= 1
            BY <3>3, <2>3 DEF RaftOK
        <3>5. Len(log'[p]) = 1 /\ log'[p][1] = boot
            BY <3>1, <1>3
        <3> QED
            BY <1>2, <1>5, <2>3, <3>4, <3>5
    <2> QED
        BY <2>1, <2>2, <2>3
<1>7. \A p \in Node : \A i \in 1 .. Len(log'[p]) : Valid(log[p][i].conf)'
    BY <1>6 DEF Valid
<1> QED
    BY <1>1, <1>4, <1>5, <1>6, <1>7 DEF RaftOK

-----------------------------------------------------------------------------
(* The calls' part of the steps. *)

\* The answer ends the waiting, one way or the other.
LEMMA ToldOK ==
    ASSUME NEW n \in Node, NEW ok \in BOOLEAN
    PROVE  Told(n, ok) \in JoinState \ (Waits \cup {"off"})
BY DEF Told, AfterOpen, JoinState, Waits

\* A call that returns.
LEMMA AnswerStep ==
    ASSUME CallsOK, NEW h \in hnd, NEW ok \in BOOLEAN, Answer(h, ok),
           UNCHANGED up, peers' \in [Node -> PeerFile]
    PROVE  CallsOK'
<1>1. /\ hnd \subseteq Handler /\ h \in Handler /\ h.for \in Node /\ h.live \in BOOLEAN
      /\ h.won \in Won
    BY DEF CallsOK, Handler
<1>2. Told(h.for, ok) \in JoinState \ (Waits \cup {"off"})
    BY <1>1, ToldOK
<1>3. CASE h.live
    <2>1. hnd' = hnd \ {h} /\ join' = [join EXCEPT ![h.for] = Told(h.for, ok)]
        BY <1>3 DEF Answer
    <2>2. joined' \in [Node -> Won] /\ join' \in [Node -> JoinState]
        BY <1>1, <1>2, <2>1 DEF Answer, CallsOK
    <2>3. join[h.for] \in Waits
        BY <1>1, <1>3 DEF CallsOK
    <2>4. \A n \in Node : join'[n] \in Waits <=> \E g \in hnd' : g.for = n /\ g.live
        BY <1>1, <1>2, <1>3, <2>1 DEF CallsOK
    <2>5. \A n \in Node : up[n] <=> join'[n] # "off"
        BY <1>1, <1>2, <2>1, <2>3 DEF CallsOK, Waits
    <2> QED
        BY <2>1, <2>2, <2>4, <2>5 DEF CallsOK
<1>4. CASE ~h.live
    <2>1. hnd' = hnd \ {h} /\ UNCHANGED <<join, joined>>
        BY <1>4 DEF Answer
    <2> QED
        BY <1>4, <2>1 DEF CallsOK
<1> QED
    BY <1>1, <1>3, <1>4

\* A call that goes on.
LEMMA GoesStep ==
    ASSUME CallsOK, NEW h \in hnd, NEW g \in Handler, g.for = h.for, g.live = h.live,
           Goes(h, g), UNCHANGED up, peers' \in [Node -> PeerFile]
    PROVE  CallsOK'
<1>1. hnd' = (hnd \ {h}) \cup {g} /\ UNCHANGED <<join, joined>>
    BY DEF Goes
<1>2. \A n \in Node : join'[n] \in Waits <=> \E k \in hnd' : k.for = n /\ k.live
    BY <1>1 DEF CallsOK
<1>3. \A j, k \in hnd' : j.live /\ k.live /\ j.for = k.for => j = k
    BY <1>1 DEF CallsOK
<1> QED
    BY <1>1, <1>2, <1>3 DEF CallsOK

\* A request for which nobody waits.
LEMMA DeadCall ==
    ASSUME CallsOK, NEW g \in Handler, ~g.live, hnd' = hnd \cup {g},
           UNCHANGED <<up, peers, join, joined>>
    PROVE  CallsOK'
BY DEF CallsOK

\* A new call in progress.
LEMMA NewHandlerOK ==
    ASSUME NEW n \in Node, NEW l \in Node, NEW phase \in {"walk", "drop"},
           NEW live \in BOOLEAN
    PROVE  /\ NewHandler(n, l, phase, live) \in Handler
           /\ NewHandler(n, l, phase, live).for = n
           /\ NewHandler(n, l, phase, live).at = l
           /\ NewHandler(n, l, phase, live).phase = phase
           /\ NewHandler(n, l, phase, live).won = NoWin
           /\ NewHandler(n, l, phase, live).live = live
BY DEF NewHandler, Handler, Won, NoWin

\* A request of a joiner that did not wait.
LEMMA AskStep ==
    ASSUME CallsOK, NEW n \in Node, NEW l \in Node, NEW next \in Waits,
           join[n] \in {"recover", "loop"}, Ask(n, l, next)
    PROVE  CallsOK'
<1> DEFINE g == NewHandler(n, l, "walk", TRUE)
<1>0. g \in Handler /\ g.for = n /\ g.live = TRUE
    BY DEF NewHandler, Handler, Won, NoWin
<1>1. g \in Handler /\ g.for = n /\ g.live
    BY <1>0
<1>2. /\ hnd' = hnd \cup {g} /\ join' = [join EXCEPT ![n] = next]
      /\ UNCHANGED <<up, peers, joined>>
    BY DEF Ask
<1> HIDE DEF g
<1>3. join[n] \notin Waits /\ next \in JoinState \ {"off"} /\ join[n] # "off"
    BY DEF Waits, JoinState
<1>4. \A h \in hnd : h.for = n => ~h.live
    BY <1>3 DEF CallsOK
<1>5. join' \in [Node -> JoinState] /\ join'[n] = next
      /\ \A p \in Node \ {n} : join'[p] = join[p]
    BY <1>2, <1>3 DEF CallsOK
<1>6. \A p \in Node : join'[p] \in Waits <=> \E h \in hnd' : h.for = p /\ h.live
    BY <1>1, <1>2, <1>5 DEF CallsOK
<1>7. \A h, k \in hnd' : h.live /\ k.live /\ h.for = k.for => h = k
    BY <1>1, <1>2, <1>4 DEF CallsOK
<1>8. \A p \in Node : up'[p] <=> join'[p] # "off"
    BY <1>2, <1>3, <1>5 DEF CallsOK
<1> QED
    BY <1>1, <1>2, <1>5, <1>6, <1>7, <1>8 DEF CallsOK

\* A joiner that goes on without a call.
LEMMA JoinerStep ==
    ASSUME CallsOK, NEW n \in Node, join[n] \in {"recover", "check"},
           NEW next \in {"loop", "done"}, join' = [join EXCEPT ![n] = next],
           UNCHANGED <<up, peers, hnd, joined>>
    PROVE  CallsOK'
<1>1. join[n] \notin Waits /\ next \in JoinState \ Waits /\ next # "off"
      /\ join[n] # "off"
    BY DEF Waits, JoinState
<1>2. join' \in [Node -> JoinState] /\ join'[n] = next
      /\ \A p \in Node \ {n} : join'[p] = join[p]
    BY <1>1 DEF CallsOK
<1>3. \A p \in Node : join'[p] \in Waits <=> \E h \in hnd' : h.for = p /\ h.live
    BY <1>1, <1>2 DEF CallsOK
<1>4. \A p \in Node : up'[p] <=> join'[p] # "off"
    BY <1>1, <1>2 DEF CallsOK
<1> QED
    BY <1>2, <1>3, <1>4 DEF CallsOK

\* A joiner that gets an error while the call goes on.
LEMMA ConnectionLostStep ==
    ASSUME CallsOK, NEW h \in hnd, ConnectionLost(h)
    PROVE  CallsOK'
<1> DEFINE g == [h EXCEPT !.live = FALSE]
<1>1. /\ h \in Handler /\ h.for \in Node /\ h.live
      /\ hnd' = (hnd \ {h}) \cup {g} /\ join' = [join EXCEPT ![h.for] = Told(h.for, FALSE)]
      /\ UNCHANGED <<up, peers, joined>>
    BY DEF ConnectionLost, CallsOK, Handler
<1>2. g \in Handler /\ g.for = h.for /\ ~g.live
    BY <1>1 DEF Handler
<1> HIDE DEF g
<1>3. Told(h.for, FALSE) \in JoinState \ (Waits \cup {"off"})
    BY <1>1, ToldOK
<1>4. join[h.for] \in Waits /\ \A k \in hnd' : k.for = h.for => ~k.live
    BY <1>1, <1>2 DEF CallsOK
<1>5. join' \in [Node -> JoinState] /\ join'[h.for] = Told(h.for, FALSE)
      /\ \A p \in Node \ {h.for} : join'[p] = join[p]
    BY <1>1, <1>3 DEF CallsOK
<1>6. ASSUME NEW p \in Node
      PROVE  join'[p] \in Waits <=> \E k \in hnd' : k.for = p /\ k.live
    <2>1. CASE p = h.for
        BY <1>3, <1>4, <1>5, <2>1
    <2>2. CASE p # h.for
        BY <1>1, <1>2, <1>5, <2>2 DEF CallsOK
    <2> QED
        BY <2>1, <2>2
<1>7. \A p \in Node : up'[p] <=> join'[p] # "off"
    BY <1>1, <1>3, <1>4, <1>5 DEF CallsOK, Waits
<1>8. \A j, k \in hnd' : j.live /\ k.live /\ j.for = k.for => j = k
    BY <1>1, <1>2 DEF CallsOK
<1> QED
    BY <1>1, <1>2, <1>5, <1>6, <1>7, <1>8 DEF CallsOK

\* What a commit makes of a call: its future is answered, or nothing happens to it.
Settled(l, h) ==
    IF h.phase \in DOMAIN Granted /\ h.at = l /\ h.term = term[l] /\ h.idx <= Len(log[l])
    THEN [h EXCEPT !.phase = Granted[h.phase]] ELSE h

\* A future that is answered leaves the rest of the call as it is.
LEMMA SettledOK ==
    ASSUME NEW l \in Node, NEW h \in Handler
    PROVE  LET g == Settled(l, h)
           IN  /\ g \in Handler /\ g.for = h.for /\ g.live = h.live /\ g.at = h.at
               /\ g.idx = h.idx /\ g.won = h.won /\ g.term = h.term
               /\ g.phase = h.phase \/ g.phase = Granted[h.phase]
<1>1. CASE /\ h.phase \in DOMAIN Granted /\ h.at = l /\ h.term = term[l]
           /\ h.idx <= Len(log[l])
    BY <1>1 DEF Settled, Handler
<1>2. CASE ~(/\ h.phase \in DOMAIN Granted /\ h.at = l /\ h.term = term[l]
             /\ h.idx <= Len(log[l]))
    BY <1>2 DEF Settled
<1> QED
    BY <1>1, <1>2

\* A commit answers futures and no joiner.
LEMMA CommitCalls ==
    ASSUME CallsOK, NEW l \in Node, Commit(l)
    PROVE  CallsOK' /\ hnd' = {Settled(l, h) : h \in hnd}
<1>1. hnd' = {Settled(l, h) : h \in hnd} /\ UNCHANGED <<up, peers, join, joined>>
    BY DEF Commit, Settled
<1>2. \A h \in hnd : /\ Settled(l, h) \in Handler /\ Settled(l, h).for = h.for
                     /\ Settled(l, h).live = h.live
    BY SettledOK DEF CallsOK
<1>3. hnd' \subseteq Handler
    BY <1>1, <1>2
<1>4. ASSUME NEW p \in Node
      PROVE  (\E k \in hnd' : k.for = p /\ k.live) <=> \E k \in hnd : k.for = p /\ k.live
    BY <1>1, <1>2
<1>5. \A j, k \in hnd' : j.live /\ k.live /\ j.for = k.for => j = k
    BY <1>1, <1>2 DEF CallsOK
<1> QED
    BY <1>1, <1>3, <1>4, <1>5 DEF CallsOK

\* A crash ends the calls on the node, whose joiners get an error, and its own
\* joining.
LEMMA CrashCalls ==
    ASSUME CallsOK, up \in [Node -> BOOLEAN], NEW n \in Node, Crash(n)
    PROVE  CallsOK'
<1> DEFINE Kept(h) == IF h.for = n THEN [h EXCEPT !.live = FALSE] ELSE h
           Cut(p) == \E h \in hnd : h.at = n /\ h.for = p /\ h.live
<1>1. /\ up' = [up EXCEPT ![n] = FALSE] /\ UNCHANGED <<peers, joined>>
      /\ hnd' = {Kept(h) : h \in {g \in hnd : g.at # n}}
      /\ join' = [p \in Node |-> IF p = n THEN "off"
                                ELSE IF Cut(p) THEN Told(p, FALSE) ELSE join[p]]
    BY DEF Crash
<1>2. ASSUME NEW h \in hnd
      PROVE  /\ Kept(h) \in Handler /\ Kept(h).for = h.for
             /\ Kept(h).live <=> (h.live /\ h.for # n)
             /\ h.for # n => Kept(h) = h
    <2>1. h \in Handler
        BY DEF CallsOK
    <2>2. CASE h.for = n
        BY <2>1, <2>2 DEF Handler
    <2>3. CASE h.for # n
        BY <2>1, <2>3
    <2> QED
        BY <2>2, <2>3
<1> HIDE DEF Kept
<1>3. \A p \in Node : Told(p, FALSE) \in JoinState \ (Waits \cup {"off"})
    BY ToldOK
<1>4. hnd' \subseteq Handler
    BY <1>1, <1>2
<1>5. join' \in [Node -> JoinState]
    <2>1. "off" \in JoinState
        BY DEF JoinState
    <2> QED
        BY <1>1, <1>3, <2>1 DEF CallsOK
<1>6. \A j, k \in hnd' : j.live /\ k.live /\ j.for = k.for => j = k
    BY <1>1, <1>2 DEF CallsOK
<1>7. ASSUME NEW p \in Node
      PROVE  join'[p] \in Waits <=> \E k \in hnd' : k.for = p /\ k.live
    <2>1. CASE p = n
        <3>1. join'[p] \notin Waits
            BY <1>1, <2>1 DEF Waits
        <3>2. \A k \in hnd' : k.for = p => ~k.live
            BY <1>1, <1>2, <2>1
        <3> QED
            BY <3>1, <3>2
    <2>2. CASE p # n /\ Cut(p)
        <3>1. join'[p] \notin Waits
            BY <1>1, <1>3, <2>2
        <3>2. \A k \in hnd' : k.for = p => ~k.live
            BY <1>1, <1>2, <2>2 DEF CallsOK
        <3> QED
            BY <3>1, <3>2
    <2>3. CASE p # n /\ ~Cut(p)
        <3>1. join'[p] = join[p]
            BY <1>1, <2>3
        <3>2. (\E k \in hnd' : k.for = p /\ k.live) <=> \E k \in hnd : k.for = p /\ k.live
            BY <1>1, <1>2, <2>3
        <3> QED
            BY <3>1, <3>2 DEF CallsOK
    <2> QED
        BY <2>1, <2>2, <2>3
<1>8. ASSUME NEW p \in Node
      PROVE  up'[p] <=> join'[p] # "off"
    <2>1. CASE p = n
        BY <1>1, <2>1 DEF CallsOK
    <2>2. CASE p # n /\ Cut(p)
        <3>1. up'[p] = up[p] /\ join'[p] # "off"
            BY <1>1, <1>3, <2>2 DEF CallsOK
        <3>2. join[p] \in Waits
            BY <2>2 DEF CallsOK
        <3> QED
            BY <3>1, <3>2 DEF CallsOK, Waits
    <2>3. CASE p # n /\ ~Cut(p)
        BY <1>1, <2>3 DEF CallsOK
    <2> QED
        BY <2>1, <2>2, <2>3
<1> QED
    BY <1>1, <1>4, <1>5, <1>6, <1>7, <1>8 DEF CallsOK

\* A process that starts waits for no one, and no call from before has an answer
\* for it.
LEMMA OpenCalls ==
    ASSUME CallsOK, up \in [Node -> BOOLEAN], NEW n \in Node, Open(n)
    PROVE  CallsOK'
<1> DEFINE next == IF peerFileExits(n) THEN "recover" ELSE AfterOpen(n)
<1>1. /\ ~up[n] /\ up' = [up EXCEPT ![n] = TRUE] /\ join' = [join EXCEPT ![n] = next]
      /\ UNCHANGED <<peers, hnd, joined>>
    BY DEF Open
<1>2. next \in JoinState \ (Waits \cup {"off"})
    BY DEF AfterOpen, JoinState, Waits
<1> HIDE DEF next
<1>3. join[n] \notin Waits
    BY <1>1 DEF CallsOK, Waits
<1>4. join' \in [Node -> JoinState] /\ join'[n] = next
      /\ \A p \in Node \ {n} : join'[p] = join[p]
    BY <1>1, <1>2 DEF CallsOK
<1>5. \A p \in Node : join'[p] \in Waits <=> \E k \in hnd' : k.for = p /\ k.live
    BY <1>1, <1>2, <1>3, <1>4 DEF CallsOK
<1>6. \A p \in Node : up'[p] <=> join'[p] # "off"
    BY <1>1, <1>2, <1>4 DEF CallsOK
<1> QED
    BY <1>1, <1>4, <1>5, <1>6 DEF CallsOK

-----------------------------------------------------------------------------
(* The steps of a call. *)

\* What a step of a call does: raft takes an entry or nothing happens in it, and the
\* call returns or goes on with what CallAdds says of it.
TakesEntry(l) ==
    /\ leads[l]
    /\ \E kind \in {"conf", "set"}, c \in SUBSET Node : Valid(c) /\ Appended(l, kind, c)

Outcome(h) ==
    /\ UNCHANGED <<up, leads, term, commit, chosen, halted>>
    /\ peers' \in [Node -> PeerFile]
    /\ log' = log \/ TakesEntry(h.at)
    /\ \/ \E ok \in BOOLEAN : Answer(h, ok)
       \/ \E g \in Handler : /\ g.for = h.for /\ g.live = h.live /\ Goes(h, g)
                             /\ CallAdds(h) => CallAdds(g)'

\* The phases of a call.
Phases ==
    DOMAIN Granted \cup {Granted[p] : p \in DOMAIN Granted}
      \cup {"walk", "remove", "add", "drop", "write", "save"}

\* The phases in which a call waits for an entry, and some of the others.
LEMMA PhasesAre ==
    /\ DOMAIN Granted = {"removing", "adding", "dropping", "saving"}
    /\ {"removing", "adding", "dropping", "saving", "remove", "add", "write",
        "save"} \subseteq Phases
BY DEF Granted, Phases

\* A call that waits for the entry at index i, taken in term t.
WaitsFor(h, w, i, t) == [h EXCEPT !.phase = w, !.idx = i, !.term = t]

\* A call that goes on to wait for an entry stays a call.
LEMMA WaitingCall ==
    ASSUME NEW h \in Handler, NEW w \in Phases, NEW i \in Nat, NEW t \in Nat
    PROVE  LET g == WaitsFor(h, w, i, t)
           IN  /\ g \in Handler /\ g.for = h.for /\ g.live = h.live /\ g.at = h.at
               /\ g.phase = w /\ g.won = h.won /\ g.term = t /\ g.idx = i
BY DEF WaitsFor, Handler, Phases

\* Steps in which raft has no part: the call returns, or goes on in a phase in which
\* it waits for no entry.
LEMMA QuietOutcome ==
    ASSUME CallsOK, NEW h \in hnd, UNCHANGED <<up, raftVars>>,
           peers' \in [Node -> PeerFile],
           \/ \E ok \in BOOLEAN : Answer(h, ok)
           \/ \E g \in Handler :
                 /\ g.for = h.for /\ g.live = h.live /\ Goes(h, g)
                 /\ g.phase \notin {"adding", "added"}
                 /\ \/ g.won = h.won
                    \/ g.won.how # "added"
                    \/ h.phase = "added" /\ g.won.idx = h.idx
    PROVE  Outcome(h)
<1>1. UNCHANGED <<up, leads, term, commit, chosen, halted, log>>
    BY DEF raftVars
<1>2. CASE \E ok \in BOOLEAN : Answer(h, ok)
    BY <1>1, <1>2 DEF Outcome
<1>3. ASSUME NEW g \in Handler, g.for = h.for, g.live = h.live, Goes(h, g),
             g.phase \notin {"adding", "added"},
             \/ g.won = h.won
             \/ g.won.how # "added"
             \/ h.phase = "added" /\ g.won.idx = h.idx
      PROVE  Outcome(h)
    <2>1. CallAdds(h) => CallAdds(g)'
        BY <1>1, <1>3 DEF CallAdds, InHistory
    <2> QED
        BY <1>1, <1>3, <2>1 DEF Outcome
<1> QED
    BY <1>2, <1>3

\* Steps in which raft takes an entry for the call.
LEMMA ChangeOutcome ==
    ASSUME RaftOK, CallsOK, NEW h \in hnd, NEW waiting \in {"removing", "adding", "dropping"},
           NEW c \in SUBSET Node, waiting = "adding" => h.for \in c,
           Change(h, waiting, c)
    PROVE  Outcome(h)
<1>1. UNCHANGED <<up, leads, term, commit, chosen, halted, peers>>
    BY DEF Change
<1>2. peers' \in [Node -> PeerFile]
    BY <1>1 DEF CallsOK
<1>3. CASE Answer(h, FALSE) /\ log' = log
    BY <1>1, <1>2, <1>3 DEF Outcome
<1>4. CASE /\ leads[h.at] /\ Valid(c) /\ Appended(h.at, "conf", c)
           /\ Goes(h, [h EXCEPT !.phase = waiting, !.idx = Len(log[h.at]) + 1,
                                !.term = term[h.at]])
    <2>1. h \in Handler /\ h.at \in Node
        BY DEF CallsOK, Handler
    <2>2. log[h.at] \in Seq(Entry) /\ term[h.at] \in Nat /\ Len(log[h.at]) \in Nat
        BY <2>1, LenProperties DEF RaftOK
    <2>3. waiting \in Phases /\ Len(log[h.at]) + 1 \in Nat
        BY <2>2, PhasesAre
    <2>4. PICK g \in Handler :
            /\ g = WaitsFor(h, waiting, Len(log[h.at]) + 1, term[h.at])
            /\ g.for = h.for /\ g.live = h.live /\ g.at = h.at
            /\ g.phase = waiting /\ g.won = h.won /\ g.term = term[h.at]
            /\ g.idx = Len(log[h.at]) + 1
        <3>1. PICK i \in Nat : i = Len(log[h.at]) + 1
            BY <2>3
        <3>2. PICK t \in Nat : t = term[h.at]
            BY <2>2
        <3>3. /\ WaitsFor(h, waiting, i, t) \in Handler
              /\ WaitsFor(h, waiting, i, t).for = h.for
              /\ WaitsFor(h, waiting, i, t).live = h.live
              /\ WaitsFor(h, waiting, i, t).at = h.at
              /\ WaitsFor(h, waiting, i, t).phase = waiting
              /\ WaitsFor(h, waiting, i, t).won = h.won
              /\ WaitsFor(h, waiting, i, t).term = t
              /\ WaitsFor(h, waiting, i, t).idx = i
            BY <2>1, <2>3, WaitingCall
        <3> QED
            BY <3>1, <3>2, <3>3
    <2>10. Goes(h, g)
        BY <1>4, <2>4 DEF WaitsFor
    <2> DEFINE e == [term |-> term[h.at], kind |-> "conf", conf |-> c]
    <2>5. e \in Entry /\ e.conf = c /\ log'[h.at] = Append(log[h.at], e)
        BY <1>4, <2>1, <2>2 DEF Appended, RaftOK, Entry
    <2> HIDE DEF e
    <2>6. /\ Len(log'[h.at]) = Len(log[h.at]) + 1
          /\ log'[h.at][Len(log[h.at]) + 1] = e
        BY <2>2, <2>5, AppendEntry
    <2>7. waiting = "adding" => /\ g.idx \in 1 .. Len(log'[h.at])
                               /\ g.for \in log'[h.at][g.idx].conf
        BY <2>2, <2>4, <2>5, <2>6
    <2>8. CallAdds(h) => CallAdds(g)'
        <3>1. term'[h.at] = term[h.at] /\ chosen' = chosen
            BY <1>1
        <3>2. g.phase # "added" /\ (g.phase = "adding" => g.term <= term'[g.at])
            BY <2>2, <2>4, <3>1
        <3>3. CallAdds(h) => (g.won.how = "added" => InHistory(g.for, g.won.idx)')
            BY <2>4, <3>1 DEF CallAdds, InHistory
        <3>4. g.phase = "adding" => /\ g.idx \in 1 .. Len(log'[g.at])
                                    /\ g.for \in log'[g.at][g.idx].conf
            BY <2>4, <2>7
        <3> QED
            BY <3>2, <3>3, <3>4 DEF CallAdds
    <2>9. TakesEntry(h.at)
        BY <1>4 DEF TakesEntry
    <2> QED
        BY <1>1, <1>2, <2>4, <2>8, <2>9, <2>10 DEF Outcome
<1> QED
    BY <1>3, <1>4 DEF Change

\* What raft and the joiners see of a call is an Outcome.
LEMMA HandleOutcome ==
    ASSUME RaftOK, CallsOK, NEW h \in hnd, Handle(h)
    PROVE  Outcome(h)
<1>1. /\ h \in Handler /\ h.for \in Node /\ h.at \in Node /\ h.idx \in Nat
      /\ h.old \in Node /\ h.list \in SUBSET Node /\ h.won \in Won
    BY DEF CallsOK, Handler
<1>2. /\ Conf(h.at) \subseteq Node /\ Len(log[h.at]) \in Nat /\ term[h.at] \in Nat
      /\ (leads[h.at] => Valid(Conf(h.at)))
    BY <1>1, ConfOK, LenProperties DEF RaftOK
<1>3. TRUE \in BOOLEAN /\ FALSE \in BOOLEAN
    OBVIOUS
<1>4. UNCHANGED peers => peers' \in [Node -> PeerFile]
    BY DEF CallsOK
<1>5. CASE Walk(h)
    <2>1. UNCHANGED <<up, raftVars, peers>>
        BY <1>5 DEF Walk
    <2>2. CASE Answer(h, FALSE)
        BY <1>3, <1>4, <2>1, <2>2, QuietOutcome
    <2>3. ASSUME NEW g, Goes(h, g),
                 \/ g = [h EXCEPT !.phase = "save",
                           !.won = [how |-> "already", idx |-> Len(log[h.at])]]
                 \/ g = [h EXCEPT !.phase = "add"]
                 \/ \E s \in Node : g = [h EXCEPT !.phase = "remove", !.old = s]
          PROVE  Outcome(h)
        <3>1. /\ g \in Handler /\ g.for = h.for /\ g.live = h.live
              /\ g.phase \notin {"adding", "added"}
              /\ g.won = h.won \/ g.won.how # "added"
            <4>1. {"save", "add", "remove"} \subseteq Phases
                BY PhasesAre
            <4>2. CASE g = [h EXCEPT !.phase = "save",
                           !.won = [how |-> "already", idx |-> Len(log[h.at])]]
                BY <1>1, <1>2, <4>1, <4>2 DEF Handler, Won, Phases
            <4>3. CASE g = [h EXCEPT !.phase = "add"]
                BY <1>1, <4>1, <4>3 DEF Handler, Phases
            <4>4. ASSUME NEW s \in Node, g = [h EXCEPT !.phase = "remove", !.old = s]
                  PROVE  /\ g \in Handler /\ g.for = h.for /\ g.live = h.live
                         /\ g.phase = "remove" /\ g.won = h.won
                BY <1>1, <4>1, <4>4 DEF Handler, Phases
            <4> QED
                BY <2>3, <4>2, <4>3, <4>4
        <3> QED
            BY <1>4, <2>1, <2>3, <3>1, QuietOutcome
    <2> QED
        BY <1>2, <1>5, <2>2, <2>3 DEF Walk
<1>6. CASE RemoveServer(h)
    <2>1. Conf(h.at) \ {h.old} \in SUBSET Node
        BY <1>2
    <2>2. CASE Change(h, "removing", Conf(h.at) \ {h.old})
        BY <2>1, <2>2, ChangeOutcome
    <2>3. CASE Change(h, "dropping", Conf(h.at) \ {h.old})
        BY <2>1, <2>3, ChangeOutcome
    <2> QED
        BY <1>6, <2>2, <2>3 DEF RemoveServer
<1>7. CASE AddVoter(h)
    <2>1. Conf(h.at) \cup {h.for} \in SUBSET Node /\ h.for \in Conf(h.at) \cup {h.for}
        BY <1>1, <1>2
    <2>2. Change(h, "adding", Conf(h.at) \cup {h.for})
        BY <1>7 DEF AddVoter
    <2> QED
        BY <2>1, <2>2, ChangeOutcome
<1>8. CASE Failed(h)
    <2>1. UNCHANGED <<up, raftVars, peers>> /\ Answer(h, h.phase = "saving")
        BY <1>8 DEF Failed
    <2>2. (h.phase = "saving") \in BOOLEAN
        OBVIOUS
    <2> QED
        BY <1>4, <2>1, <2>2, QuietOutcome
<1>9. CASE Removed(h)
    <2> DEFINE g == [h EXCEPT !.phase = "add"]
    <2>1. UNCHANGED <<up, raftVars, peers>> /\ Goes(h, g)
        BY <1>9 DEF Removed
    <2>2. /\ g \in Handler /\ g.for = h.for /\ g.live = h.live
          /\ g.phase = "add" /\ g.won = h.won
        BY <1>1 DEF Handler
    <2> QED
        BY <1>4, <2>1, <2>2, QuietOutcome
<1>10. CASE Truncate(h)
    <2> DEFINE g == [h EXCEPT !.phase = "write", !.list = Conf(h.at),
                         !.won = IF h.phase = "dropped" THEN NoWin
                                 ELSE [how |-> "added", idx |-> h.idx]]
    <2>1. /\ UNCHANGED <<up, raftVars>> /\ Goes(h, g) /\ h.phase \in {"added", "dropped"}
          /\ peers' = [peers EXCEPT ![h.at] = TornFile]
        BY <1>10 DEF Truncate
    <2>2. peers' \in [Node -> PeerFile]
        BY <2>1 DEF CallsOK, PeerFile
    <2>3. /\ g \in Handler /\ g.for = h.for /\ g.live = h.live /\ g.phase = "write"
          /\ \/ g.won.how # "added"
             \/ h.phase = "added" /\ g.won.idx = h.idx
        <3>1. g.won \in Won /\ g.won = IF h.phase = "dropped" THEN NoWin
                                       ELSE [how |-> "added", idx |-> h.idx]
            BY <1>1, <2>1 DEF Handler, Won, NoWin
        <3>2. /\ g = [h EXCEPT !.phase = "write", !.list = Conf(h.at), !.won = g.won]
              /\ "write" \in Phases
            BY PhasesAre DEF Handler
        <3>3. \/ g.won.how # "added"
              \/ h.phase = "added" /\ g.won.idx = h.idx
            BY <2>1, <3>1 DEF NoWin
        <3> QED
            BY <1>1, <1>2, <3>1, <3>2, <3>3 DEF Handler, Phases
    <2> QED
        BY <2>1, <2>2, <2>3, QuietOutcome
<1>11. CASE Write(h)
    <2>1. UNCHANGED <<up, raftVars>> /\ peers' = [peers EXCEPT ![h.at] = WholeFile(h.list)]
        BY <1>11 DEF Write
    <2>2. WholeFile(h.list) \in PeerFile
        BY <1>1 DEF PeerFile
    <2>3. peers' \in [Node -> PeerFile]
        BY <2>1, <2>2 DEF CallsOK
    <2>4. CASE Answer(h, TRUE)
        BY <1>3, <2>1, <2>3, <2>4, QuietOutcome
    <2> DEFINE g == [h EXCEPT !.phase = "save", !.list = {}]
    <2>5. CASE Goes(h, g)
        <3>1. /\ g \in Handler /\ g.for = h.for /\ g.live = h.live
              /\ g.phase = "save" /\ g.won = h.won
            BY <1>1 DEF Handler
        <3> QED
            BY <2>1, <2>3, <2>5, <3>1, QuietOutcome
    <2> QED
        BY <1>11, <2>4, <2>5 DEF Write
<1>12. CASE Save(h)
    <2>1. UNCHANGED <<up, leads, term, commit, chosen, halted, peers>>
        BY <1>12 DEF Save
    <2>2. CASE Answer(h, TRUE) /\ log' = log
        BY <1>3, <1>4, <2>1, <2>2, QuietOutcome DEF raftVars
    <2>3. CASE /\ leads[h.at] /\ Appended(h.at, "set", Conf(h.at))
               /\ Goes(h, [h EXCEPT !.phase = "saving", !.idx = Len(log[h.at]) + 1,
                                    !.term = term[h.at]])
        <3>0. "saving" \in Phases /\ Len(log[h.at]) + 1 \in Nat
            BY <1>2, PhasesAre
        <3>1. PICK g \in Handler :
                /\ g = WaitsFor(h, "saving", Len(log[h.at]) + 1, term[h.at])
                /\ g.for = h.for /\ g.live = h.live /\ g.phase = "saving"
                /\ g.won = h.won
            <4>1. PICK i \in Nat : i = Len(log[h.at]) + 1
                BY <3>0
            <4>2. PICK t \in Nat : t = term[h.at]
                BY <1>2
            <4>3. /\ WaitsFor(h, "saving", i, t) \in Handler
                  /\ WaitsFor(h, "saving", i, t).for = h.for
                  /\ WaitsFor(h, "saving", i, t).live = h.live
                  /\ WaitsFor(h, "saving", i, t).phase = "saving"
                  /\ WaitsFor(h, "saving", i, t).won = h.won
                BY <1>1, <3>0, WaitingCall
            <4> QED
                BY <4>1, <4>2, <4>3
        <3>5. Goes(h, g)
            BY <2>3, <3>1 DEF WaitsFor
        <3>2. CallAdds(h) => CallAdds(g)'
            BY <2>1, <3>1 DEF CallAdds, InHistory
        <3>4. TakesEntry(h.at)
            BY <1>2, <2>3 DEF TakesEntry
        <3> QED
            BY <1>4, <2>1, <3>1, <3>2, <3>4, <3>5 DEF Outcome
    <2> QED
        BY <1>12, <2>2, <2>3 DEF Save
<1>13. CASE Saved(h)
    <2>1. UNCHANGED <<up, raftVars, peers>> /\ Answer(h, TRUE)
        BY <1>13 DEF Saved
    <2> QED
        BY <1>3, <1>4, <2>1, QuietOutcome
<1> QED
    BY <1>5, <1>6, <1>7, <1>8, <1>9, <1>10, <1>11, <1>12, <1>13 DEF Handle

-----------------------------------------------------------------------------
(* The history. *)

\* One log is the beginning of another when it has the same entries.
LEMMA PrefixEntries ==
    ASSUME NEW s \in Seq(Entry), NEW t \in Seq(Entry)
    PROVE  IsPrefixOf(s, t) <=> Len(s) <= Len(t) /\ \A k \in 1 .. Len(s) : s[k] = t[k]
<1>1. Len(s) \in Nat /\ Len(t) \in Nat
    BY LenProperties
<1>2. ASSUME Len(s) <= Len(t)
      PROVE  /\ SubSeq(t, 1, Len(s)) \in Seq(Entry) /\ Len(SubSeq(t, 1, Len(s))) = Len(s)
             /\ \A k \in 1 .. Len(s) : SubSeq(t, 1, Len(s))[k] = t[k]
    <2>1. \A k \in 1 .. Len(s) : t[k] \in Entry
        BY <1>1, <1>2, ElementOfSeq
    <2> QED
        BY <1>1, <1>2, <2>1, SubSeqProperties
<1>3. ASSUME Len(s) <= Len(t), \A k \in 1 .. Len(s) : s[k] = t[k]
      PROVE  SubSeq(t, 1, Len(s)) = s
    BY <1>1, <1>2, <1>3, SeqEqual
<1> QED
    BY <1>2, <1>3 DEF IsPrefixOf

\* As long as nothing is committed, a step keeps the history when it resets what a
\* node has committed or leaves those entries alone.
LEMMA HistoryKept ==
    ASSUME HistoryOK, chosen' = chosen,
           \A n \in Node : \/ commit'[n] = 0
                           \/ /\ commit'[n] = commit[n]
                              /\ \A k \in 1 .. commit[n] : log'[n][k] = log[n][k],
           Len(chosen) \in Nat
    PROVE  HistoryOK'
BY DEF HistoryOK

\* A call keeps what CallAdds says in a step that changes the leader, its term and
\* its log as raft may: a node that leads has done so in its term, and has only
\* appended, or is in a new term.
LEMMA CallKept ==
    ASSUME RaftOK, NEW h \in Handler, NEW g \in Handler, CallAdds(h), chosen' = chosen,
           /\ g.for = h.for /\ g.at = h.at /\ g.phase = h.phase /\ g.idx = h.idx
           /\ g.term = h.term /\ g.won = h.won,
           term'[h.at] \in Nat, term[h.at] <= term'[h.at],
           leads'[h.at] =>
              \/ term[h.at] < term'[h.at]
              \/ /\ leads[h.at] /\ Len(log[h.at]) <= Len(log'[h.at])
                 /\ \A k \in 1 .. Len(log[h.at]) : log'[h.at][k] = log[h.at][k],
           Len(log'[h.at]) \in Nat
    PROVE  CallAdds(g)'
<1>1. h.at \in Node /\ h.term \in Nat /\ h.idx \in Nat
    BY DEF Handler
<1>2. term[h.at] \in Nat /\ Len(log[h.at]) \in Nat
    BY <1>1, LenProperties DEF RaftOK
<1>3. ASSUME h.phase = "adding", leads'[h.at], term'[h.at] = h.term
      PROVE  h.idx \in 1 .. Len(log'[h.at]) /\ h.for \in log'[h.at][h.idx].conf
    <2>1. h.term <= term[h.at]
        BY <1>3 DEF CallAdds
    <2>2. term[h.at] = h.term /\ leads[h.at]
        BY <1>1, <1>2, <1>3, <2>1
    <2>3. h.idx \in 1 .. Len(log[h.at]) /\ h.for \in log[h.at][h.idx].conf
        BY <1>3, <2>2 DEF CallAdds
    <2>4. /\ Len(log[h.at]) <= Len(log'[h.at])
          /\ \A k \in 1 .. Len(log[h.at]) : log'[h.at][k] = log[h.at][k]
        BY <1>2, <1>3, <2>2
    <2> QED
        BY <1>1, <1>2, <2>3, <2>4
<1>4. h.phase = "adding" => h.term <= term'[h.at]
    BY <1>1, <1>2 DEF CallAdds
<1> QED
    BY <1>3, <1>4 DEF CallAdds, InHistory

\* Steps of raft that leave the calls alone.
LEMMA AddedKept ==
    ASSUME RaftOK, RaftOK', hnd \subseteq Handler, AddedOK,
           UNCHANGED <<chosen, hnd, joined>>,
           \A n \in Node :
              /\ term[n] <= term'[n]
              /\ leads'[n] =>
                    \/ term[n] < term'[n]
                    \/ /\ leads[n] /\ Len(log[n]) <= Len(log'[n])
                       /\ \A k \in 1 .. Len(log[n]) : log'[n][k] = log[n][k]
    PROVE  AddedOK'
<1>1. ASSUME NEW h \in hnd
      PROVE  CallAdds(h)'
    <2>1. h \in Handler /\ h.at \in Node /\ CallAdds(h)
        BY DEF Handler, AddedOK
    <2>2. term'[h.at] \in Nat /\ Len(log'[h.at]) \in Nat
        BY <2>1, LenProperties DEF RaftOK
    <2> QED
        BY <2>1, <2>2, CallKept
<1> QED
    BY <1>1 DEF AddedOK, InHistory

\* A leader that takes an entry.
LEMMA AppendHistory ==
    ASSUME RaftOK, RaftOK', HistoryOK, NEW l \in Node, NEW kind \in {"noop", "conf", "set"},
           NEW c \in SUBSET Node, Appended(l, kind, c),
           UNCHANGED <<leads, term, commit, chosen>>
    PROVE  /\ HistoryOK'
           /\ \A n \in Node : /\ Len(log[n]) <= Len(log'[n])
                              /\ \A k \in 1 .. Len(log[n]) : log'[n][k] = log[n][k]
<1> DEFINE e == [term |-> term[l], kind |-> kind, conf |-> c]
<1>1. e \in Entry /\ log[l] \in Seq(Entry) /\ log'[l] = Append(log[l], e)
      /\ \A n \in Node \ {l} : log'[n] = log[n]
    BY DEF Appended, RaftOK, Entry
<1> HIDE DEF e
<1>2. ASSUME NEW n \in Node
      PROVE  /\ Len(log[n]) <= Len(log'[n]) /\ Len(log[n]) \in Nat
             /\ \A k \in 1 .. Len(log[n]) : log'[n][k] = log[n][k]
    <2>1. Len(log[n]) \in Nat
        BY LenProperties DEF RaftOK
    <2>2. CASE n = l
        BY <1>1, <2>1, <2>2, AppendEntry
    <2>3. CASE n # l
        BY <1>1, <2>1, <2>3
    <2> QED
        BY <2>1, <2>2, <2>3
<1>3. \A n \in Node : commit'[n] = commit[n] /\ commit[n] \in Nat /\ commit[n] <= Len(log[n])
    BY DEF RaftOK
<1>4. \A n \in Node : \A k \in 1 .. commit[n] : log'[n][k] = log[n][k]
    BY <1>2, <1>3
<1>5. Len(chosen) \in Nat
    BY LenProperties DEF RaftOK
<1> QED
    BY <1>2, <1>3, <1>4, <1>5, HistoryKept

\* The history continues what it was when a leader commits, and holds what that
\* leader's log holds.
LEMMA HistoryGrows ==
    ASSUME RaftOK, CommitsAgree, NEW l \in Node, Commit(l)
    PROVE  /\ Len(chosen) <= Len(chosen') /\ Len(log[l]) <= Len(chosen')
           /\ \A k \in 1 .. Len(chosen) : chosen'[k] = chosen[k]
           /\ \A k \in 1 .. Len(log[l]) : chosen'[k] = log[l][k]
<1>1. log[l] \in Seq(Entry) /\ chosen \in Seq(Entry) /\ Len(log[l]) \in Nat
      /\ Len(chosen) \in Nat
    BY LenProperties DEF RaftOK
<1>2. Committable(l)
    BY DEF Commit
<1>3. IsPrefixOf(chosen, log[l]) \/ IsPrefixOf(log[l], chosen)
    BY <1>2 DEF CommitsAgree
<1>4. \/ Len(chosen) <= Len(log[l]) /\ \A k \in 1 .. Len(chosen) : chosen[k] = log[l][k]
      \/ Len(log[l]) <= Len(chosen) /\ \A k \in 1 .. Len(log[l]) : log[l][k] = chosen[k]
    BY <1>1, <1>3, PrefixEntries
<1>5. chosen' = IF Len(log[l]) > Len(chosen) THEN log[l] ELSE chosen
    BY DEF Commit
<1>6. CASE Len(log[l]) > Len(chosen)
    BY <1>1, <1>4, <1>5, <1>6
<1>7. CASE ~(Len(log[l]) > Len(chosen))
    <2>1. chosen' = chosen /\ Len(log[l]) <= Len(chosen)
        BY <1>1, <1>5, <1>7
    <2> QED
        BY <1>1, <1>4, <2>1
<1> QED
    BY <1>6, <1>7

\* A commit: what the leader has committed is in the history, and so is what the
\* calls whose futures it answers have added.
LEMMA CommitHistory ==
    ASSUME RaftOK, RaftOK', CallsOK, HistoryOK, AddedOK, CommitsAgree,
           NEW l \in Node, Commit(l)
    PROVE  HistoryOK' /\ AddedOK'
<1>1. /\ Len(chosen) <= Len(chosen') /\ Len(log[l]) <= Len(chosen')
      /\ \A k \in 1 .. Len(chosen) : chosen'[k] = chosen[k]
      /\ \A k \in 1 .. Len(log[l]) : chosen'[k] = log[l][k]
    BY HistoryGrows
<1>2. Len(chosen) \in Nat /\ Len(chosen') \in Nat /\ Len(log[l]) \in Nat
    BY LenProperties DEF RaftOK
<1>3. leads[l] /\ UNCHANGED <<term, log, joined>>
    BY DEF Commit, Committable
<1>4. \/ commit' = [commit EXCEPT ![l] = Len(log[l])] /\ UNCHANGED leads
      \/ commit' = [commit EXCEPT ![l] = 0] /\ leads' = [leads EXCEPT ![l] = FALSE]
    BY DEF Commit
<1>5. HistoryOK'
    <2> SUFFICES ASSUME NEW n \in Node
                 PROVE  /\ commit'[n] <= Len(chosen')
                        /\ \A k \in 1 .. commit'[n] : log[n][k] = chosen'[k]
        BY <1>3 DEF HistoryOK
    <2>1. CASE n = l
        <3>1. commit'[n] = Len(log[l]) \/ commit'[n] = 0
            BY <1>4, <2>1 DEF RaftOK
        <3> QED
            BY <1>1, <1>2, <2>1, <3>1
    <2>2. CASE n # l
        <3>1. commit'[n] = commit[n] /\ commit[n] \in Nat
            BY <1>4, <2>2 DEF RaftOK
        <3>2. commit[n] <= Len(chosen) /\ \A k \in 1 .. commit[n] : log[n][k] = chosen[k]
            BY DEF HistoryOK
        <3> QED
            BY <1>1, <1>2, <3>1, <3>2
    <2> QED
        BY <2>1, <2>2
<1>6. ASSUME NEW n, NEW i, InHistory(n, i)
      PROVE  InHistory(n, i)'
    BY <1>1, <1>2, <1>6 DEF InHistory
<1>7. hnd' = {Settled(l, h) : h \in hnd}
    BY CommitCalls
<1>8. ASSUME NEW h \in hnd, NEW g \in Handler, g = Settled(l, h)
      PROVE  CallAdds(g)'
    <2>1. h \in Handler /\ CallAdds(h) /\ h.at \in Node
        BY DEF CallsOK, AddedOK, Handler
    <2>2. /\ g.for = h.for /\ g.at = h.at /\ g.idx = h.idx /\ g.won = h.won
          /\ g.term = h.term
        BY <1>8, <2>1, SettledOK
    <2>3. g.won.how = "added" => InHistory(g.for, g.won.idx)'
        BY <1>6, <2>1, <2>2 DEF CallAdds
    <2>4. CASE /\ h.phase \in DOMAIN Granted /\ h.at = l /\ h.term = term[l]
               /\ h.idx <= Len(log[l])
        <3>1. g.phase = Granted[h.phase]
            BY <1>8, <2>1, <2>4 DEF Settled, Handler
        <3>2. g.phase # "adding" /\ (g.phase = "added" => h.phase = "adding")
            BY <2>4, <3>1 DEF Granted
        <3>3. h.phase = "adding" =>
                /\ h.idx \in 1 .. Len(log[l]) /\ h.for \in log[l][h.idx].conf
            BY <1>3, <2>1, <2>4 DEF CallAdds
        <3>4. g.phase = "added" => InHistory(g.for, g.idx)'
            BY <1>1, <1>2, <2>2, <3>2, <3>3 DEF InHistory
        <3> QED
            BY <2>3, <3>2, <3>4 DEF CallAdds
    <2>5. CASE ~(/\ h.phase \in DOMAIN Granted /\ h.at = l /\ h.term = term[l]
                 /\ h.idx <= Len(log[l]))
        <3>1. g = h
            BY <1>8, <2>5 DEF Settled
        <3>2. leads'[h.at] => leads[h.at]
            BY <1>4, <2>1 DEF RaftOK
        <3>3. g.phase = "added" => InHistory(g.for, g.idx)'
            BY <1>6, <2>1, <3>1 DEF CallAdds
        <3>4. g.phase = "adding" =>
                /\ g.term <= term'[g.at]
                /\ leads'[g.at] /\ term'[g.at] = g.term =>
                      g.idx \in 1 .. Len(log'[g.at]) /\ g.for \in log'[g.at][g.idx].conf
            BY <1>3, <2>1, <3>1, <3>2 DEF CallAdds
        <3> QED
            BY <2>3, <3>3, <3>4 DEF CallAdds
    <2> QED
        BY <2>4, <2>5
<1>9. ASSUME NEW g \in hnd'
      PROVE  CallAdds(g)'
    <2>1. PICK h \in hnd : g = Settled(l, h)
        BY <1>7
    <2>2. g \in Handler
        BY <2>1, SettledOK DEF CallsOK
    <2> QED
        BY <1>8, <2>1, <2>2
<1>10. \A n \in Node : joined'[n].how = "added" => InHistory(n, joined[n].idx)'
    <2> SUFFICES ASSUME NEW n \in Node, joined[n].how = "added"
                 PROVE  InHistory(n, joined[n].idx)'
        BY <1>3 DEF InHistory
    <2>1. InHistory(n, joined[n].idx)
        BY DEF AddedOK
    <2> QED
        BY <1>1, <1>2, <1>3, <2>1 DEF InHistory
<1> QED
    BY <1>5, <1>9, <1>10 DEF AddedOK

\* A step of a call.
LEMMA CallHistory ==
    ASSUME RaftOK, RaftOK', CallsOK, HistoryOK, AddedOK, NEW h \in hnd, Outcome(h)
    PROVE  HistoryOK' /\ AddedOK'
<1>1. UNCHANGED <<leads, term, commit, chosen>>
    BY DEF Outcome
<1>2. h \in Handler /\ h.at \in Node /\ h.for \in Node /\ CallAdds(h)
    BY DEF CallsOK, Handler, AddedOK
<1>3. \A n \in Node : Len(log[n]) \in Nat /\ Len(log'[n]) \in Nat /\ term[n] \in Nat
    BY LenProperties DEF RaftOK
<1>4. /\ HistoryOK'
      /\ \A n \in Node : /\ Len(log[n]) <= Len(log'[n])
                         /\ \A k \in 1 .. Len(log[n]) : log'[n][k] = log[n][k]
    <2>1. CASE log' = log
        BY <1>1, <1>3, <2>1 DEF HistoryOK
    <2>2. CASE TakesEntry(h.at)
        BY <1>1, <1>2, <2>2, AppendHistory DEF TakesEntry
    <2> QED
        BY <2>1, <2>2 DEF Outcome
<1>5. ASSUME NEW g \in hnd
      PROVE  CallAdds(g)'
    <2>1. g \in Handler /\ g.at \in Node /\ CallAdds(g)
        BY DEF CallsOK, Handler, AddedOK
    <2> QED
        BY <1>1, <1>3, <1>4, <2>1, CallKept
<1>6. \A n \in Node : joined[n].how = "added" =>
                        joined[n].idx \in 1 .. Len(chosen') /\ n \in chosen'[joined[n].idx].conf
    BY <1>1 DEF AddedOK, InHistory
<1>7. ASSUME NEW ok \in BOOLEAN, Answer(h, ok)
      PROVE  AddedOK'
    <2>1. hnd' \subseteq hnd
        BY <1>7 DEF Answer
    <2>2. joined' = joined \/ joined' = [joined EXCEPT ![h.for] = h.won]
        BY <1>7 DEF Answer
    <2>3. h.won.how = "added" =>
            h.won.idx \in 1 .. Len(chosen') /\ h.for \in chosen'[h.won.idx].conf
        BY <1>1, <1>2 DEF CallAdds, InHistory
    <2>4. ASSUME NEW n \in Node, joined'[n].how = "added"
          PROVE  joined'[n].idx \in 1 .. Len(chosen') /\ n \in chosen'[joined'[n].idx].conf
        <3>1. joined'[n] = joined[n] \/ (n = h.for /\ joined'[n] = h.won)
            BY <1>2, <2>2 DEF CallsOK
        <3> QED
            BY <1>6, <2>3, <2>4, <3>1
    <2> QED
        BY <1>5, <2>1, <2>4 DEF AddedOK, InHistory
<1>8. ASSUME NEW g \in Handler, Goes(h, g), CallAdds(h) => CallAdds(g)'
      PROVE  AddedOK'
    <2>1. hnd' \subseteq hnd \cup {g} /\ joined' = joined /\ CallAdds(g)'
        BY <1>2, <1>8 DEF Goes
    <2> QED
        BY <1>5, <1>6, <2>1 DEF AddedOK, InHistory
<1> QED
    BY <1>4, <1>7, <1>8 DEF Outcome

\* The crash of a node takes the calls on it along.
LEMMA CrashHistory ==
    ASSUME RaftOK, RaftOK', CallsOK, HistoryOK, AddedOK, NEW n \in Node, Crash(n)
    PROVE  HistoryOK' /\ AddedOK'
<1>1. /\ leads' = [leads EXCEPT ![n] = FALSE] /\ commit' = [commit EXCEPT ![n] = 0]
      /\ term' = [term EXCEPT ![n] = IF InMem THEN 0 ELSE term[n]]
      /\ log' = [log EXCEPT ![n] = IF InMem THEN <<>> ELSE log[n]]
      /\ hnd' = {IF h.for = n THEN [h EXCEPT !.live = FALSE] ELSE h :
                   h \in {g \in hnd : g.at # n}}
      /\ UNCHANGED <<chosen, joined>>
    BY DEF Crash
<1>2. \A p \in Node : /\ Len(log[p]) \in Nat /\ Len(log'[p]) \in Nat /\ term'[p] \in Nat
                     /\ term[p] \in Nat
    BY LenProperties DEF RaftOK
<1>3. HistoryOK'
    <2>1. Len(chosen) \in Nat
        BY LenProperties DEF RaftOK
    <2>2. \A p \in Node : \/ commit'[p] = 0
                         \/ /\ commit'[p] = commit[p]
                            /\ \A k \in 1 .. commit[p] : log'[p][k] = log[p][k]
        BY <1>1 DEF RaftOK
    <2> QED
        BY <1>1, <2>1, <2>2, HistoryKept
<1>4. ASSUME NEW g \in hnd'
      PROVE  CallAdds(g)'
    <2>1. PICK h \in hnd : /\ h.at # n
                          /\ g = IF h.for = n THEN [h EXCEPT !.live = FALSE] ELSE h
        BY <1>1
    <2>2. h \in Handler /\ h.at \in Node /\ CallAdds(h)
        BY DEF CallsOK, Handler, AddedOK
    <2>3. /\ g \in Handler /\ g.for = h.for /\ g.at = h.at /\ g.phase = h.phase
          /\ g.idx = h.idx /\ g.term = h.term /\ g.won = h.won
        <3>1. CASE h.for = n
            BY <2>1, <2>2, <3>1 DEF Handler
        <3>2. CASE h.for # n
            BY <2>1, <2>2, <3>2
        <3> QED
            BY <3>1, <3>2
    <2>4. term'[h.at] = term[h.at] /\ log'[h.at] = log[h.at] /\ leads'[h.at] = leads[h.at]
        BY <1>1, <2>1, <2>2 DEF RaftOK
    <2> QED
        BY <1>1, <1>2, <2>2, <2>3, <2>4, CallKept
<1> QED
    BY <1>1, <1>3, <1>4 DEF AddedOK, InHistory

\* The start of a node changes no log that holds anything.
LEMMA OpenHistory ==
    ASSUME RaftOK, RaftOK', CallsOK, HistoryOK, AddedOK, NEW n \in Node, Open(n)
    PROVE  HistoryOK' /\ AddedOK'
<1>1. /\ ~up[n] /\ UNCHANGED <<leads, commit, chosen, hnd, joined>>
      /\ term' = [term EXCEPT ![n] = IF Boots(n) THEN 1 ELSE term[n]]
      /\ \A p \in Node \ {n} : log'[p] = log[p]
      /\ ~Boots(n) => log'[n] = log[n]
    BY DEF Open, RaftOK
<1>2. Boots(n) => term[n] = 0 /\ Len(log[n]) = 0
    <2>1. ASSUME Boots(n) PROVE log[n] = <<>> /\ term[n] = 0
        BY <2>1 DEF Boots
    <2> QED
        BY <2>1, EmptyLen DEF RaftOK
<1>3. \A p \in Node : Len(log[p]) \in Nat /\ term[p] \in Nat /\ commit[p] \in Nat
    BY LenProperties DEF RaftOK
<1>4. ~leads[n] /\ \A p \in Node : term[p] <= term'[p]
    BY <1>1, <1>2, <1>3 DEF RaftOK
<1>5. \A p \in Node : \A k \in 1 .. Len(log[p]) : log'[p][k] = log[p][k]
    BY <1>1, <1>2
<1>6. \A p \in Node : leads'[p] =>
         /\ leads[p] /\ Len(log[p]) <= Len(log'[p])
         /\ \A k \in 1 .. Len(log[p]) : log'[p][k] = log[p][k]
    BY <1>1, <1>3, <1>4, <1>5
<1>7. AddedOK'
    BY <1>1, <1>4, <1>6, AddedKept DEF CallsOK
<1>8. \A p \in Node : commit'[p] = commit[p] /\ \A k \in 1 .. commit[p] : log'[p][k] = log[p][k]
    BY <1>1, <1>3, <1>5 DEF RaftOK
<1>9. Len(chosen) \in Nat
    BY LenProperties DEF RaftOK
<1> QED
    BY <1>1, <1>7, <1>8, <1>9, HistoryKept

\* An election: what the voters had committed as leaders is not theirs any more.
LEMMA ElectHistory ==
    ASSUME RaftOK, RaftOK', CallsOK, HistoryOK, AddedOK, NEW n \in Node, Elect(n)
    PROVE  HistoryOK' /\ AddedOK'
<1>1. PICK Q \in SUBSET Listening(Conf(n)) : \E T \in {term[q] + 1 : q \in Q} :
        /\ n \in Q /\ \A q \in Q : term[q] < T
        /\ term' = [q \in Node |-> IF q \in Q THEN T ELSE term[q]]
        /\ leads' = [q \in Node |-> q = n \/ (leads[q] /\ q \notin Q)]
        /\ \A p \in Node \ {n} : log'[p] = log[p]
        /\ commit' = [q \in Node |-> IF q \in Q THEN 0 ELSE commit[q]]
        /\ UNCHANGED <<hnd, joined, chosen>>
    BY DEF Elect, RaftOK
<1>2. \A p \in Node : term[p] \in Nat /\ Len(log[p]) \in Nat
    BY LenProperties DEF RaftOK
<1>3. /\ \A p \in Node : term[p] <= term'[p]
      /\ \A p \in Q : term[p] < term'[p] /\ commit'[p] = 0
      /\ \A p \in Node \ Q : /\ log'[p] = log[p] /\ commit'[p] = commit[p]
                             /\ leads'[p] = leads[p]
    BY <1>1, <1>2 DEF Listening, RaftOK
<1>4. Q \subseteq Node /\ UNCHANGED <<hnd, joined, chosen>>
    BY <1>1 DEF Listening
<1>5. \A p \in Node : leads'[p] =>
         \/ term[p] < term'[p]
         \/ /\ leads[p] /\ Len(log[p]) <= Len(log'[p])
            /\ \A k \in 1 .. Len(log[p]) : log'[p][k] = log[p][k]
    BY <1>2, <1>3
<1>6. AddedOK'
    BY <1>3, <1>4, <1>5, AddedKept DEF CallsOK
<1>7. Len(chosen) \in Nat
    BY LenProperties DEF RaftOK
<1>8. \A p \in Node : \/ commit'[p] = 0
                     \/ /\ commit'[p] = commit[p]
                        /\ \A k \in 1 .. commit[p] : log'[p][k] = log[p][k]
    BY <1>3
<1> QED
    BY <1>4, <1>6, <1>7, <1>8, HistoryKept

\* The leader's log on another node, which then does not lead.
LEMMA ReplicateHistory ==
    ASSUME RaftOK, RaftOK', CallsOK, HistoryOK, AddedOK, NEW l \in Node, NEW p \in Node,
           Replicate(l, p)
    PROVE  HistoryOK' /\ AddedOK'
<1>1. /\ leads' = [leads EXCEPT ![p] = FALSE] /\ term' = [term EXCEPT ![p] = term[l]]
      /\ log' = [log EXCEPT ![p] = log[l]] /\ commit' = [commit EXCEPT ![p] = 0]
      /\ term[p] <= term[l] /\ UNCHANGED <<hnd, joined, chosen>>
    BY DEF Replicate
<1>2. \A n \in Node : term[n] \in Nat /\ Len(log[n]) \in Nat
    BY LenProperties DEF RaftOK
<1>3. \A n \in Node : term[n] <= term'[n]
    BY <1>1, <1>2 DEF RaftOK
<1>4. /\ ~leads'[p] /\ commit'[p] = 0
      /\ \A n \in Node \ {p} : /\ log'[n] = log[n] /\ commit'[n] = commit[n]
                              /\ leads'[n] = leads[n]
    BY <1>1 DEF RaftOK
<1>5. \A n \in Node : leads'[n] => /\ leads[n] /\ Len(log[n]) <= Len(log'[n])
                                  /\ \A k \in 1 .. Len(log[n]) : log'[n][k] = log[n][k]
    BY <1>2, <1>4
<1>6. AddedOK'
    BY <1>1, <1>3, <1>5, AddedKept DEF CallsOK
<1>7. Len(chosen) \in Nat
    BY LenProperties DEF RaftOK
<1>8. \A n \in Node : \/ commit'[n] = 0
                     \/ /\ commit'[n] = commit[n]
                        /\ \A k \in 1 .. commit[n] : log'[n][k] = log[n][k]
    BY <1>4
<1> QED
    BY <1>1, <1>6, <1>7, <1>8, HistoryKept

\* A leader that gives up.
LEMMA StepDownHistory ==
    ASSUME RaftOK, RaftOK', CallsOK, HistoryOK, AddedOK, NEW l \in Node, StepDown(l)
    PROVE  HistoryOK' /\ AddedOK'
<1>1. /\ leads' = [leads EXCEPT ![l] = FALSE] /\ commit' = [commit EXCEPT ![l] = 0]
      /\ UNCHANGED <<term, log, hnd, joined, chosen>>
    BY DEF StepDown
<1>2. \A n \in Node : term[n] \in Nat /\ Len(log[n]) \in Nat
    BY LenProperties DEF RaftOK
<1>3. /\ \A n \in Node : term[n] <= term'[n]
      /\ \A n \in Node : leads'[n] =>
            /\ leads[n] /\ Len(log[n]) <= Len(log'[n])
            /\ \A k \in 1 .. Len(log[n]) : log'[n][k] = log[n][k]
    BY <1>1, <1>2 DEF RaftOK
<1>4. AddedOK'
    BY <1>1, <1>3, AddedKept DEF CallsOK
<1>5. Len(chosen) \in Nat
    BY LenProperties DEF RaftOK
<1>6. \A n \in Node : \/ commit'[n] = 0
                     \/ /\ commit'[n] = commit[n]
                        /\ \A k \in 1 .. commit[n] : log'[n][k] = log[n][k]
    BY <1>1 DEF RaftOK
<1> QED
    BY <1>1, <1>4, <1>5, <1>6, HistoryKept

\* RaftStore.Set on the leader.
LEMMA SetHistory ==
    ASSUME RaftOK, RaftOK', CallsOK, HistoryOK, AddedOK, NEW l \in Node, Set(l)
    PROVE  HistoryOK' /\ AddedOK'
<1>1. Appended(l, "set", Conf(l)) /\ UNCHANGED <<leads, term, commit, chosen, hnd, joined>>
    BY DEF Set
<1>2. Conf(l) \in SUBSET Node
    BY ConfOK
<1>3. HistoryOK' /\ \A n \in Node : /\ Len(log[n]) <= Len(log'[n])
                                   /\ \A k \in 1 .. Len(log[n]) : log'[n][k] = log[n][k]
    BY <1>1, <1>2, AppendHistory
<1>4. \A n \in Node : term[n] <= term'[n] /\ leads'[n] = leads[n]
    BY <1>1 DEF RaftOK
<1> QED
    BY <1>1, <1>3, <1>4, AddedKept DEF CallsOK

\* Calls that come in, and joiners that lose theirs.
SameCalls ==
    \A g \in hnd' :
        \/ \E h \in hnd : /\ g.for = h.for /\ g.at = h.at /\ g.phase = h.phase
                          /\ g.idx = h.idx /\ g.term = h.term /\ g.won = h.won
        \/ g.phase \in {"walk", "drop"} /\ g.won = NoWin

\* Steps that leave logs, commits and calls alone keep the history.
LEMMA QuietHistory ==
    ASSUME HistoryOK, AddedOK, UNCHANGED <<leads, term, log, commit, chosen, joined>>,
           SameCalls
    PROVE  HistoryOK' /\ AddedOK'
<1>1. HistoryOK'
    BY DEF HistoryOK
<1>2. ASSUME NEW g \in hnd'
      PROVE  CallAdds(g)'
    BY DEF SameCalls, AddedOK, CallAdds, InHistory, NoWin
<1> QED
    BY <1>1, <1>2 DEF AddedOK, InHistory

-----------------------------------------------------------------------------
(* The invariant. *)

MemberInv == RaftOK /\ CallsOK

\* The log of the cluster that the nodes are started with.
LEMMA FormedLogOK ==
    /\ FormedLog \in Seq(Entry)
    /\ \A i \in 1 .. Len(FormedLog) : Valid(FormedLog[i].conf)
    /\ Formed # {} => Len(FormedLog) = 3 /\ First \subseteq Node
<1>1. CASE Formed = {}
    BY <1>1 DEF FormedLog
<1>2. CASE Formed # {}
    <2>1. PICK b \in Formed : JoinAddrs[b] # <<>> => Head(JoinAddrs[b]) = b
        BY <1>2, FormedAssumption
    <2>2. (CHOOSE a \in Formed : Bootstrap(a)) \in Formed
        BY <2>1 DEF Bootstrap
    <2>3. PICK f \in Formed : First = {f}
        BY <2>2 DEF First
    <2>4. First \in SUBSET Node /\ Formed \in SUBSET Node /\ Valid(First) /\ Valid(Formed)
        BY <1>2, <2>3, FormedAssumption DEF Valid
    <2>5. FormedLog = <<[term |-> 1, kind |-> "boot", conf |-> First],
                        [term |-> 2, kind |-> "noop", conf |-> First],
                        [term |-> 2, kind |-> "conf", conf |-> Formed]>>
        BY <1>2 DEF FormedLog
    <2> HIDE DEF First
    <2>6. FormedLog \in Seq(Entry) /\ Len(FormedLog) = 3
        BY <2>4, <2>5 DEF Entry
    <2>7. /\ FormedLog[1].conf = First /\ FormedLog[2].conf = First
          /\ FormedLog[3].conf = Formed
        BY <2>5
    <2> QED
        BY <2>4, <2>6, <2>7
<1> QED
    BY <1>1, <1>2

\* It holds at first.
LEMMA InitMember ==
    Init => MemberInv /\ HistoryOK /\ AddedOK
<1> SUFFICES ASSUME Init PROVE MemberInv /\ HistoryOK /\ AddedOK
    OBVIOUS
<1>1. PICK l \in Node : /\ Formed # {} => l \in Formed
                       /\ leads = [n \in Node |-> n = l /\ n \in Formed]
    BY DEF Init
<1>2. Len(FormedLog) \in Nat /\ <<>> \in Seq(Entry) /\ Len(<<>>) = 0
    BY FormedLogOK, LenProperties, EmptySeq
<1>3. /\ log = [n \in Node |-> IF n \in Formed THEN FormedLog ELSE <<>>]
      /\ commit = [n \in Node |-> IF leads[n] THEN Len(FormedLog) ELSE 0]
      /\ term = [n \in Node |-> IF n \in Formed THEN 2 ELSE 0]
      /\ up = [n \in Node |-> n \in Formed] /\ halted = {} /\ chosen = FormedLog
      /\ hnd = {} /\ joined = [n \in Node |-> NoWin]
      /\ join = [n \in Node |-> IF n \in Formed THEN "done" ELSE "off"]
      /\ peers = [n \in Node |-> IF n \in Formed /\ n \in First
                                THEN WholeFile(Formed) ELSE NoFile]
    BY DEF Init
<1>4. \A n \in Node : leads[n] => n \in Formed
    BY <1>1
<1>5. ASSUME NEW n \in Node
      PROVE  /\ log[n] \in Seq(Entry)
             /\ \A i \in 1 .. Len(log[n]) : Valid(log[n][i].conf)
             /\ commit[n] <= Len(log[n]) /\ commit[n] \in Nat
             /\ leads[n] => up[n] /\ Len(log[n]) > 0
             /\ commit[n] <= Len(chosen)
             /\ \A k \in 1 .. commit[n] : log[n][k] = chosen[k]
    <2>1. CASE n \in Formed
        <3>1. log[n] = FormedLog /\ up[n] /\ (commit[n] = 0 \/ commit[n] = Len(FormedLog))
            BY <1>3, <2>1
        <3>2. /\ Len(FormedLog) = 3 /\ FormedLog \in Seq(Entry)
              /\ \A i \in 1 .. Len(FormedLog) : Valid(FormedLog[i].conf)
            BY <2>1, FormedLogOK
        <3>3. chosen = FormedLog
            BY <1>3
        <3>4. up[n] /\ Len(log[n]) > 0
            BY <3>1, <3>2
        <3>5. /\ log[n] \in Seq(Entry)
              /\ \A i \in 1 .. Len(log[n]) : Valid(log[n][i].conf)
            BY <3>1, <3>2
        <3>6. /\ commit[n] <= Len(log[n]) /\ commit[n] \in Nat
              /\ commit[n] <= Len(chosen)
              /\ \A k \in 1 .. commit[n] : log[n][k] = chosen[k]
            <4>1. log[n] = chosen /\ Len(chosen) = 3 /\ commit[n] \in {0, 3}
                BY <3>1, <3>2, <3>3
            <4> QED
                BY <4>1
        <3> QED
            BY <3>4, <3>5, <3>6
    <2>2. CASE n \notin Formed
        <3>1. log[n] = <<>>
            BY <1>3, <2>2
        <3>2. ~leads[n] /\ commit[n] = 0
            BY <1>3, <1>4, <2>2
        <3>3. Len(log[n]) = 0 /\ log[n] \in Seq(Entry)
            BY <1>2, <3>1
        <3>4. Len(chosen) \in Nat
            BY <1>2, <1>3
        <3> QED
            BY <3>2, <3>3, <3>4
    <2> QED
        BY <2>1, <2>2
<1>6. log \in [Node -> Seq(Entry)] /\ commit \in [Node -> Nat]
    <2>1. log \in [Node -> Seq(Entry)]
        BY <1>2, <1>3, FormedLogOK
    <2>2. commit \in [Node -> Nat]
        BY <1>2, <1>3
    <2> QED
        BY <2>1, <2>2
<1>7. RaftOK
    BY <1>1, <1>3, <1>5, <1>6, FormedLogOK DEF RaftOK
<1>8. CallsOK
    <2>1. peers \in [Node -> PeerFile]
        BY <1>3, FormedAssumption DEF PeerFile
    <2>2. join \in [Node -> JoinState] /\ joined \in [Node -> Won]
        BY <1>3 DEF JoinState, Won, NoWin
    <2>3. \A n \in Node : join[n] \notin Waits /\ (up[n] <=> join[n] # "off")
        BY <1>3 DEF Waits
    <2> QED
        BY <1>3, <2>1, <2>2, <2>3 DEF CallsOK
<1>9. HistoryOK
    BY <1>5 DEF HistoryOK
<1>10. AddedOK
    BY <1>3 DEF AddedOK, NoWin
<1> QED
    BY <1>7, <1>8, <1>9, <1>10 DEF MemberInv

\* Every step keeps it, and with raft's promise what it says of the history.
LEMMA NextMember ==
    ASSUME MemberInv, [Next]_vars
    PROVE  /\ MemberInv'
           /\ HistoryOK /\ AddedOK /\ CommitsAgree => HistoryOK' /\ AddedOK'
<1> USE DEF MemberInv
<1>1. up \in [Node -> BOOLEAN] /\ hnd \subseteq Handler
    BY DEF RaftOK, CallsOK
<1>2. ASSUME NEW n \in Node, Elect(n)
      PROVE  RaftOK' /\ CallsOK' /\ (HistoryOK /\ AddedOK => HistoryOK' /\ AddedOK')
    <2>1. UNCHANGED <<up, peers, join, hnd, joined>>
        BY <1>2 DEF Elect
    <2>2. CallsOK'
        BY <2>1 DEF CallsOK
    <2> QED
        BY <1>2, <2>2, ElectStep, ElectHistory
<1>3. ASSUME NEW n \in Node, Commit(n)
      PROVE  /\ RaftOK' /\ CallsOK'
             /\ HistoryOK /\ AddedOK /\ CommitsAgree => HistoryOK' /\ AddedOK'
    BY <1>3, CommitStep, CommitCalls, CommitHistory
<1>4. ASSUME NEW n \in Node, StepDown(n)
      PROVE  RaftOK' /\ CallsOK' /\ (HistoryOK /\ AddedOK => HistoryOK' /\ AddedOK')
    <2>1. UNCHANGED <<up, peers, join, hnd, joined>>
        BY <1>4 DEF StepDown
    <2>2. CallsOK'
        BY <2>1 DEF CallsOK
    <2> QED
        BY <1>4, <2>2, StepDownStep, StepDownHistory
<1>5. ASSUME NEW n \in Node, Set(n)
      PROVE  RaftOK' /\ CallsOK' /\ (HistoryOK /\ AddedOK => HistoryOK' /\ AddedOK')
    <2>1. UNCHANGED <<up, peers, join, hnd, joined>>
        BY <1>5 DEF Set
    <2>2. CallsOK'
        BY <2>1 DEF CallsOK
    <2>3. /\ leads[n] /\ Appended(n, "set", Conf(n))
          /\ UNCHANGED <<up, leads, term, commit, chosen, halted>>
        BY <1>5 DEF Set
    <2>4. Conf(n) \in SUBSET Node /\ Valid(Conf(n))
        BY <2>3, ConfOK DEF RaftOK
    <2>5. RaftOK'
        BY <2>3, <2>4, AppendStep
    <2> QED
        BY <1>5, <2>2, <2>5, SetHistory
<1>6. ASSUME NEW n \in Node, NEW p \in Node, Replicate(n, p)
      PROVE  RaftOK' /\ CallsOK' /\ (HistoryOK /\ AddedOK => HistoryOK' /\ AddedOK')
    <2>1. UNCHANGED <<up, peers, join, hnd, joined>>
        BY <1>6 DEF Replicate
    <2>2. CallsOK'
        BY <2>1 DEF CallsOK
    <2> QED
        BY <1>6, <2>2, ReplicateStep, ReplicateHistory
<1>7. ASSUME NEW n \in Node, Open(n)
      PROVE  RaftOK' /\ CallsOK' /\ (HistoryOK /\ AddedOK => HistoryOK' /\ AddedOK')
    BY <1>1, <1>7, OpenStep, OpenCalls, OpenHistory
<1>8. ASSUME NEW n \in Node, Crash(n)
      PROVE  RaftOK' /\ CallsOK' /\ (HistoryOK /\ AddedOK => HistoryOK' /\ AddedOK')
    BY <1>1, <1>8, CrashStep, CrashCalls, CrashHistory
<1>9. ASSUME NEW h \in hnd, Handle(h)
      PROVE  RaftOK' /\ CallsOK' /\ (HistoryOK /\ AddedOK => HistoryOK' /\ AddedOK')
    <2>1. Outcome(h) /\ h \in Handler /\ h.at \in Node
        BY <1>1, <1>9, HandleOutcome DEF Handler
    <2>2. UNCHANGED <<up, leads, term, commit, chosen, halted>> /\ peers' \in [Node -> PeerFile]
        BY <2>1 DEF Outcome
    <2>3. RaftOK'
        <3>1. CASE log' = log
            BY <2>2, <3>1, RaftIdle DEF raftVars
        <3>2. CASE TakesEntry(h.at)
            BY <2>1, <2>2, <3>2, AppendStep DEF TakesEntry
        <3> QED
            BY <2>1, <3>1, <3>2 DEF Outcome
    <2>4. CallsOK'
        BY <2>1, <2>2, AnswerStep, GoesStep DEF Outcome
    <2> QED
        BY <2>1, <2>3, <2>4, CallHistory
<1>11. ASSUME UNCHANGED <<up, raftVars, joined>>,
              SameCalls
       PROVE  RaftOK' /\ (HistoryOK /\ AddedOK => HistoryOK' /\ AddedOK')
    <2>1. UNCHANGED <<leads, term, log, commit, chosen, joined>>
        BY <1>11 DEF raftVars
    <2> QED
        BY <1>11, <2>1, RaftIdle, QuietHistory
<1>12. ASSUME NEW n \in Node, NEW l \in Node, NEW next \in Waits,
              join[n] \in {"recover", "loop"}, Ask(n, l, next)
       PROVE  RaftOK' /\ CallsOK' /\ (HistoryOK /\ AddedOK => HistoryOK' /\ AddedOK')
    <2>1. /\ hnd' = hnd \cup {NewHandler(n, l, "walk", TRUE)}
          /\ UNCHANGED <<up, raftVars, joined>>
        BY <1>12 DEF Ask
    <2>2. \A g \in hnd' : g \in hnd \/ (g.phase = "walk" /\ g.won = NoWin)
        BY <2>1 DEF NewHandler
    <2>3. SameCalls
        BY <2>2 DEF SameCalls
    <2>4. UNCHANGED <<up, raftVars, joined>>
        BY <2>1
    <2> QED
        BY <1>11, <1>12, <2>3, <2>4, AskStep
<1>13. ASSUME NEW n \in Node, Recover(n)
       PROVE  RaftOK' /\ CallsOK' /\ (HistoryOK /\ AddedOK => HistoryOK' /\ AddedOK')
    <2>1. PICK l \in peers[n].servers \ {n} : Ask(n, l, "recovering")
        BY <1>13 DEF Recover
    <2>2. peers[n] \in PeerFile
        BY DEF CallsOK
    <2>3. peers[n].servers \subseteq Node
        BY <2>2 DEF PeerFile, NoFile, TornFile, WholeFile
    <2>4. join[n] = "recover" /\ "recovering" \in Waits
        BY <1>13 DEF Recover, Waits
    <2> QED
        BY <1>12, <2>1, <2>3, <2>4
<1>14. ASSUME NEW n \in Node, Post(n)
       PROVE  RaftOK' /\ CallsOK' /\ (HistoryOK /\ AddedOK => HistoryOK' /\ AddedOK')
    <2>1. PICK l \in Node : Ask(n, l, "posted")
        BY <1>14 DEF Post, LeadServer
    <2>2. join[n] = "loop" /\ "posted" \in Waits
        BY <1>14 DEF Post, Waits
    <2> QED
        BY <1>12, <2>1, <2>2
<1>15. ASSUME NEW n \in Node, RecoverSkipped(n) \/ CheckJoined(n)
       PROVE  RaftOK' /\ CallsOK' /\ (HistoryOK /\ AddedOK => HistoryOK' /\ AddedOK')
    <2>1. /\ UNCHANGED <<up, raftVars, peers, hnd, joined>>
          /\ join[n] \in {"recover", "check"}
          /\ \E next \in {"loop", "done"} : join' = [join EXCEPT ![n] = next]
        BY <1>15 DEF RecoverSkipped, CheckJoined, AfterOpen
    <2>2. CallsOK'
        BY <2>1, JoinerStep
    <2>3. SameCalls
        BY <2>1 DEF SameCalls
    <2>4. UNCHANGED <<up, raftVars, joined>>
        BY <2>1
    <2> QED
        BY <1>11, <2>2, <2>3, <2>4
<1>16. ASSUME NEW n \in Node, NEW l \in Node, NEW phase \in {"walk", "drop"},
              hnd' = hnd \cup {NewHandler(n, l, phase, FALSE)},
              UNCHANGED <<up, raftVars, peers, join, joined>>
       PROVE  RaftOK' /\ CallsOK' /\ (HistoryOK /\ AddedOK => HistoryOK' /\ AddedOK')
    <2>1. /\ NewHandler(n, l, phase, FALSE) \in Handler
          /\ ~NewHandler(n, l, phase, FALSE).live
          /\ NewHandler(n, l, phase, FALSE).phase = phase
          /\ NewHandler(n, l, phase, FALSE).won = NoWin
        BY DEF NewHandler, Handler, Won, NoWin
    <2>2. CallsOK'
        BY <1>16, <2>1, DeadCall
    <2>3. \A g \in hnd' : g \in hnd \/ (g.phase \in {"walk", "drop"} /\ g.won = NoWin)
        BY <1>16, <2>1
    <2>4. SameCalls
        BY <2>3 DEF SameCalls
    <2>5. UNCHANGED <<up, raftVars, joined>>
        BY <1>16
    <2> QED
        BY <1>11, <2>2, <2>4, <2>5
<1>17. ASSUME NEW n \in Node, JoinNodesFromLeader(n)
       PROVE  RaftOK' /\ CallsOK' /\ (HistoryOK /\ AddedOK => HistoryOK' /\ AddedOK')
    <2>1. PICK l \in Node : hnd' = hnd \cup {NewHandler(n, l, "walk", FALSE)}
        BY <1>17 DEF JoinNodesFromLeader, LeadServer
    <2>2. UNCHANGED <<up, raftVars, peers, join, joined>>
        BY <1>17 DEF JoinNodesFromLeader
    <2> QED
        BY <1>16, <2>1, <2>2
<1>18. ASSUME NEW n \in Node, NEW s \in Node, Remove(n, s)
       PROVE  RaftOK' /\ CallsOK' /\ (HistoryOK /\ AddedOK => HistoryOK' /\ AddedOK')
    <2>1. /\ hnd' = hnd \cup {NewHandler(s, n, "drop", FALSE)}
          /\ UNCHANGED <<up, raftVars, peers, join, joined>>
        BY <1>18 DEF Remove
    <2> QED
        BY <1>16, <2>1
<1>19. ASSUME NEW h \in hnd, ConnectionLost(h)
       PROVE  RaftOK' /\ CallsOK' /\ (HistoryOK /\ AddedOK => HistoryOK' /\ AddedOK')
    <2>1. /\ hnd' = (hnd \ {h}) \cup {[h EXCEPT !.live = FALSE]}
          /\ UNCHANGED <<up, raftVars, joined>>
        BY <1>19 DEF ConnectionLost
    <2>2. LET g == [h EXCEPT !.live = FALSE]
          IN  /\ g.for = h.for /\ g.at = h.at /\ g.phase = h.phase /\ g.idx = h.idx
              /\ g.term = h.term /\ g.won = h.won
        BY <1>1 DEF Handler
    <2>3. SameCalls
        BY <2>1, <2>2 DEF SameCalls
    <2>4. UNCHANGED <<up, raftVars, joined>>
        BY <2>1
    <2> QED
        BY <1>11, <1>19, <2>3, <2>4, ConnectionLostStep
<1>20. CASE UNCHANGED vars
    BY <1>20 DEF vars, RaftOK, CallsOK, HistoryOK, AddedOK, CallAdds, InHistory, Valid
<1> QED
    BY <1>2, <1>3, <1>4, <1>5, <1>6, <1>7, <1>8, <1>9, <1>13, <1>14, <1>15, <1>17,
       <1>18, <1>19, <1>20 DEF Next, RaftStep, NodeStep

-----------------------------------------------------------------------------
(* Theorems. *)

\* The invariant gives the types.
LEMMA MemberTypes ==
    MemberInv => TypeOK
<1> SUFFICES ASSUME MemberInv PROVE TypeOK
    OBVIOUS
<1>1. \A n \in Node : DOMAIN log[n] = 1 .. Len(log[n])
    BY LenProperties DEF MemberInv, RaftOK
<1>2. /\ up \in [Node -> BOOLEAN] /\ leads \in [Node -> BOOLEAN]
      /\ term \in [Node -> Nat] /\ log \in [Node -> Seq(Entry)]
      /\ commit \in [Node -> Nat] /\ chosen \in Seq(Entry)
      /\ \A n \in Node : commit[n] <= Len(log[n])
      /\ halted \subseteq {n \in Node : up[n] /\ ~leads[n]}
    BY DEF MemberInv, RaftOK
<1>3. \A n \in Node : \A i \in DOMAIN log[n] : Valid(log[n][i].conf)
    BY <1>1 DEF MemberInv, RaftOK
<1>4. /\ peers \in [Node -> PeerFile] /\ join \in [Node -> JoinState]
      /\ hnd \subseteq Handler /\ joined \in [Node -> Won]
      /\ \A n \in Node : join[n] \in Waits <=> \E h \in hnd : h.for = n /\ h.live
    BY DEF MemberInv, CallsOK
<1> QED
    BY <1>2, <1>3, <1>4, Zenon DEF TypeOK, PeerFile, JoinState, Waits

\* Types, for any number of nodes, crashes, joins and removals.  No configuration
\* that raft is given is empty or lists two servers at one address, although Join
\* removes and adds servers in separate entries and on an uncommitted configuration;
\* a joiner waits exactly as long as one call of handleJoin will answer it.
THEOREM MembershipTypes == Spec => []TypeOK
<1>1. Init => MemberInv
    BY InitMember
<1>2. MemberInv /\ [Next]_vars => MemberInv'
    BY NextMember
<1>3. MemberInv => TypeOK
    BY MemberTypes
<1> QED
    BY <1>1, <1>2, <1>3, PTL DEF Spec

\* The entry by entry form of the history gives the properties.
LEMMA HistoryProperties ==
    ASSUME RaftOK, HistoryOK, AddedOK
    PROVE  OneHistory /\ AddedStays
<1>1. ASSUME NEW n \in Node
      PROVE  IsPrefixOf(SubSeq(log[n], 1, commit[n]), chosen)
    <2> DEFINE s == SubSeq(log[n], 1, commit[n])
    <2>1. /\ log[n] \in Seq(Entry) /\ chosen \in Seq(Entry) /\ commit[n] \in Nat
          /\ Len(log[n]) \in Nat /\ commit[n] <= Len(log[n])
        BY LenProperties DEF RaftOK
    <2>2. \A k \in 1 .. commit[n] : log[n][k] \in Entry
        BY <2>1, ElementOfSeq
    <2>3. /\ s \in Seq(Entry) /\ Len(s) = commit[n]
          /\ \A k \in 1 .. commit[n] : s[k] = log[n][k]
        BY <2>1, <2>2, SubSeqProperties
    <2> HIDE DEF s
    <2>4. Len(s) <= Len(chosen) /\ \A k \in 1 .. Len(s) : s[k] = chosen[k]
        BY <2>3 DEF HistoryOK
    <2>5. IsPrefixOf(s, chosen)
        BY <2>1, <2>3, <2>4, PrefixEntries
    <2> QED
        BY <2>5 DEF s
<1>2. AddedStays
    <2>1. Len(chosen) \in Nat
        BY LenProperties DEF RaftOK
    <2> QED
        BY <2>1 DEF AddedOK, InHistory, AddedStays
<1> QED
    BY <1>1, <1>2 DEF OneHistory

\* With raft's promise the invariant and what it says of the history always hold.
LEMMA HistoryAlways == Spec /\ []CommitsAgree => [](MemberInv /\ HistoryOK /\ AddedOK)
<1>1. Init => MemberInv /\ HistoryOK /\ AddedOK
    BY InitMember
<1>2. MemberInv /\ HistoryOK /\ AddedOK /\ CommitsAgree /\ [Next]_vars
        => MemberInv' /\ HistoryOK' /\ AddedOK'
    BY NextMember
<1> QED
    BY <1>1, <1>2, PTL DEF Spec

\* When raft keeps its promise, all that leaders ever count as committed is one
\* history, through every bootstrap, crash, restart, join and removal of the code
\* above it.
THEOREM HistoryIsOne == Spec /\ []CommitsAgree => []OneHistory
<1>1. MemberInv /\ HistoryOK /\ AddedOK => OneHistory
    BY HistoryProperties DEF MemberInv
<1> QED
    BY <1>1, HistoryAlways, PTL

\* When raft keeps its promise, a join that was answered OK after AddVoter stays:
\* the entry the answer refers to is in the history and lists the node, however
\* leaders change between AddVoter, the answer of its future, the writing of
\* peers.json, saveCluster and the answer to the joiner.
THEOREM AddedServersStay == Spec /\ []CommitsAgree => []AddedStays
<1>1. MemberInv /\ HistoryOK /\ AddedOK => AddedStays
    BY HistoryProperties DEF MemberInv
<1> QED
    BY <1>1, HistoryAlways, PTL

-----------------------------------------------------------------------------
(* Addresses. *)

\* What a flag that was given says: an address of the machine itself.
LEMMA FlagOK ==
    ASSUME NEW f \in Flags
    PROVE  /\ f.ip \in MainIP
           /\ \A a \in f.http \cup f.raft :
                 /\ a \in [host : LocalNames \cup {f.ip}, port : Nat]
           /\ f.http = {} \/ \E a \in f.http : f.http = {a}
           /\ f.raft = {} \/ \E a \in f.raft : f.raft = {a}
<1>1. PICK ip \in MainIP :
        f \in [ip : {ip}, http : Flag(LocalNames \cup {ip}),
               raft : Flag(LocalNames \cup {ip}),
               rjoin : {<<>>} \cup {<<a>> : a \in HostPorts(LocalNames \cup MainIP)}]
    BY DEF Flags
<1>2. f.ip = ip /\ f.http \in Flag(LocalNames \cup {ip}) /\ f.raft \in Flag(LocalNames \cup {ip})
    BY <1>1
<1>3. ASSUME NEW x \in Flag(LocalNames \cup {ip})
      PROVE  /\ \A a \in x : a \in [host : LocalNames \cup {ip}, port : Nat]
             /\ x = {} \/ \E a \in x : x = {a}
    <2>1. x = {} \/ \E h \in LocalNames \cup {ip}, n \in Port : x = {HostPort(h, n)}
        BY DEF Flag, HostPorts
    <2>2. \A h \in LocalNames \cup {ip}, n \in Port :
             HostPort(h, n) \in [host : LocalNames \cup {ip}, port : Nat]
        BY PortAssumption DEF HostPort
    <2> QED
        BY <2>1, <2>2
<1> QED
    BY <1>1, <1>2, <1>3

\* fixAddrHost makes the main IP of every local host, and that of its result too.
LEMMA FixedHost ==
    ASSUME NEW ip, NEW a \in [host : LocalNames \cup {ip}, port : Nat]
    PROVE  fixAddrHost(a, ip) = HostPort(ip, a.port)
<1>1. isLocalHost(a.host, ip)
    BY DEF isLocalHost, ParseIps, LocalNames
<1> QED
    BY <1>1 DEF fixAddrHost

\* The pairs that fixAddr gives: both hosts are the main IP.
LEMMA FixedPair ==
    ASSUME NEW f \in Flags, NEW p \in fixAddr(f, f.ip)
    PROVE  \E h \in Int, r \in Int : p = [http |-> HostPort(f.ip, h), raft |-> HostPort(f.ip, r)]
<1>1. \A a \in f.http \cup f.raft : /\ a.port \in Nat
                                   /\ fixAddrHost(a, f.ip) = HostPort(f.ip, a.port)
    BY FlagOK, FixedHost
<1>2. \A d \in Int, n \in Nat : Shift(HostPort(f.ip, n), d) = HostPort(f.ip, n + d)
    BY DEF Shift, HostPort
<1>3. CASE f.raft = {} /\ f.http = {}
    BY <1>3 DEF fixAddr
<1>4. CASE f.raft = {} /\ f.http # {}
    <2>1. PICK a \in f.http :
            p = [http |-> fixAddrHost(a, f.ip), raft |-> Shift(fixAddrHost(a, f.ip), 1000)]
        BY <1>4 DEF fixAddr
    <2>2. fixAddrHost(a, f.ip) = HostPort(f.ip, a.port) /\ a.port \in Nat
        BY <1>1
    <2>3. Shift(fixAddrHost(a, f.ip), 1000) = HostPort(f.ip, a.port + 1000)
        BY <2>2 DEF Shift, HostPort
    <2>4. p = [http |-> HostPort(f.ip, a.port), raft |-> HostPort(f.ip, a.port + 1000)]
        BY <2>1, <2>2, <2>3
    <2> QED
        BY <1>1, <2>4
<1>5. CASE f.raft # {} /\ f.http = {}
    <2>1. PICK a \in f.raft :
            p = [http |-> Shift(fixAddrHost(a, f.ip), -1000), raft |-> fixAddrHost(a, f.ip)]
        BY <1>5 DEF fixAddr
    <2>2. p = [http |-> HostPort(f.ip, a.port + (-1000)), raft |-> HostPort(f.ip, a.port)]
        BY <1>1, <1>2, <2>1
    <2>3. a.port + (-1000) \in Int /\ a.port \in Int
        BY <1>1
    <2> QED
        BY <2>2, <2>3
<1>6. CASE f.raft # {} /\ f.http # {}
    BY <1>1, <1>2, <1>6 DEF fixAddr
<1> QED
    BY <1>3, <1>4, <1>5, <1>6

\* What Arg.Fix makes of the flags.
LEMMA FixedArg ==
    ASSUME NEW f \in Flags, NEW a \in Fix(f)
    PROVE  \E h \in Int, r \in Int :
              /\ a.ip = f.ip /\ a.http = HostPort(f.ip, h) /\ a.raft = HostPort(f.ip, r)
              /\ a.id = [http |-> HostPort(f.ip, h), raft |-> HostPort(f.ip, r)]
              /\ a.joins = JoinAddrSlice(f.rjoin, f.ip)
              /\ a.bootstrap = parseBootstrap(JoinAddrSlice(f.rjoin, f.ip),
                                              HostPort(f.ip, h), f.ip)
<1>1. PICK p \in fixAddr(f, f.ip) :
        a = [ip |-> f.ip, http |-> p.http, raft |-> p.raft, id |-> FixNodeID(p, f.ip),
             joins |-> JoinAddrSlice(f.rjoin, f.ip),
             bootstrap |-> parseBootstrap(JoinAddrSlice(f.rjoin, f.ip), p.http, f.ip)]
    BY DEF Fix
<1>2. PICK h \in Int, r \in Int :
        p = [http |-> HostPort(f.ip, h), raft |-> HostPort(f.ip, r)]
    BY FixedPair
<1>3. p.http = HostPort(f.ip, h) /\ p.raft = HostPort(f.ip, r)
    BY <1>2
<1>4. FixNodeID(p, f.ip) = [http |-> HostPort(f.ip, h), raft |-> HostPort(f.ip, r)]
    BY <1>3 DEF FixNodeID, HostPort
<1>5. /\ a.ip = f.ip /\ a.http = p.http /\ a.raft = p.raft /\ a.id = FixNodeID(p, f.ip)
      /\ a.joins = JoinAddrSlice(f.rjoin, f.ip)
      /\ a.bootstrap = parseBootstrap(JoinAddrSlice(f.rjoin, f.ip), p.http, f.ip)
    BY <1>1
<1> QED
    BY <1>3, <1>4, <1>5

\* A port derived one way leads back to the other, the proof of PortsAgree.
LEMMA PortsAlwaysAgree == PortsAgree
<1> SUFFICES ASSUME NEW f \in {g \in Flags : g.raft = {} /\ g.http # {}},
                    NEW p \in fixAddr(f, f.ip)
             PROVE  fixAddr([f EXCEPT !.http = {}, !.raft = {p.raft}], f.ip)
                      = IF p.raft.port < 2024 THEN {} ELSE {p}
    BY Zenon DEF PortsAgree
<1> DEFINE g == [f EXCEPT !.http = {}, !.raft = {p.raft}]
<1>1. PICK a \in f.http :
        p = [http |-> fixAddrHost(a, f.ip), raft |-> Shift(fixAddrHost(a, f.ip), 1000)]
    BY DEF fixAddr
<1>2. a \in [host : LocalNames \cup {f.ip}, port : Nat]
    BY FlagOK
<1>3. fixAddrHost(a, f.ip) = HostPort(f.ip, a.port)
    BY <1>2, FixedHost
<1>4. /\ p = [http |-> HostPort(f.ip, a.port), raft |-> HostPort(f.ip, a.port + 1000)]
      /\ p.raft = HostPort(f.ip, a.port + 1000) /\ p.raft.port = a.port + 1000
      /\ a.port \in Nat
    BY <1>1, <1>2, <1>3 DEF Shift, HostPort
<1>5. p.raft \in [host : LocalNames \cup {f.ip}, port : Nat]
    BY <1>4 DEF HostPort
<1>6. fixAddrHost(p.raft, f.ip) = p.raft
    BY <1>4, <1>5, FixedHost
<1>7. Shift(p.raft, -1000) = HostPort(f.ip, a.port)
    BY <1>4 DEF Shift, HostPort
<1>8. g.http = {} /\ g.raft = {p.raft}
    BY DEF Flags
<1>9. fixAddr(g, f.ip) =
        {[http |-> Shift(fixAddrHost(b, f.ip), -1000), raft |-> fixAddrHost(b, f.ip)] :
            b \in {c \in {p.raft} : c.port >= 1024 + 1000}}
    BY <1>8 DEF fixAddr
<1> HIDE DEF g
<1>10. p = [http |-> Shift(fixAddrHost(p.raft, f.ip), -1000),
            raft |-> fixAddrHost(p.raft, f.ip)]
    BY <1>4, <1>6, <1>7
<1>11. CASE p.raft.port < 2024
    <2>1. {c \in {p.raft} : c.port >= 1024 + 1000} = {}
        BY <1>4, <1>11
    <2> QED
        BY <1>9, <1>11, <2>1 DEF g
<1>12. CASE ~(p.raft.port < 2024)
    <2>1. {c \in {p.raft} : c.port >= 1024 + 1000} = {p.raft}
        BY <1>4, <1>12
    <2> QED
        BY <1>9, <1>10, <1>12, <2>1 DEF g
<1> QED
    BY <1>11, <1>12

\* The leader sees the joiner as what it is, the proof of JoinKeepsIdentity.
LEMMA IdentityAlwaysKept == JoinKeepsIdentity
<1> SUFFICES ASSUME NEW f \in Flags, NEW a \in Fix(f), NEW i \in DOMAIN a.joins
             PROVE  LET req == FixRequest([addr |-> a.raft, id |-> a.id],
                                          Source(a.ip, a.joins[i].host))
                    IN  (req.id = a.id /\ req.addr = a.raft)
                          <=> (a.ip = "" \/ "127.0.0.1" \notin ParseIps(a.joins[i].host))
    BY DEF JoinKeepsIdentity
<1> DEFINE remote == Source(a.ip, a.joins[i].host)
           host == IF remote = "127.0.0.1" THEN "" ELSE remote
           req == FixRequest([addr |-> a.raft, id |-> a.id], remote)
<1>1. PICK h \in Int, r \in Int :
        /\ a.ip = f.ip /\ a.raft = HostPort(f.ip, r)
        /\ a.id = [http |-> HostPort(f.ip, h), raft |-> HostPort(f.ip, r)]
    BY FixedArg
<1>2. f.ip \in MainIP /\ f.ip # "127.0.0.1"
    BY FlagOK, MainIPAssumption
<1>3. host = f.ip <=> (a.ip = "" \/ "127.0.0.1" \notin ParseIps(a.joins[i].host))
    <2>1. remote = IF f.ip = "" \/ "127.0.0.1" \in ParseIps(a.joins[i].host)
                   THEN "127.0.0.1" ELSE f.ip
        BY <1>1 DEF Source
    <2> HIDE DEF remote
    <2> QED
        BY <1>1, <1>2, <2>1
<1> HIDE DEF host, remote
<1>4. /\ req.addr = HostPort(host, r)
      /\ req.id = [http |-> HostPort(host, h), raft |-> HostPort(host, r)]
    <2>1. req = [addr |-> HostPort(host, a.raft.port), id |-> FixNodeID(a.id, host)]
        BY DEF FixRequest, host
    <2>2. /\ a.raft.port = r
          /\ FixNodeID(a.id, host) = [http |-> HostPort(host, h), raft |-> HostPort(host, r)]
        BY <1>1 DEF FixNodeID, HostPort
    <2> QED
        BY <2>1, <2>2
<1>5. (req.id = a.id /\ req.addr = a.raft) <=> host = f.ip
    BY <1>1, <1>4 DEF HostPort
<1> QED
    BY <1>3, <1>5 DEF remote

\* Of the nodes that can run together, at most one bootstraps, the proof of
\* OneFounder.
LEMMA FounderAlwaysOne == OneFounder
<1> DEFINE Founder(x, j) ==
             \E f \in Flags : f.rjoin = j /\ x \in Fix(f) /\ x.bootstrap
<1> SUFFICES ASSUME NEW j \in {f.rjoin : f \in Flags} \ {<<>>}, NEW a, NEW b,
                    Founder(a, j), Founder(b, j), Together(a, b)
             PROVE  a.ip # b.ip /\ j[1].host \in LocalNames
    BY Zenon DEF OneFounder
<1>1. PICK c \in HostPorts(LocalNames \cup MainIP) : j = <<c>>
    <2>1. PICK f \in Flags : f.rjoin = j
        OBVIOUS
    <2>2. PICK ip \in MainIP :
            f \in [ip : {ip}, http : Flag(LocalNames \cup {ip}),
                   raft : Flag(LocalNames \cup {ip}),
                   rjoin : {<<>>} \cup {<<d>> : d \in HostPorts(LocalNames \cup MainIP)}]
        BY DEF Flags
    <2>3. f.rjoin \in {<<>>} \cup {<<d>> : d \in HostPorts(LocalNames \cup MainIP)}
        BY <2>2
    <2> QED
        BY <2>1, <2>3, Zenon
<1>2. PICK o \in LocalNames \cup MainIP, n \in Port : c = HostPort(o, n)
    BY <1>1 DEF HostPorts
<1>3. j[1].host = o /\ j[1].port = n /\ DOMAIN j = 1 .. 1
    BY <1>1, <1>2 DEF HostPort
<1>4. ASSUME NEW x, Founder(x, j)
      PROVE  /\ x.ip \in MainIP /\ x.http = HostPort(x.ip, n)
             /\ o \notin LocalNames => x.ip = o
    <2>1. PICK f \in Flags : f.rjoin = j /\ x \in Fix(f) /\ x.bootstrap
        BY <1>4
    <2>2. PICK h \in Int :
            /\ x.ip = f.ip /\ x.http = HostPort(f.ip, h)
            /\ x.bootstrap = parseBootstrap(JoinAddrSlice(j, f.ip), HostPort(f.ip, h), f.ip)
        BY <2>1, FixedArg
    <2> DEFINE o1 == IF o = "" THEN f.ip ELSE o
    <2>3. PICK s : s = JoinAddrSlice(j, f.ip)
        OBVIOUS
    <2>4. s = [i \in 1 .. 1 |-> HostPort(IF j[i].host = "" THEN f.ip ELSE j[i].host,
                                        j[i].port)]
        BY <1>3, <2>3 DEF JoinAddrSlice
    <2>5. s[1] = HostPort(o1, n) /\ 1 \in DOMAIN s
        <3>1. s[1] = HostPort(IF j[1].host = "" THEN f.ip ELSE j[1].host, j[1].port)
            <4>1. 1 \in 1 .. 1
                OBVIOUS
            <4> QED
                BY <2>4, <4>1, Zenon
        <3>2. 1 \in DOMAIN s
            <4>1. DOMAIN s = 1 .. 1
                BY <2>4, Zenon
            <4>2. 1 \in 1 .. 1
                OBVIOUS
            <4> QED
                BY <4>1, <4>2, Zenon
        <3>3. s[1] = HostPort(o1, n)
            BY <1>3, <3>1, Zenon
        <3> QED
            BY <3>2, <3>3
    <2> HIDE DEF o1
    <2>6. s # <<>>
        BY <2>5
    <2>7. \/ s[1] = HostPort(f.ip, h)
          \/ s[1].port = HostPort(f.ip, h).port /\ isLocalHost(s[1].host, f.ip)
        BY <2>1, <2>2, <2>3, <2>6 DEF parseBootstrap
    <2>8. \/ HostPort(o1, n) = HostPort(f.ip, h)
          \/ /\ HostPort(o1, n).port = HostPort(f.ip, h).port
             /\ isLocalHost(HostPort(o1, n).host, f.ip)
        BY <2>5, <2>7
    <2>9. n = h /\ (o1 = f.ip \/ isLocalHost(o1, f.ip))
        BY <2>8 DEF HostPort
    <2>10. h = n
        BY <2>9
    <2>11. o \notin LocalNames => f.ip = o
        BY <2>9 DEF isLocalHost, LocalNames, ParseIps, o1
    <2> QED
        BY <2>2, <2>10, <2>11, FlagOK
<1>5. /\ a.ip \in MainIP /\ a.http = HostPort(a.ip, n) /\ (o \notin LocalNames => a.ip = o)
      /\ b.ip \in MainIP /\ b.http = HostPort(b.ip, n) /\ (o \notin LocalNames => b.ip = o)
    BY <1>4
<1>6. a.ip # b.ip
    <2> SUFFICES ASSUME a.ip = b.ip PROVE FALSE
        OBVIOUS
    <2>1. ASSUME NEW ip PROVE ConvertToZeroHost(HostPort(ip, n), ip) = HostPort("", n)
        BY DEF ConvertToZeroHost, isLocalHost, ParseIps, HostPort
    <2>2. HostPort("", n) \in Sockets(a) /\ HostPort("", n) \in Sockets(b)
        BY <1>5, <2>1 DEF Sockets
    <2>3. Clash(HostPort("", n), HostPort("", n))
        BY DEF Clash
    <2> QED
        BY <2>2, <2>3 DEF Together
<1>7. o \in LocalNames
    BY <1>5, <1>6
<1> QED
    BY <1>3, <1>6, <1>7

\* Nodes that run together and were started with one rjoin found at most one cluster,
\* for every set of machines and ports: parseBootstrap is true of two of them only on
\* two machines and for a first address that is relative to the machine.
THEOREM FoundersAreUnique == Spec => []FoundersUnique
<1>1. FoundersUnique
    BY FounderAlwaysOne DEF FoundersUnique
<1> QED
    BY <1>1, PTL

\* JoinRequest.Fix gives the leader the joiner's own NodeID and Raft address, unless
\* the joiner knows its main IP and comes over the loopback interface.
THEOREM IdentitiesAreKept == Spec => []IdentitiesKept
<1>1. IdentitiesKept
    BY IdentityAlwaysKept DEF IdentitiesKept
<1> QED
    BY <1>1, PTL

\* fixAddr derives haddr and raddr from each other without contradiction, for every
\* port that it accepts.
THEOREM PortsAreConsistent == Spec => []PortsRoundTrip
<1>1. PortsRoundTrip
    BY PortsAlwaysAgree DEF PortsRoundTrip
<1> QED
    BY <1>1, PTL

=============================================================================
