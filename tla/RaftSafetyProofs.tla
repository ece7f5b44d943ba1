-------------------------- MODULE RaftSafetyProofs --------------------------
(***************************************************************************)
(* Proof that raft keeps its promise to the code above it, CommitsAgree,   *)
(* in a cluster of any size that the code founds, changes by Join and      *)
(* Remove one server at a time, and restarts in any order, when SoundSetup *)
(* says so of the flags.  What MembershipProofs shows under that promise   *)
(* then holds without it.                                                  *)
(*                                                                         *)
(* The argument is about commit points: indices of the history that a      *)
(* majority of the configuration there has stored, in logs that anything   *)
(* more recent contains.  Every change of the configuration, committed or  *)
(* not, follows a commit point of its leader's term, and every change in   *)
(* the history has a commit point behind it.  So a majority that could     *)
(* elect a node meets the majority behind the newest commit point, through *)
(* every change between the two configurations.                            *)
(***************************************************************************)
EXTENDS MembershipProofs, FiniteSetTheorems, NaturalsInduction, WellFoundedInduction

\* The setup in which there is one cluster: the stores outlive the process, every
\* node has a Raft address of its own, and at most one node may found a cluster.
SoundSetup ==
    /\ ~InMem
    /\ \A a, b \in Node : Addr[a] = Addr[b] => a = b
    /\ \A a, b \in Node : Bootstrap(a) /\ Bootstrap(b) => a = b

\* The beginning of every log: what the founder bootstraps with, or the log of the
\* cluster that the nodes are started with.
Founder == CHOOSE n \in Node : Bootstrap(n)
BaseLog ==
    IF Formed = {} THEN <<[term |-> 1, kind |-> "boot", conf |-> {Founder}]>>
    ELSE FormedLog
Base == Len(BaseLog)

\* The history; the beginning of every log belongs to it.
Kept == IF chosen = <<>> THEN BaseLog ELSE chosen
Tip == Len(Kept)

\* Two logs have the same first j entries.
SameTo(s, t, j) == j <= Len(s) /\ j <= Len(t) /\ \A i \in 1 .. j : s[i] = t[i]

\* Log s is at least as recent as the first j entries of t.
AtLeast(s, t, j) ==
    /\ Len(s) > 0
    /\ \/ s[Len(s)].term > t[j].term
       \/ s[Len(s)].term = t[j].term /\ Len(s) >= j

\* The processes that have the first j entries of the history.
Holders(j) == {p \in Node : SameTo(Kept, log[p], j)}

CommitPoint(j) ==
    /\ j \in Base .. Tip
    /\ Majority(Kept[j].conf, Holders(j))
    /\ \A n \in Node : AtLeast(log[n], Kept, j) => SameTo(Kept, log[n], j)

\* The configurations differ by one server at most.
Near(c, d) == \E x \in Node : c \cup {x} = d \cup {x}

\* The entry at index k of s changes the configuration.
Changed(s, k) == k \in (Base + 1) .. Len(s) /\ s[k].conf # s[k - 1].conf

\* Before it comes a commit point of the same term and no other change.
Grounded(s, k) ==
    \E j \in 1 .. (k - 1) :
        /\ CommitPoint(j) /\ SameTo(Kept, s, j) /\ s[j].term = s[k].term
        /\ \A x \in j .. (k - 1) : s[x].conf = s[j].conf

\* Some log has an entry.
Begun == \E n \in Node : Len(log[n]) > 0

\* The parts of the invariant.  Logs begin alike, with the founder's.
Begins ==
    /\ \A n \in Node : Len(log[n]) = 0 \/ SameTo(BaseLog, log[n], Base)
    /\ Len(chosen) = 0 \/ SameTo(BaseLog, chosen, Base)
    /\ Begun \/ Len(chosen) > 0 \/ Formed # {} => Founder \in Node /\ Len(log[Founder]) > 0

\* Terms rise along a log, up to the term of the node.
TermsRise ==
    \A n \in Node : \A i \in 1 .. Len(log[n]) :
        /\ log[n][i].term \in 1 .. term[n]
        /\ \A k \in 1 .. i : log[n][k].term <= log[n][i].term

\* An entry is known by its index and term, with all entries before it.
LogsMatch ==
    \A m, n \in Node : \A i \in 1 .. Len(log[m]) :
        i <= Len(log[n]) /\ log[m][i].term = log[n][i].term
            => SameTo(log[m], log[n], i)

\* A leader has all entries of its term, and what it has committed ends at a commit
\* point of its term.
LeadersOwn ==
    \A l \in Node : leads[l] =>
        /\ log[l][Len(log[l])].term = term[l]
        /\ \A n \in Node : \A i \in 1 .. Len(log[n]) :
              log[n][i].term = term[l] => i <= Len(log[l]) /\ log[l][i].term = term[l]
        /\ commit[l] > 0 =>
              /\ CommitPoint(commit[l]) /\ SameTo(Kept, log[l], commit[l])
              /\ log[l][commit[l]].term = term[l]

\* Changes are made one server at a time, each behind a commit point.
ChangesGrounded ==
    \A n \in Node : \A k \in 1 .. Len(log[n]) : Changed(log[n], k) =>
        /\ log[n][k].kind = "conf"
        /\ Near(log[n][k - 1].conf, log[n][k].conf)
        /\ Grounded(log[n], k)

\* The history ends at a commit point, and has one behind each of its changes.
CommitsHold ==
    Begun =>
        /\ CommitPoint(Tip)
        /\ \A k \in 1 .. Tip : Changed(Kept, k) =>
              \E j \in k .. Tip :
                  CommitPoint(j) /\ \A x \in k .. j : Kept[x].conf = Kept[k].conf

\* The majority that elected a leader has left the terms before.
VotesHold ==
    \A n \in Node : \A i \in (Base + 1) .. Len(log[n]) :
        log[n][i - 1].term < log[n][i].term =>
            Majority(log[n][i - 1].conf, {p \in Node : term[p] >= log[n][i].term})

SafeInv ==
    /\ Begins /\ TermsRise /\ LogsMatch /\ OneLeader /\ LeadersOwn /\ ChangesGrounded
    /\ CommitsHold /\ VotesHold

-----------------------------------------------------------------------------
(* Numbers and majorities. *)

\* A set of numbers that is not empty has a least one.
LEMMA LeastOf ==
    ASSUME NEW T \in SUBSET Nat, T # {}
    PROVE  \E x \in T : \A y \in T : x <= y
<1> DEFINE R == {ss \in Nat \X Nat : ss[1] < ss[2]}
<1>1. IsWellFoundedOn(R, Nat)
    BY NatLessThanWellFounded DEF OpToRel
<1>2. PICK x \in T : \A y \in T : ~ (<<y, x>> \in R)
    BY <1>1, WFMin
<1>3. ASSUME NEW y \in T PROVE x <= y
    <2>1. <<y, x>> \notin R
        BY <1>2
    <2> QED
        BY <2>1
<1> QED
    BY <1>2, <1>3

\* A bounded one has a greatest one.
LEMMA GreatestOf ==
    ASSUME NEW b \in Nat, NEW T \in SUBSET (0 .. b), T # {}
    PROVE  \E x \in T : \A y \in T : y <= x
<1> DEFINE R == {b - y : y \in T}
<1>1. R \in SUBSET Nat /\ R # {}
    <2>1. \A y \in T : b - y \in Nat
        OBVIOUS
    <2> QED
        BY <2>1
<1>2. PICK r \in R : \A s \in R : r <= s
    BY <1>1, LeastOf
<1>3. PICK x \in T : r = b - x
    BY <1>2
<1>4. ASSUME NEW y \in T PROVE y <= x
    <2>1. b - y \in R
        OBVIOUS
    <2>2. r <= b - y
        BY <1>2, <2>1
    <2> QED
        BY <1>3, <2>2
<1> QED
    BY <1>3, <1>4

\* With addresses of their own, processes answer for themselves alone.
LEMMA MajorityIs ==
    ASSUME SoundSetup, NEW c \in SUBSET Node, NEW P \in SUBSET Node
    PROVE  /\ Majority(c, P) <=> 2 * Cardinality(c \cap P) > Cardinality(c)
           /\ IsFiniteSet(c) /\ IsFiniteSet(c \cap P)
           /\ Cardinality(c) \in Nat /\ Cardinality(c \cap P) \in Nat
<1>1. Answers(c, P) = c \cap P
    BY DEF Answers, SoundSetup
<1>2. IsFiniteSet(c) /\ IsFiniteSet(c \cap P)
    BY NodeAssumption, FS_Subset
<1> QED
    BY <1>1, <1>2, FS_CardinalityType DEF Majority

\* A larger set of processes has the majority too.
LEMMA MajorityGrows ==
    ASSUME SoundSetup, NEW c \in SUBSET Node, NEW P \in SUBSET Node,
           NEW Q \in SUBSET Node, Majority(c, P), c \cap P \subseteq Q
    PROVE  Majority(c, Q)
<1>1. c \cap P \subseteq c \cap Q
    OBVIOUS
<1>2. Cardinality(c \cap P) <= Cardinality(c \cap Q)
    BY <1>1, MajorityIs, FS_Subset
<1> QED
    BY <1>2, MajorityIs

\* All of a configuration are a majority of it.
LEMMA MajorityAll ==
    ASSUME SoundSetup, NEW c \in SUBSET Node, c # {}
    PROVE  Majority(c, c)
<1>1. c \cap c = c
    OBVIOUS
<1>2. Cardinality(c) \in Nat /\ Cardinality(c) # 0
    BY MajorityIs, FS_EmptySet
<1> QED
    BY <1>1, <1>2, MajorityIs

\* Majorities of configurations that differ by one server have a process in common.
LEMMA MajoritiesMeet ==
    ASSUME SoundSetup, NEW c \in SUBSET Node, NEW d \in SUBSET Node, Near(c, d),
           NEW P \in SUBSET Node, NEW Q \in SUBSET Node,
           Majority(c, P), Majority(d, Q)
    PROVE  \E p \in P \cap Q : p \in c /\ p \in d
<1> SUFFICES ASSUME ~ \E p \in P \cap Q : p \in c /\ p \in d PROVE FALSE
    OBVIOUS
<1> DEFINE A == c \cap P
           B == d \cap Q
<1>1. A \cap B = {}
    OBVIOUS
<1>2. /\ IsFiniteSet(c) /\ IsFiniteSet(d) /\ IsFiniteSet(A) /\ IsFiniteSet(B)
      /\ Cardinality(c) \in Nat /\ Cardinality(d) \in Nat
      /\ Cardinality(A) \in Nat /\ Cardinality(B) \in Nat
      /\ 2 * Cardinality(A) > Cardinality(c) /\ 2 * Cardinality(B) > Cardinality(d)
    BY MajorityIs
<1>3. Cardinality(A \cup B) = Cardinality(A) + Cardinality(B)
    <2>1. Cardinality(A \cup B)
            = Cardinality(A) + Cardinality(B) - Cardinality(A \cap B)
        BY <1>2, FS_Union
    <2>2. Cardinality(A \cap B) = 0
        BY <1>1, FS_EmptySet
    <2> HIDE DEF A, B
    <2> QED
        BY <1>2, <2>1, <2>2
<1>4. ASSUME NEW a \in SUBSET Node, NEW b \in SUBSET Node, a \subseteq b,
             NEW x \in Node, b \subseteq a \cup {x}
      PROVE  /\ Cardinality(a) <= Cardinality(b) /\ Cardinality(b) <= Cardinality(a) + 1
             /\ Cardinality(a) \in Nat /\ Cardinality(b) \in Nat
    <2>1. IsFiniteSet(a) /\ IsFiniteSet(b) /\ IsFiniteSet(a \cup {x})
        BY NodeAssumption, FS_Subset, FS_AddElement
    <2>2. Cardinality(a) <= Cardinality(b) /\ Cardinality(b) <= Cardinality(a \cup {x})
        BY <1>4, <2>1, FS_Subset
    <2>3. Cardinality(a \cup {x}) = Cardinality(a) \/ Cardinality(a \cup {x}) = Cardinality(a) + 1
        BY <2>1, FS_AddElement
    <2>4. Cardinality(a) \in Nat /\ Cardinality(b) \in Nat
        BY <2>1, FS_CardinalityType
    <2> QED
        BY <2>2, <2>3, <2>4
<1>5. PICK x \in Node : c \cup {x} = d \cup {x}
    BY DEF Near
<1>6. c \subseteq d \/ d \subseteq c
    BY <1>5
<1>7. ASSUME NEW a \in {c, d}, A \cup B \subseteq a
      PROVE  Cardinality(A) + Cardinality(B) <= Cardinality(a)
    BY <1>2, <1>3, <1>7, FS_Subset
<1> HIDE DEF A, B
<1>8. CASE c \subseteq d
    <2>1. Cardinality(c) <= Cardinality(d) /\ Cardinality(d) <= Cardinality(c) + 1
        BY <1>4, <1>5, <1>8
    <2>2. Cardinality(A) + Cardinality(B) <= Cardinality(d)
        BY <1>7, <1>8 DEF A, B
    <2> QED
        BY <1>2, <2>1, <2>2
<1>9. CASE d \subseteq c
    <2>1. Cardinality(d) <= Cardinality(c) /\ Cardinality(c) <= Cardinality(d) + 1
        BY <1>4, <1>5, <1>9
    <2>2. Cardinality(A) + Cardinality(B) <= Cardinality(c)
        BY <1>7, <1>9 DEF A, B
    <2> QED
        BY <1>2, <2>1, <2>2
<1> QED
    BY <1>6, <1>8, <1>9

\* A majority is not empty.
LEMMA MajorityLives ==
    ASSUME SoundSetup, NEW c \in SUBSET Node, NEW P \in SUBSET Node, Majority(c, P)
    PROVE  \E p \in P : p \in c
<1>1. \E p \in c : TRUE
    <2>1. c # {}
        BY MajorityIs, FS_EmptySet
    <2> QED
        BY <2>1
<1>2. Near(c, c)
    BY <1>1 DEF Near
<1> QED
    BY <1>2, MajoritiesMeet

-----------------------------------------------------------------------------
(* Logs and the history. *)

\* Types of what is in a log.
LEMMA LogOK ==
    ASSUME RaftOK, NEW n \in Node
    PROVE  /\ Len(log[n]) \in Nat /\ log[n] \in Seq(Entry) /\ term[n] \in Nat
           /\ \A i \in 1 .. Len(log[n]) :
                 /\ log[n][i].term \in Nat /\ log[n][i].conf \in SUBSET Node
                 /\ log[n][i].conf # {}
<1>1. log[n] \in Seq(Entry) /\ Len(log[n]) \in Nat /\ term[n] \in Nat
    BY LenProperties DEF RaftOK
<1>2. ASSUME NEW i \in 1 .. Len(log[n])
      PROVE  /\ log[n][i].term \in Nat /\ log[n][i].conf \in SUBSET Node
             /\ log[n][i].conf # {}
    <2>1. Valid(log[n][i].conf)
        BY DEF RaftOK
    <2> QED
        BY <1>1, <2>1, EntryOfLog DEF Valid
<1> QED
    BY <1>1, <1>2

\* The beginning of the logs is not empty.
LEMMA BaseOK == Base \in Nat /\ Base >= 1
<1>1. CASE Formed = {}
    BY <1>1 DEF Base, BaseLog
<1>2. CASE Formed # {}
    BY <1>2, FormedLogOK DEF Base, BaseLog
<1> QED
    BY <1>1, <1>2

\* Types of what is in the history.
LEMMA KeptOK ==
    ASSUME RaftOK, Begins, Begun
    PROVE  /\ Tip \in Nat /\ Base <= Tip /\ SameTo(BaseLog, Kept, Base)
           /\ \A i \in 1 .. Tip :
                 /\ Kept[i].term \in Nat /\ Kept[i].conf \in SUBSET Node
<1>1. CASE chosen = <<>>
    <2>1. Kept = BaseLog /\ Tip = Base
        BY <1>1 DEF Kept, Tip, Base
    <2>2. Founder \in Node /\ Len(log[Founder]) > 0
        BY DEF Begins
    <2>3. SameTo(BaseLog, log[Founder], Base)
        BY <2>2 DEF Begins
    <2>4. \A i \in 1 .. Base : BaseLog[i] = log[Founder][i] /\ i \in 1 .. Len(log[Founder])
        BY <2>2, <2>3, BaseOK, LogOK DEF SameTo
    <2>5. SameTo(BaseLog, BaseLog, Base)
        BY BaseOK DEF SameTo, Base
    <2> QED
        BY <2>1, <2>2, <2>4, <2>5, BaseOK, LogOK
<1>2. CASE chosen # <<>>
    <2>1. Kept = chosen /\ Tip = Len(chosen)
        BY <1>2 DEF Kept, Tip
    <2>2. chosen \in Seq(Entry) /\ Len(chosen) \in Nat /\ Len(chosen) # 0
        BY <1>2, EmptyLen, LenProperties DEF RaftOK
    <2>3. SameTo(BaseLog, chosen, Base)
        BY <2>2 DEF Begins
    <2>4. \A i \in 1 .. Len(chosen) : chosen[i].term \in Nat /\ chosen[i].conf \in SUBSET Node
        BY <2>2, EntryOfLog
    <2> QED
        BY <2>1, <2>2, <2>3, <2>4 DEF SameTo
<1> QED
    BY <1>1, <1>2

\* What a commit point is in, a process has.
LEMMA HolderOf ==
    ASSUME SoundSetup, RaftOK, Begins, Begun, NEW j, CommitPoint(j)
    PROVE  j \in Nat /\ j >= Base /\ j <= Tip /\ j >= 1
           /\ \E p \in Node : SameTo(Kept, log[p], j)
<1>1. j \in Nat /\ j >= Base /\ j <= Tip /\ j >= 1
    BY BaseOK, KeptOK DEF CommitPoint
<1>2. Kept[j].conf \in SUBSET Node
    BY <1>1, KeptOK
<1>3. Holders(j) \in SUBSET Node /\ Majority(Kept[j].conf, Holders(j))
    BY DEF Holders, CommitPoint
<1>4. \E p \in Holders(j) : TRUE
    BY <1>2, <1>3, MajorityLives
<1> QED
    BY <1>1, <1>4 DEF Holders

\* A process has the history, and what holds of logs holds of it.
LEMMA KeptIsLog ==
    ASSUME SoundSetup, RaftOK, SafeInv, Begun
    PROVE  /\ \E p \in Node : SameTo(Kept, log[p], Tip)
           /\ \A i \in 1 .. Tip : \A k \in 1 .. i :
                 Kept[k].term <= Kept[i].term /\ Kept[k].term \in Nat /\ Kept[k].term >= 1
           /\ \A n \in Node : \A i \in 1 .. Tip :
                 i <= Len(log[n]) /\ Kept[i].term = log[n][i].term
                    => SameTo(Kept, log[n], i)
           /\ \A k \in 1 .. Tip : Changed(Kept, k) =>
                 Near(Kept[k - 1].conf, Kept[k].conf) /\ Grounded(Kept, k)
<1>1. CommitPoint(Tip)
    BY DEF SafeInv, CommitsHold
<1>2. Tip \in Nat /\ Tip >= 1 /\ Base >= 1 /\ Base \in Nat /\ Tip = Len(Kept)
    BY <1>1, HolderOf, BaseOK DEF SafeInv, Tip
<1>3. PICK p \in Node : SameTo(Kept, log[p], Tip)
    BY <1>1, HolderOf DEF SafeInv
<1>4. Len(log[p]) \in Nat /\ Tip <= Len(log[p]) /\ \A i \in 1 .. Tip : Kept[i] = log[p][i]
    BY <1>3, LogOK DEF SameTo
<1>5. ASSUME NEW i \in 1 .. Tip, NEW k \in 1 .. i
      PROVE  Kept[k].term <= Kept[i].term /\ Kept[k].term \in Nat /\ Kept[k].term >= 1
    <2>1. k \in 1 .. Tip /\ k \in 1 .. Len(log[p]) /\ i \in 1 .. Len(log[p])
        BY <1>2, <1>4
    <2>2. Kept[k] = log[p][k] /\ Kept[i] = log[p][i]
        BY <1>4, <2>1
    <2>3. log[p][k].term <= log[p][i].term /\ log[p][k].term \in 1 .. term[p]
        BY <2>1 DEF SafeInv, TermsRise
    <2>4. term[p] \in Nat
        BY LogOK
    <2> QED
        BY <2>2, <2>3, <2>4
<1>6. ASSUME NEW n \in Node, NEW i \in 1 .. Tip,
             i <= Len(log[n]), Kept[i].term = log[n][i].term
      PROVE  SameTo(Kept, log[n], i)
    <2>1. i \in 1 .. Len(log[p]) /\ log[p][i].term = log[n][i].term
        BY <1>2, <1>4, <1>6
    <2>2. SameTo(log[p], log[n], i)
        BY <1>6, <2>1 DEF SafeInv, LogsMatch
    <2> QED
        BY <1>2, <1>4, <2>2 DEF SameTo
<1>7. ASSUME NEW k \in 1 .. Tip, Changed(Kept, k)
      PROVE  Near(Kept[k - 1].conf, Kept[k].conf) /\ Grounded(Kept, k)
    <2>1. k \in (Base + 1) .. Tip /\ k - 1 \in 1 .. Tip /\ Kept[k].conf # Kept[k - 1].conf
        BY <1>2, <1>7 DEF Changed
    <2>2. Kept[k] = log[p][k] /\ Kept[k - 1] = log[p][k - 1]
        BY <1>4, <2>1
    <2>3. k \in 1 .. Len(log[p]) /\ k \in (Base + 1) .. Len(log[p])
        BY <1>2, <1>4, <2>1
    <2>4. Changed(log[p], k)
        BY <2>1, <2>2, <2>3 DEF Changed
    <2>5. Near(log[p][k - 1].conf, log[p][k].conf) /\ Grounded(log[p], k)
        BY <2>3, <2>4 DEF SafeInv, ChangesGrounded
    <2>6. PICK j \in 1 .. (k - 1) :
             /\ CommitPoint(j) /\ SameTo(Kept, log[p], j) /\ log[p][j].term = log[p][k].term
             /\ \A x \in j .. (k - 1) : log[p][x].conf = log[p][j].conf
        BY <2>5 DEF Grounded
    <2>7. \A x \in j .. (k - 1) : Kept[x] = log[p][x]
        <3>1. \A x \in j .. (k - 1) : x \in 1 .. Tip
            BY <1>2, <2>1
        <3> QED
            BY <1>4, <3>1
    <2>8. Kept[j] = log[p][j] /\ SameTo(Kept, Kept, j)
        BY <1>2, <1>4, <2>1 DEF SameTo
    <2>9. j \in j .. (k - 1)
        OBVIOUS
    <2>10. Grounded(Kept, k)
        BY <2>2, <2>6, <2>7, <2>8, <2>9 DEF Grounded
    <2> QED
        BY <2>2, <2>5, <2>10
<1> QED
    BY <1>3, <1>5, <1>6, <1>7

\* Between changes the configuration is the same.
LEMMA SameConf ==
    ASSUME NEW s, Len(s) \in Nat, NEW a \in Nat, NEW b \in Nat, a >= Base, b <= Len(s),
           \A k \in (a + 1) .. b : ~Changed(s, k)
    PROVE  \A x \in a .. b : s[x].conf = s[a].conf
<1> DEFINE T == {x \in a .. b : s[x].conf # s[a].conf}
<1> SUFFICES ASSUME T # {} PROVE FALSE
    OBVIOUS
<1>1. T \in SUBSET Nat
    OBVIOUS
<1>2. PICK x \in T : \A y \in T : x <= y
    BY <1>1, LeastOf
<1>3. x \in a .. b /\ x # a /\ s[x].conf # s[a].conf
    BY <1>2
<1>4. x - 1 \in a .. b /\ x - 1 \notin T
    BY <1>2, <1>3
<1>5. s[x - 1].conf = s[a].conf
    BY <1>4
<1>6. x \in (Base + 1) .. Len(s) /\ x \in (a + 1) .. b
    BY <1>3, BaseOK
<1> QED
    BY <1>3, <1>5, <1>6 DEF Changed

\* The same of the end of a node's log.
LEMMA SameConfOfLog ==
    ASSUME RaftOK, NEW n \in Node, NEW a \in Nat, a >= Base,
           NEW b \in Nat, b <= Len(log[n]), \A k \in (a + 1) .. b : ~Changed(log[n], k)
    PROVE  \A x \in a .. b : log[n][x].conf = log[n][a].conf
<1> DEFINE s == log[n]
<1>1. Len(s) \in Nat /\ b <= Len(s)
    BY LogOK
<1>2. \A k \in (a + 1) .. b : ~Changed(s, k)
    OBVIOUS
<1> HIDE DEF s
<1>3. \A x \in a .. b : s[x].conf = s[a].conf
    BY <1>1, <1>2, SameConf
<1> QED
    BY <1>3 DEF s

-----------------------------------------------------------------------------
(* Who can win an election or commit. *)

\* A majority of n's configuration, none of which has a more recent log than n.
Fresh(n, Q) ==
    /\ Q \in SUBSET Node /\ Len(log[n]) > 0
    /\ Majority(log[n][Len(log[n])].conf, Q)
    /\ \A q \in Q : Len(log[q]) = 0 \/ AtLeast(log[n], log[q], Len(log[q]))

\* Such a majority meets the one behind a commit point when their configurations
\* are near; then n has what was committed there.
LEMMA Covers ==
    ASSUME SoundSetup, RaftOK, SafeInv, NEW n \in Node, NEW Q, Fresh(n, Q),
           NEW j, CommitPoint(j), Near(Kept[j].conf, log[n][Len(log[n])].conf)
    PROVE  SameTo(Kept, log[n], j)
<1>1. Begun /\ Len(log[n]) \in 1 .. Len(log[n])
    BY LogOK DEF Begun, Fresh
<1>2. j \in 1 .. Tip /\ j \in Nat
    BY <1>1, HolderOf, KeptOK DEF SafeInv
<1>3. Kept[j].conf \in SUBSET Node /\ Kept[j].term \in Nat
    BY <1>1, <1>2, KeptOK DEF SafeInv
<1>4. log[n][Len(log[n])].conf \in SUBSET Node
    BY <1>1, LogOK
<1>5. Holders(j) \in SUBSET Node /\ Majority(Kept[j].conf, Holders(j))
    BY DEF Holders, CommitPoint
<1>6. PICK q \in Q : q \in Holders(j)
    BY <1>3, <1>4, <1>5, MajoritiesMeet DEF Fresh
<1>7. q \in Node /\ SameTo(Kept, log[q], j) /\ Len(log[q]) \in Nat
    BY <1>6, LogOK DEF Holders
<1>8. j \in 1 .. Len(log[q]) /\ log[q][j] = Kept[j] /\ Len(log[q]) \in 1 .. Len(log[q])
    BY <1>2, <1>7 DEF SameTo
<1>9. log[q][j].term <= log[q][Len(log[q])].term
    BY <1>7, <1>8 DEF SafeInv, TermsRise
<1>10. AtLeast(log[n], log[q], Len(log[q]))
    BY <1>6, <1>8 DEF Fresh
<1>11. AtLeast(log[n], Kept, j)
    <2>1. log[n][Len(log[n])].term \in Nat /\ log[q][Len(log[q])].term \in Nat
        BY <1>1, <1>7, <1>8, LogOK
    <2>2. Len(log[n]) \in Nat
        BY LogOK
    <2> QED
        BY <1>3, <1>7, <1>8, <1>9, <1>10, <2>1, <2>2 DEF AtLeast
<1> QED
    BY <1>11 DEF CommitPoint

\* A configuration is near itself.
LEMMA NearSelf ==
    ASSUME NEW c \in SUBSET Node, NEW n \in Node
    PROVE  Near(c, c)
BY DEF Near

\* When nothing changes in the history after index g, where the configuration is
\* near n's, n has the history; otherwise n has it up to the first change after g.
LEMMA CoversNext ==
    ASSUME SoundSetup, RaftOK, SafeInv, NEW n \in Node, NEW Q, Fresh(n, Q),
           NEW g \in Base .. Tip, Near(Kept[g].conf, log[n][Len(log[n])].conf)
    PROVE  \/ SameTo(Kept, log[n], Tip)
           \/ \E k \in (g + 1) .. Tip :
                 /\ Changed(Kept, k)
                 /\ \A x \in g .. (k - 1) : Kept[x].conf = Kept[g].conf
<1>1. Begun /\ Base \in Nat /\ Tip \in Nat /\ Tip = Len(Kept)
    BY BaseOK, KeptOK DEF Begun, Fresh, SafeInv, Tip
<1> DEFINE T == {k \in (g + 1) .. Tip : Changed(Kept, k)}
<1>2. CASE T = {}
    <2>1. \A k \in (g + 1) .. Tip : ~Changed(Kept, k)
        BY <1>2
    <2>2. \A x \in g .. Tip : Kept[x].conf = Kept[g].conf
        BY <1>1, <2>1, SameConf
    <2>3. Kept[Tip].conf = Kept[g].conf
        BY <1>1, <2>2
    <2>4. CommitPoint(Tip)
        BY <1>1 DEF SafeInv, CommitsHold
    <2> QED
        BY <2>3, <2>4, Covers
<1>3. CASE T # {}
    <2>1. T \in SUBSET Nat
        BY <1>1
    <2>2. PICK k \in T : \A y \in T : k <= y
        BY <1>3, <2>1, LeastOf
    <2>3. k \in (g + 1) .. Tip /\ Changed(Kept, k)
        BY <2>2
    <2>4. \A x \in (g + 1) .. (k - 1) : ~Changed(Kept, x)
        BY <1>1, <2>2, <2>3
    <2>5. g \in Nat /\ g >= Base /\ k - 1 \in Nat /\ k - 1 <= Len(Kept)
        BY <1>1, <2>3
    <2>6. \A x \in g .. (k - 1) : Kept[x].conf = Kept[g].conf
        BY <1>1, <2>4, <2>5, SameConf
    <2> QED
        BY <2>3, <2>6
<1> QED
    BY <1>2, <1>3

\* A node that has the history up to its own last change has all of it.
LEMMA FreshOnHistory ==
    ASSUME SoundSetup, RaftOK, SafeInv, NEW n \in Node, NEW Q, Fresh(n, Q),
           NEW g \in Base .. Tip, SameTo(Kept, log[n], g),
           \A x \in g .. Len(log[n]) : log[n][x].conf = log[n][g].conf
    PROVE  SameTo(Kept, log[n], Tip)
<1>1. /\ Begun /\ Base \in Nat /\ Tip \in Nat /\ Base >= 1 /\ Tip = Len(Kept)
      /\ Len(log[n]) \in Nat
    BY BaseOK, KeptOK, LogOK DEF Begun, Fresh, SafeInv, Tip
<1>2. /\ Kept[g] = log[n][g] /\ g <= Len(log[n]) /\ Kept[g].conf \in SUBSET Node
      /\ log[n][Len(log[n])].conf = log[n][g].conf
    <2>1. g \in 1 .. g /\ g \in 1 .. Tip /\ g <= Len(log[n])
        BY <1>1 DEF SameTo
    <2>2. Len(log[n]) \in g .. Len(log[n])
        BY <1>1, <2>1
    <2> QED
        BY <1>1, <2>1, <2>2, KeptOK DEF SameTo, SafeInv
<1>3. Near(Kept[g].conf, log[n][Len(log[n])].conf)
    BY <1>2, NearSelf
<1>4. ASSUME NEW k \in (g + 1) .. Tip, Changed(Kept, k),
             \A x \in g .. (k - 1) : Kept[x].conf = Kept[g].conf
      PROVE  FALSE
    <2>1. k \in 1 .. Tip /\ k - 1 \in g .. (k - 1) /\ k - 1 \in 1 .. k
        BY <1>1
    <2>2. PICK j \in k .. Tip :
             CommitPoint(j) /\ \A x \in k .. j : Kept[x].conf = Kept[k].conf
        BY <1>1, <1>4, <2>1 DEF SafeInv, CommitsHold
    <2>3. Kept[j].conf = Kept[k].conf
        BY <2>1, <2>2
    <2>4. Near(Kept[k - 1].conf, Kept[k].conf) /\ Kept[k - 1].conf = Kept[g].conf
        BY <1>1, <1>4, <2>1, KeptIsLog
    <2>5. Near(Kept[j].conf, log[n][Len(log[n])].conf)
        BY <1>2, <2>3, <2>4 DEF Near
    <2>6. SameTo(Kept, log[n], j)
        BY <2>2, <2>5, Covers
    <2>7. k \in 1 .. j /\ k - 1 \in 1 .. j /\ k \in g .. Len(log[n]) /\ k - 1 \in g .. Len(log[n])
        BY <1>1, <2>1, <2>2, <2>6 DEF SameTo
    <2>8. log[n][k] = Kept[k] /\ log[n][k - 1] = Kept[k - 1]
        BY <2>6, <2>7 DEF SameTo
    <2>9. log[n][k].conf = log[n][k - 1].conf
        BY <2>7
    <2> QED
        BY <1>4, <2>8, <2>9 DEF Changed
<1> QED
    BY <1>3, <1>4, CoversNext

\* A node whose last change is not in the history has all of the history before it.
LEMMA FreshOnBranch ==
    ASSUME SoundSetup, RaftOK, SafeInv, NEW n \in Node, NEW Q, Fresh(n, Q),
           NEW k \in (Base + 1) .. Len(log[n]), Changed(log[n], k),
           ~SameTo(Kept, log[n], k),
           \A x \in k .. Len(log[n]) : log[n][x].conf = log[n][k].conf
    PROVE  SameTo(Kept, log[n], Tip)
<1>1. /\ Begun /\ Base \in Nat /\ Tip \in Nat /\ Base >= 1 /\ Tip = Len(Kept)
      /\ Len(log[n]) \in Nat /\ k \in 1 .. Len(log[n]) /\ k - 1 \in 1 .. Len(log[n])
    BY BaseOK, KeptOK, LogOK DEF Begun, Fresh, SafeInv, Tip
<1>2. Near(log[n][k - 1].conf, log[n][k].conf) /\ Grounded(log[n], k)
    BY <1>1 DEF SafeInv, ChangesGrounded
<1>3. PICK j \in 1 .. (k - 1) :
         /\ CommitPoint(j) /\ SameTo(Kept, log[n], j) /\ log[n][j].term = log[n][k].term
         /\ \A x \in j .. (k - 1) : log[n][x].conf = log[n][j].conf
    BY <1>2 DEF Grounded
<1>4. /\ j \in Base .. Tip /\ j \in 1 .. Tip /\ j \in 1 .. Len(log[n]) /\ j \in 1 .. j
      /\ k - 1 \in j .. (k - 1) /\ Len(log[n]) \in k .. Len(log[n])
    BY <1>1, <1>3, HolderOf DEF SafeInv
<1>5. /\ Kept[j] = log[n][j] /\ log[n][k - 1].conf = log[n][j].conf
      /\ log[n][Len(log[n])].conf = log[n][k].conf
    BY <1>3, <1>4 DEF SameTo
<1>6. Near(Kept[j].conf, log[n][Len(log[n])].conf)
    BY <1>2, <1>5
<1>7. ASSUME NEW i \in (j + 1) .. Tip, Changed(Kept, i),
             \A x \in j .. (i - 1) : Kept[x].conf = Kept[j].conf
      PROVE  FALSE
    <2>1. i \in 1 .. Tip /\ i - 1 \in j .. (i - 1) /\ i - 1 \in Nat
        BY <1>1, <1>4
    <2>2. PICK a \in 1 .. (i - 1) :
             /\ CommitPoint(a) /\ SameTo(Kept, Kept, a) /\ Kept[a].term = Kept[i].term
             /\ \A x \in a .. (i - 1) : Kept[x].conf = Kept[a].conf
        BY <1>1, <1>7, <2>1, KeptIsLog DEF Grounded
    <2>3. Kept[a].conf = Kept[j].conf
        <3>1. i - 1 \in a .. (i - 1)
            BY <2>1, <2>2
        <3> QED
            BY <1>7, <2>1, <2>2, <3>1
    <2>4. SameTo(Kept, log[n], a)
        BY <1>6, <2>2, <2>3, Covers
    <2>5. a < k
        <3>1. CASE a >= k
            <4>1. SameTo(Kept, log[n], k)
                BY <1>1, <2>4, <3>1 DEF SameTo
            <4> QED
                BY <4>1
        <3> QED
            BY <1>1, <2>2, <3>1
    <2> DEFINE t == log[n][k].term
    <2>6. Kept[j].term = t /\ t \in Nat
        BY <1>1, <1>3, <1>5, LogOK
    <2>7. Kept[j].term <= Kept[i].term /\ Kept[i].term \in Nat /\ Kept[j].term \in Nat
        <3>1. j \in 1 .. i /\ i \in 1 .. i
            BY <1>4, <2>1
        <3> QED
            BY <1>1, <2>1, <3>1, KeptIsLog
    <2>8. Kept[i].term <= t
        <3>1. a \in 1 .. k /\ a \in 1 .. a /\ a \in 1 .. Len(log[n])
            BY <1>1, <2>2, <2>5
        <3>2. log[n][a].term <= t /\ log[n][a] = Kept[a]
            BY <1>1, <2>4, <3>1 DEF SafeInv, TermsRise, SameTo
        <3> QED
            BY <2>2, <3>2
    <2>9. Kept[i].term = t
        BY <2>6, <2>7, <2>8
    <2> HIDE DEF t
    <2>10. CASE k <= i
        <3>1. k \in 1 .. Tip /\ k \in 1 .. i /\ j \in 1 .. k
            BY <1>1, <1>4, <2>1, <2>10
        <3>2. Kept[k].term <= Kept[i].term /\ Kept[j].term <= Kept[k].term
              /\ Kept[k].term \in Nat
            <4>1. k \in 1 .. k
                BY <3>1
            <4> QED
                BY <1>1, <2>1, <3>1, <4>1, KeptIsLog
        <3>3. Kept[k].term = log[n][k].term
            BY <2>6, <2>9, <3>2 DEF t
        <3> QED
            BY <1>1, <3>1, <3>3, KeptIsLog
    <2>11. CASE i < k
        <3>1. /\ i \in 1 .. Len(log[n]) /\ i \in 1 .. k /\ j \in 1 .. i
              /\ i \in j .. (k - 1) /\ i - 1 \in j .. (k - 1)
            BY <1>1, <1>4, <2>1, <2>11
        <3>2. log[n][i].term <= t /\ log[n][j].term <= log[n][i].term
              /\ log[n][i].term \in Nat
            BY <1>1, <3>1, LogOK DEF SafeInv, TermsRise, t
        <3>3. log[n][i].term = Kept[i].term
            BY <1>5, <2>6, <2>9, <3>2
        <3>4. SameTo(Kept, log[n], i)
            BY <1>1, <2>1, <3>1, <3>3, KeptIsLog
        <3>5. log[n][i] = Kept[i] /\ log[n][i - 1] = Kept[i - 1]
            <4>1. i \in 1 .. i /\ i - 1 \in 1 .. i
                BY <1>4, <3>1
            <4> QED
                BY <3>4, <4>1 DEF SameTo
        <3>6. log[n][i].conf = log[n][i - 1].conf
            BY <1>3, <3>1
        <3> QED
            BY <1>7, <3>5, <3>6 DEF Changed
    <2> QED
        BY <1>1, <2>1, <2>10, <2>11
<1> QED
    BY <1>4, <1>6, <1>7, CoversNext

\* A node that could be elected or commit has the history.
LEMMA FreshHasHistory ==
    ASSUME SoundSetup, RaftOK, SafeInv, NEW n \in Node, NEW Q, Fresh(n, Q)
    PROVE  SameTo(Kept, log[n], Tip)
<1>1. /\ Begun /\ Base \in Nat /\ Tip \in Nat /\ Base >= 1 /\ Base <= Tip
      /\ Len(log[n]) \in Nat /\ SameTo(BaseLog, Kept, Base)
    BY BaseOK, KeptOK, LogOK DEF Begun, Fresh, SafeInv
<1>2. SameTo(Kept, log[n], Base) /\ Base <= Len(log[n])
    <2>1. SameTo(BaseLog, log[n], Base)
        BY DEF Fresh, SafeInv, Begins
    <2> QED
        BY <1>1, <2>1 DEF SameTo
<1> DEFINE T == {k \in (Base + 1) .. Len(log[n]) : Changed(log[n], k)}
<1>3. CASE T = {}
    <2>1. \A k \in (Base + 1) .. Len(log[n]) : ~Changed(log[n], k)
        BY <1>3
    <2>2. \A x \in Base .. Len(log[n]) : log[n][x].conf = log[n][Base].conf
        BY <1>1, <2>1, SameConfOfLog
    <2> QED
        BY <1>1, <1>2, <2>2, FreshOnHistory
<1>4. CASE T # {}
    <2>1. T \in SUBSET (0 .. Len(log[n]))
        BY <1>1
    <2>2. PICK k \in T : \A y \in T : y <= k
        BY <1>1, <1>4, <2>1, GreatestOf
    <2>3. k \in (Base + 1) .. Len(log[n]) /\ Changed(log[n], k)
        BY <2>2
    <2>4. \A x \in (k + 1) .. Len(log[n]) : ~Changed(log[n], x)
        BY <1>1, <2>2, <2>3
    <2>5. k \in Nat /\ k >= Base
        BY <1>1, <2>3
    <2>6. \A x \in k .. Len(log[n]) : log[n][x].conf = log[n][k].conf
        BY <1>1, <2>4, <2>5, SameConfOfLog
    <2>7. CASE SameTo(Kept, log[n], k)
        <3>1. k \in Base .. Tip
            BY <1>1, <2>5, <2>7 DEF SameTo, Tip
        <3> QED
            BY <2>6, <2>7, <3>1, FreshOnHistory
    <2>8. CASE ~SameTo(Kept, log[n], k)
        BY <2>3, <2>6, <2>8, FreshOnBranch
    <2> QED
        BY <2>7, <2>8
<1> QED
    BY <1>3, <1>4

\* A node that has the history goes on from it in the configuration there, or in
\* the one of a single change of the same term.
LEMMA EndConf ==
    ASSUME SoundSetup, RaftOK, SafeInv, Begun, NEW m \in Node, SameTo(Kept, log[m], Tip),
           NEW e \in Tip .. Len(log[m])
    PROVE  \/ log[m][e].conf = Kept[Tip].conf
           \/ \E k \in (Tip + 1) .. e :
                 /\ log[m][k].conf # Kept[Tip].conf /\ log[m][k].term = Kept[Tip].term
                 /\ Near(Kept[Tip].conf, log[m][k].conf) /\ log[m][e].conf = log[m][k].conf
                 /\ \A x \in Tip .. (k - 1) : log[m][x].conf = Kept[Tip].conf
<1>1. /\ Base \in Nat /\ Tip \in Nat /\ Base >= 1 /\ Base <= Tip /\ Len(log[m]) \in Nat
      /\ Tip <= Len(log[m]) /\ e \in Nat /\ e <= Len(log[m])
    BY BaseOK, KeptOK, LogOK DEF SafeInv, SameTo
<1>2. Kept[Tip] = log[m][Tip]
    BY <1>1 DEF SameTo
<1> DEFINE T == {k \in (Tip + 1) .. e : Changed(log[m], k)}
<1>3. CASE T = {}
    <2>1. \A k \in (Tip + 1) .. e : ~Changed(log[m], k)
        BY <1>3
    <2>2. \A x \in Tip .. e : log[m][x].conf = log[m][Tip].conf
        BY <1>1, <2>1, SameConfOfLog
    <2>3. e \in Tip .. e
        BY <1>1
    <2> QED
        BY <1>2, <2>2, <2>3
<1>4. CASE T # {}
    <2>1. T \in SUBSET (0 .. e)
        BY <1>1
    <2>2. PICK k \in T : \A y \in T : y <= k
        BY <1>1, <1>4, <2>1, GreatestOf
    <2>3. k \in (Tip + 1) .. e /\ Changed(log[m], k) /\ k \in 1 .. Len(log[m])
        BY <1>1, <2>2
    <2>4. \A x \in (k + 1) .. e : ~Changed(log[m], x)
        BY <1>1, <2>2, <2>3
    <2>5. k \in Nat /\ k >= Base
        BY <1>1, <2>3
    <2>6. \A x \in k .. e : log[m][x].conf = log[m][k].conf
        BY <1>1, <2>4, <2>5, SameConfOfLog
    <2>7. log[m][e].conf = log[m][k].conf
        BY <1>1, <2>3, <2>6
    <2>8. Near(log[m][k - 1].conf, log[m][k].conf) /\ Grounded(log[m], k)
        BY <2>3 DEF SafeInv, ChangesGrounded
    <2>9. PICK j \in 1 .. (k - 1) :
             /\ CommitPoint(j) /\ log[m][j].term = log[m][k].term
             /\ \A x \in j .. (k - 1) : log[m][x].conf = log[m][j].conf
        BY <2>8 DEF Grounded
    <2>10. j <= Tip /\ j \in 1 .. Len(log[m]) /\ Tip \in 1 .. Len(log[m])
           /\ Tip \in j .. (k - 1) /\ k - 1 \in j .. (k - 1) /\ j \in 1 .. Tip /\ Tip \in 1 .. k
        BY <1>1, <2>3, <2>9, HolderOf DEF SafeInv
    <2>11. \A x \in Tip .. (k - 1) : x \in j .. (k - 1)
        BY <1>1, <2>10
    <2>12. \A x \in Tip .. (k - 1) : log[m][x].conf = Kept[Tip].conf
        BY <1>2, <2>9, <2>10, <2>11
    <2>13. log[m][k - 1].conf = Kept[Tip].conf /\ log[m][k].conf # log[m][k - 1].conf
        BY <1>2, <2>3, <2>9, <2>10 DEF Changed
    <2>14. log[m][j].term <= log[m][Tip].term /\ log[m][Tip].term <= log[m][k].term
        BY <2>3, <2>10 DEF SafeInv, TermsRise
    <2>15. log[m][k].term = Kept[Tip].term
        <3>1. log[m][k].term \in Nat /\ log[m][Tip].term \in Nat
            BY <2>3, <2>10, LogOK
        <3> QED
            BY <1>2, <2>9, <2>14, <3>1
    <2> QED
        BY <2>3, <2>7, <2>8, <2>12, <2>13, <2>15
<1> QED
    BY <1>3, <1>4

\* Such changes are the same on all nodes.
LEMMA OneChange ==
    ASSUME SoundSetup, RaftOK, SafeInv, Begun,
           NEW m \in Node, SameTo(Kept, log[m], Tip), NEW n \in Node, SameTo(Kept, log[n], Tip),
           NEW k \in (Tip + 1) .. Len(log[m]), log[m][k].term = Kept[Tip].term,
           log[m][k].conf # Kept[Tip].conf,
           NEW i \in (Tip + 1) .. Len(log[n]), log[n][i].term = Kept[Tip].term,
           \A x \in Tip .. (i - 1) : log[n][x].conf = Kept[Tip].conf
    PROVE  i <= k
<1>1. /\ Tip \in Nat /\ Tip >= 1 /\ Len(log[m]) \in Nat /\ Len(log[n]) \in Nat
    BY BaseOK, KeptOK, LogOK DEF SafeInv
<1> SUFFICES ASSUME k < i PROVE FALSE
    BY <1>1
<1>2. k \in 1 .. Len(log[m]) /\ k \in 1 .. Len(log[n]) /\ i \in 1 .. Len(log[n])
      /\ k \in Tip .. (i - 1) /\ Tip \in 1 .. k /\ k \in 1 .. i
    BY <1>1
<1>3. log[n][Tip].term <= log[n][k].term /\ log[n][k].term <= log[n][i].term
    BY <1>2 DEF SafeInv, TermsRise
<1>4. log[n][Tip] = Kept[Tip]
    BY <1>1 DEF SameTo
<1>5. log[n][k].term \in Nat /\ log[n][i].term \in Nat
    BY <1>2, LogOK
<1>6. log[n][k].term = log[m][k].term
    BY <1>3, <1>4, <1>5
<1>7. SameTo(log[m], log[n], k)
    BY <1>2, <1>6 DEF SafeInv, LogsMatch
<1>8. k \in 1 .. k
    BY <1>1
<1>9. log[m][k] = log[n][k]
    BY <1>7, <1>8 DEF SameTo
<1> QED
    BY <1>2, <1>9

\* So the configurations behind the history are near each other.
LEMMA EndsNear ==
    ASSUME SoundSetup, RaftOK, SafeInv, Begun,
           NEW m \in Node, SameTo(Kept, log[m], Tip), NEW e \in Tip .. Len(log[m]),
           NEW n \in Node, SameTo(Kept, log[n], Tip), NEW d \in Tip .. Len(log[n])
    PROVE  Near(log[m][e].conf, log[n][d].conf) /\ Near(Kept[Tip].conf, log[n][d].conf)
<1>1. /\ Tip \in Nat /\ Tip >= 1 /\ Len(log[m]) \in Nat /\ Len(log[n]) \in Nat
      /\ Tip \in 1 .. Tip /\ e \in 1 .. Len(log[m]) /\ d \in 1 .. Len(log[n])
    BY BaseOK, KeptOK, LogOK DEF SafeInv
<1> DEFINE c == Kept[Tip].conf
           A(p, x, k) ==
               /\ log[p][k].conf # c /\ log[p][k].term = Kept[Tip].term
               /\ Near(c, log[p][k].conf) /\ log[p][x].conf = log[p][k].conf
               /\ \A y \in Tip .. (k - 1) : log[p][y].conf = c
<1>2. c \in SUBSET Node /\ log[m][e].conf \in SUBSET Node /\ log[n][d].conf \in SUBSET Node
    BY <1>1, KeptOK, LogOK DEF SafeInv
<1>3. log[m][e].conf = c \/ \E k \in (Tip + 1) .. e : A(m, e, k)
    BY EndConf
<1>4. log[n][d].conf = c \/ \E k \in (Tip + 1) .. d : A(n, d, k)
    BY EndConf
<1>5. Near(c, c) /\ Near(log[m][e].conf, log[m][e].conf)
    BY <1>2, NearSelf
<1>6. ASSUME NEW k \in (Tip + 1) .. e, A(m, e, k), NEW i \in (Tip + 1) .. d, A(n, d, i)
      PROVE  log[m][e].conf = log[n][d].conf
    <2>1. k \in (Tip + 1) .. Len(log[m]) /\ i \in (Tip + 1) .. Len(log[n])
        BY <1>1
    <2>2. i <= k
        BY <1>6, <2>1, OneChange
    <2>3. k <= i
        BY <1>6, <2>1, OneChange
    <2>4. i = k /\ i \in 1 .. Len(log[n]) /\ i \in 1 .. Len(log[m])
        BY <1>1, <2>1, <2>2, <2>3
    <2>5. log[m][i].term = log[n][i].term
        BY <1>6, <2>4
    <2>6. SameTo(log[m], log[n], i)
        BY <2>4, <2>5 DEF SafeInv, LogsMatch
    <2>7. log[m][i] = log[n][i]
        BY <2>4, <2>6 DEF SameTo
    <2> QED
        BY <1>6, <2>4, <2>7
<1>7. ASSUME NEW a, NEW b, Near(a, b) PROVE Near(b, a)
    BY <1>7 DEF Near
<1>8. Near(c, log[n][d].conf)
    BY <1>4, <1>5
<1>9. Near(c, log[m][e].conf)
    BY <1>3, <1>5
<1>10. CASE log[m][e].conf = c
    BY <1>8, <1>10
<1>11. CASE log[n][d].conf = c
    <2>1. Near(log[m][e].conf, c)
        BY <1>7, <1>9
    <2> QED
        BY <1>8, <1>11, <2>1
<1>12. CASE log[m][e].conf # c /\ log[n][d].conf # c
    <2>1. PICK k \in (Tip + 1) .. e : A(m, e, k)
        BY <1>3, <1>12
    <2>2. PICK i \in (Tip + 1) .. d : A(n, d, i)
        BY <1>4, <1>12
    <2>3. log[m][e].conf = log[n][d].conf
        BY <1>6, <2>1, <2>2
    <2> QED
        BY <1>5, <1>8, <2>3
<1> QED
    BY <1>8, <1>10, <1>11, <1>12

\* The majority knows of every term that an entry has been made in.
LEMMA TermSeen ==
    ASSUME SoundSetup, RaftOK, SafeInv, NEW n \in Node, NEW Q, Fresh(n, Q),
           NEW m \in Node, NEW i \in 1 .. Len(log[m])
    PROVE  \E q \in Q : term[q] >= log[m][i].term
<1>1. /\ Begun /\ Base \in Nat /\ Tip \in Nat /\ Base >= 1 /\ Base <= Tip /\ Tip \in 1 .. Tip
      /\ Len(log[n]) \in Nat /\ Len(log[m]) \in Nat /\ Len(log[n]) \in 1 .. Len(log[n])
    BY BaseOK, KeptOK, LogOK DEF Begun, Fresh, SafeInv
<1>2. SameTo(Kept, log[n], Tip)
    BY FreshHasHistory
<1>3. Len(log[n]) \in Tip .. Len(log[n])
    BY <1>1, <1>2 DEF SameTo
<1> DEFINE c == log[n][Len(log[n])].conf
           T == log[m][i].term
<1>4. /\ c \in SUBSET Node /\ Q \in SUBSET Node /\ Majority(c, Q) /\ T \in Nat
      /\ Kept[Tip].conf \in SUBSET Node /\ Kept[Tip].term \in Nat
    BY <1>1, KeptOK, LogOK DEF Fresh, SafeInv
<1>5. CommitPoint(Tip)
    BY <1>1 DEF SafeInv, CommitsHold
<1>6. CASE T <= Kept[Tip].term
    <2>1. Near(Kept[Tip].conf, c)
        BY <1>1, <1>2, <1>3, EndsNear
    <2>2. Holders(Tip) \in SUBSET Node /\ Majority(Kept[Tip].conf, Holders(Tip))
        BY <1>5 DEF Holders, CommitPoint
    <2>3. PICK q \in Q : q \in Holders(Tip)
        BY <1>4, <2>1, <2>2, MajoritiesMeet
    <2>4. q \in Node /\ SameTo(Kept, log[q], Tip) /\ Len(log[q]) \in Nat /\ term[q] \in Nat
        BY <2>3, LogOK DEF Holders
    <2>5. Tip \in 1 .. Len(log[q]) /\ log[q][Tip] = Kept[Tip]
        BY <1>1, <2>4 DEF SameTo
    <2>6. Kept[Tip].term \in 1 .. term[q]
        BY <2>4, <2>5 DEF SafeInv, TermsRise
    <2> QED
        BY <1>4, <1>6, <2>4, <2>6
<1>7. CASE T > Kept[Tip].term
    <2>1. Len(log[m]) \in 1 .. Len(log[m]) /\ i \in 1 .. Len(log[m])
        BY <1>1
    <2>2. T <= log[m][Len(log[m])].term /\ log[m][Len(log[m])].term \in Nat
        BY <2>1, LogOK DEF SafeInv, TermsRise
    <2>3. AtLeast(log[m], Kept, Tip)
        BY <1>1, <1>4, <1>7, <2>1, <2>2 DEF AtLeast
    <2>4. SameTo(Kept, log[m], Tip)
        BY <1>5, <2>3 DEF CommitPoint
    <2> DEFINE F == {x \in 1 .. Len(log[m]) : log[m][x].term = T}
    <2>5. F \in SUBSET Nat /\ F # {}
        BY <1>1
    <2>6. PICK f \in F : \A y \in F : f <= y
        BY <2>5, LeastOf
    <2>7. f \in 1 .. Len(log[m]) /\ log[m][f].term = T
        BY <2>6
    <2>8. f > Tip
        <3> SUFFICES ASSUME f <= Tip PROVE FALSE
            BY <1>1, <2>7
        <3>1. f \in 1 .. Tip /\ Tip \in 1 .. Len(log[m])
            BY <1>1, <2>4, <2>7 DEF SameTo
        <3>2. log[m][f].term <= log[m][Tip].term /\ log[m][Tip] = Kept[Tip]
            BY <1>1, <2>4, <3>1 DEF SafeInv, TermsRise, SameTo
        <3> QED
            BY <1>4, <1>7, <2>7, <3>2
    <2>9. /\ f - 1 \in 1 .. Len(log[m]) /\ f - 1 \in 1 .. f /\ f - 1 \in Tip .. Len(log[m])
          /\ f \in (Base + 1) .. Len(log[m]) /\ f - 1 \notin F
        BY <1>1, <2>6, <2>7, <2>8
    <2>10. log[m][f - 1].term < log[m][f].term
        <3>1. log[m][f - 1].term <= log[m][f].term /\ log[m][f - 1].term \in Nat
            BY <2>7, <2>9, LogOK DEF SafeInv, TermsRise
        <3>2. log[m][f - 1].term # T
            BY <2>9
        <3> QED
            BY <1>4, <2>7, <3>1, <3>2
    <2> DEFINE P == {p \in Node : term[p] >= log[m][f].term}
    <2>11. Majority(log[m][f - 1].conf, P)
        BY <2>9, <2>10 DEF SafeInv, VotesHold
    <2>12. Near(log[m][f - 1].conf, c)
        BY <1>1, <1>2, <1>3, <2>4, <2>9, EndsNear
    <2>13. log[m][f - 1].conf \in SUBSET Node /\ P \in SUBSET Node
        BY <2>9, LogOK
    <2>14. PICK q \in P : q \in Q
        BY <1>4, <2>11, <2>12, <2>13, MajoritiesMeet
    <2> QED
        BY <2>7, <2>14
<1> QED
    BY <1>4, <1>6, <1>7

\* A leader has what was committed up to its term.
LEMMA LeaderHas ==
    ASSUME SoundSetup, RaftOK, SafeInv, NEW l \in Node, leads[l],
           NEW j, CommitPoint(j), Kept[j].term <= term[l]
    PROVE  SameTo(Kept, log[l], j)
<1>1. Len(log[l]) > 0 /\ Len(log[l]) \in Nat /\ Len(log[l]) \in 1 .. Len(log[l])
    BY LogOK, EmptyLen DEF RaftOK
<1>2. Begun
    BY <1>1 DEF Begun
<1>3. j \in 1 .. Tip /\ j \in Nat
    BY <1>2, HolderOf, KeptOK DEF SafeInv
<1>4. Kept[j].term \in Nat /\ term[l] \in Nat /\ log[l][Len(log[l])].term = term[l]
    BY <1>2, <1>3, KeptOK, LogOK DEF SafeInv, LeadersOwn
<1>5. CASE Kept[j].term < term[l]
    <2>1. AtLeast(log[l], Kept, j)
        BY <1>1, <1>4, <1>5 DEF AtLeast
    <2> QED
        BY <2>1 DEF CommitPoint
<1>6. CASE Kept[j].term = term[l]
    <2>1. PICK p \in Node : SameTo(Kept, log[p], j)
        BY <1>2, HolderOf DEF SafeInv
    <2>2. j \in 1 .. Len(log[p]) /\ log[p][j] = Kept[j]
        BY <1>3, <2>1, LogOK DEF SameTo
    <2>3. j <= Len(log[l])
        BY <1>6, <2>2 DEF SafeInv, LeadersOwn
    <2>4. AtLeast(log[l], Kept, j)
        BY <1>1, <1>4, <1>6, <2>3 DEF AtLeast
    <2> QED
        BY <2>4 DEF CommitPoint
<1> QED
    BY <1>4, <1>5, <1>6

-----------------------------------------------------------------------------
(* Steps that make no entry. *)

\* A commit point stays one when the history up to it stays, and the logs that have
\* it or are as recent have it afterwards.
LEMMA PointStays ==
    ASSUME SoundSetup, RaftOK, Begins, Begun, NEW j, CommitPoint(j),
           Tip' \in Nat, j <= Tip', SameTo(Kept, Kept', j),
           \A p \in Node : SameTo(Kept, log[p], j) => SameTo(Kept, log'[p], j),
           \A p \in Node : AtLeast(log'[p], Kept, j) => SameTo(Kept, log'[p], j)
    PROVE  CommitPoint(j)'
<1>1. j \in Nat /\ j \in Base .. Tip' /\ j \in 1 .. j /\ j \in 1 .. Tip /\ Base' = Base
    BY HolderOf, BaseOK
<1>2. Kept'[j] = Kept[j] /\ Kept[j].conf \in SUBSET Node
    BY <1>1, KeptOK DEF SameTo
<1>3. ASSUME NEW p \in Node, SameTo(Kept, log'[p], j) PROVE SameTo(Kept', log'[p], j)
    BY <1>3 DEF SameTo
<1>4. Holders(j) \in SUBSET Node /\ Holders(j)' \in SUBSET Node
    BY DEF Holders
<1>5. Kept[j].conf \cap Holders(j) \subseteq Holders(j)'
    BY <1>3 DEF Holders
<1>6. Majority(Kept[j].conf, Holders(j)')
    BY <1>2, <1>4, <1>5, MajorityGrows DEF CommitPoint
<1>7. ASSUME NEW n \in Node, AtLeast(log'[n], Kept', j)
      PROVE  SameTo(Kept', log'[n], j)
    BY <1>2, <1>3, <1>7 DEF AtLeast
<1> QED
    BY <1>1, <1>2, <1>6, <1>7 DEF CommitPoint

\* A step that makes no entry: nodes keep their logs or take a leader's, terms do
\* not fall, and nobody begins to lead or commits.
Copies ==
    /\ chosen' = chosen
    /\ \A p \in Node :
          /\ term[p] <= term'[p]
          /\ \/ log'[p] = log[p]
             \/ \E l \in Node : leads[l] /\ log'[p] = log[l] /\ term[p] <= term[l]
                                /\ term'[p] = term[l]
          /\ leads'[p] => /\ leads[p] /\ log'[p] = log[p]
                          /\ term'[p] = term[p] /\ commit'[p] = commit[p]

\* Every log was a log of a node whose term has been reached, and none gets lost.
LEMMA CopiedLogs ==
    ASSUME RaftOK, RaftOK', Copies
    PROVE  /\ Kept' = Kept /\ Tip' = Tip /\ Begun' = Begun
           /\ \A p \in Node : \E m \in Node : log'[p] = log[m] /\ term[m] <= term'[p]
           /\ \A p \in Node : Len(log[p]) > 0 => Len(log'[p]) > 0
           /\ \A p \in Node : term[p] \in Nat /\ term'[p] \in Nat
<1>1. Kept' = Kept /\ Tip' = Tip
    BY DEF Copies, Kept, Tip
<1>2. \A p \in Node : term[p] \in Nat /\ term'[p] \in Nat
    BY DEF RaftOK
<1>3. \A p \in Node : \E m \in Node : log'[p] = log[m] /\ term[m] <= term'[p]
    BY <1>2 DEF Copies
<1>4. \A p \in Node : Len(log[p]) > 0 => Len(log'[p]) > 0
    BY DEF Copies, RaftOK
<1>5. Begun' = Begun
    BY <1>3, <1>4 DEF Begun
<1> QED
    BY <1>1, <1>2, <1>3, <1>4, <1>5

\* Commit points stay.
LEMMA CopiedPoints ==
    ASSUME SoundSetup, RaftOK, RaftOK', SafeInv, Copies, Begun, NEW j, CommitPoint(j)
    PROVE  CommitPoint(j)'
<1>1. j \in 1 .. Tip /\ j \in 1 .. j /\ j \in Nat /\ Tip \in Nat /\ j <= Tip
    BY HolderOf, KeptOK DEF SafeInv
<1>2. Kept' = Kept /\ Tip' = Tip
    BY CopiedLogs
<1>3. SameTo(Kept, Kept', j)
    BY <1>1, <1>2 DEF SameTo, Tip
<1>4. ASSUME NEW p \in Node, SameTo(Kept, log[p], j)
      PROVE  SameTo(Kept, log'[p], j)
    <2>1. CASE log'[p] = log[p]
        BY <1>4, <2>1
    <2>2. ASSUME NEW l \in Node, leads[l], log'[p] = log[l], term[p] <= term[l]
          PROVE  SameTo(Kept, log'[p], j)
        <3>1. j \in 1 .. Len(log[p]) /\ Kept[j] = log[p][j] /\ term[p] \in Nat /\ term[l] \in Nat
            BY <1>1, <1>4, LogOK DEF SameTo
        <3>2. Kept[j].term \in 1 .. term[p]
            BY <3>1 DEF SafeInv, TermsRise
        <3>3. Kept[j].term <= term[l]
            BY <2>2, <3>1, <3>2
        <3> QED
            BY <2>2, <3>3, LeaderHas
    <2> QED
        BY <2>1, <2>2 DEF Copies
<1>5. ASSUME NEW p \in Node, AtLeast(log'[p], Kept, j)
      PROVE  SameTo(Kept, log'[p], j)
    BY <1>5, CopiedLogs DEF CommitPoint
<1> QED
    BY <1>1, <1>2, <1>3, <1>4, <1>5, PointStays DEF SafeInv

\* Such a step keeps the invariant.
LEMMA CopySafe ==
    ASSUME SoundSetup, RaftOK, RaftOK', SafeInv, Copies
    PROVE  SafeInv'
<1>1. /\ Kept' = Kept /\ Tip' = Tip /\ Begun' = Begun /\ chosen' = chosen
      /\ \A p \in Node : \E m \in Node : log'[p] = log[m] /\ term[m] <= term'[p]
      /\ \A p \in Node : Len(log[p]) > 0 => Len(log'[p]) > 0
      /\ \A p \in Node : term[p] \in Nat /\ term'[p] \in Nat
    BY CopiedLogs DEF Copies
<1>2. \A j : Begun /\ CommitPoint(j) => CommitPoint(j)'
    BY CopiedPoints
<1>3. Begins'
    BY <1>1 DEF SafeInv, Begins
<1>4. TermsRise'
    <2>1. ASSUME NEW n \in Node, NEW i \in 1 .. Len(log'[n])
          PROVE  /\ log'[n][i].term \in 1 .. term'[n]
                 /\ \A k \in 1 .. i : log'[n][k].term <= log'[n][i].term
        <3>1. PICK m \in Node : log'[n] = log[m] /\ term[m] <= term'[n]
            BY <1>1
        <3>2. /\ log[m][i].term \in 1 .. term[m]
              /\ \A k \in 1 .. i : log[m][k].term <= log[m][i].term
            BY <3>1 DEF SafeInv, TermsRise
        <3> QED
            BY <1>1, <3>1, <3>2
    <2> QED
        BY <2>1 DEF TermsRise
<1>5. LogsMatch'
    <2>1. ASSUME NEW m \in Node, NEW n \in Node, NEW i \in 1 .. Len(log'[m]),
                 i <= Len(log'[n]), log'[m][i].term = log'[n][i].term
          PROVE  SameTo(log'[m], log'[n], i)
        <3>1. PICK a \in Node : log'[m] = log[a]
            BY <1>1
        <3>2. PICK b \in Node : log'[n] = log[b]
            BY <1>1
        <3> QED
            BY <2>1, <3>1, <3>2 DEF SafeInv, LogsMatch
    <2> QED
        BY <2>1 DEF LogsMatch
<1>6. OneLeader'
    BY DEF SafeInv, OneLeader, Copies
<1>7. LeadersOwn'
    <2>1. ASSUME NEW l \in Node, leads'[l]
          PROVE  /\ log'[l][Len(log'[l])].term = term'[l]
                 /\ \A n \in Node : \A i \in 1 .. Len(log'[n]) :
                       log'[n][i].term = term'[l]
                          => i <= Len(log'[l]) /\ log'[l][i].term = term'[l]
                 /\ commit'[l] > 0 =>
                       /\ CommitPoint(commit[l])' /\ SameTo(Kept, log'[l], commit'[l])
                       /\ log'[l][commit'[l]].term = term'[l]
        <3>1. /\ leads[l] /\ log'[l] = log[l] /\ term'[l] = term[l]
              /\ commit'[l] = commit[l]
            BY <2>1 DEF Copies
        <3>2. Begun
            BY <3>1 DEF RaftOK, Begun
        <3>3. ASSUME NEW n \in Node, NEW i \in 1 .. Len(log'[n]), log'[n][i].term = term'[l]
              PROVE  i <= Len(log'[l]) /\ log'[l][i].term = term'[l]
            <4>1. PICK m \in Node : log'[n] = log[m]
                BY <1>1
            <4> QED
                BY <3>1, <3>3, <4>1 DEF SafeInv, LeadersOwn
        <3> QED
            BY <1>2, <3>1, <3>2, <3>3 DEF SafeInv, LeadersOwn
    <2> QED
        BY <1>1, <2>1 DEF LeadersOwn
<1>8. ChangesGrounded'
    <2>1. ASSUME NEW n \in Node, NEW k \in 1 .. Len(log'[n]), Changed(log'[n], k)
          PROVE  /\ log'[n][k].kind = "conf" /\ Near(log'[n][k - 1].conf, log'[n][k].conf)
                 /\ Grounded(log[n], k)'
        <3>1. PICK m \in Node : log'[n] = log[m]
            BY <1>1
        <3>2. /\ log[m][k].kind = "conf" /\ Near(log[m][k - 1].conf, log[m][k].conf)
              /\ Grounded(log[m], k)
            BY <2>1, <3>1 DEF SafeInv, ChangesGrounded
        <3>3. Begun
            BY <3>1, LogOK DEF Begun
        <3> QED
            BY <1>1, <1>2, <3>1, <3>2, <3>3 DEF Grounded
    <2> QED
        BY <2>1 DEF ChangesGrounded
<1>9. CommitsHold'
    BY <1>1, <1>2 DEF SafeInv, CommitsHold
<1>10. VotesHold'
    <2>1. ASSUME NEW n \in Node, NEW i \in (Base + 1) .. Len(log'[n]),
                 log'[n][i - 1].term < log'[n][i].term
          PROVE  Majority(log'[n][i - 1].conf, {p \in Node : term'[p] >= log'[n][i].term})
        <3>1. PICK m \in Node : log'[n] = log[m]
            BY <1>1
        <3>2. i \in 1 .. Len(log[m]) /\ i - 1 \in 1 .. Len(log[m])
            BY <3>1, BaseOK, LogOK
        <3> DEFINE t == log[m][i].term
                   c == log[m][i - 1].conf
                   P == {p \in Node : term[p] >= t}
                   Q == {p \in Node : term'[p] >= t}
        <3>3. Majority(c, P)
            BY <2>1, <3>1 DEF SafeInv, VotesHold
        <3>4. c \in SUBSET Node /\ t \in Nat /\ P \in SUBSET Node /\ Q \in SUBSET Node
            BY <3>2, LogOK
        <3>5. P \subseteq Q
            BY <1>1, <3>4 DEF Copies
        <3> HIDE DEF c, P, Q
        <3>6. Majority(c, Q)
            BY <3>3, <3>4, <3>5, MajorityGrows
        <3> QED
            BY <3>1, <3>6 DEF c, Q
    <2> QED
        BY <2>1 DEF VotesHold
<1> QED
    BY <1>3, <1>4, <1>5, <1>6, <1>7, <1>8, <1>9, <1>10 DEF SafeInv

-----------------------------------------------------------------------------
(* Steps in which a leader, old or new, makes an entry. *)

\* Leader l makes entry e of its term: it has all entries of that term and all that
\* was committed up to it, a majority has elected it, and when the entry changes
\* the configuration, it does so by one server and behind a commit point.
Grows(l, e) ==
    /\ e \in Entry /\ e.term >= 1 /\ leads'[l] /\ chosen' = chosen
    /\ log' = [log EXCEPT ![l] = Append(log[l], e)]
    /\ term'[l] = e.term /\ \A p \in Node : term[p] <= term'[p]
    /\ \A p \in Node \ {l} : leads'[p] =>
          leads[p] /\ term'[p] = term[p] /\ commit'[p] = commit[p] /\ term[p] # e.term
    /\ commit'[l] = 0 \/ (leads[l] /\ commit'[l] = commit[l] /\ term[l] = e.term)
    /\ Len(log[l]) > 0 /\ log[l][Len(log[l])].term <= e.term
    /\ \A n \in Node : \A i \in 1 .. Len(log[n]) :
          log[n][i].term = e.term => i <= Len(log[l]) /\ log[l][i].term = e.term
    /\ \A j : CommitPoint(j) /\ Kept[j].term <= e.term => SameTo(Kept, log[l], j)
    /\ log[l][Len(log[l])].term < e.term =>
          Majority(log[l][Len(log[l])].conf, {p \in Node : term'[p] >= e.term})
    /\ e.conf # log[l][Len(log[l])].conf =>
          /\ e.kind = "conf" /\ Near(log[l][Len(log[l])].conf, e.conf)
          /\ \E j \in 1 .. Len(log[l]) :
                /\ CommitPoint(j) /\ SameTo(Kept, log[l], j) /\ log[l][j].term = e.term
                /\ \A x \in j .. Len(log[l]) : log[l][x].conf = log[l][j].conf

\* The logs after such a step: an entry is an old one, or it is e.
LEMMA GrownLogs ==
    ASSUME RaftOK, RaftOK', NEW l \in Node, NEW e, Grows(l, e)
    PROVE  /\ Kept' = Kept /\ Tip' = Tip /\ Begun /\ Begun' /\ chosen' = chosen
           /\ Len(log[l]) \in Nat /\ Len(log[l]) >= 1
           /\ Len(log'[l]) = Len(log[l]) + 1 /\ log'[l][Len(log[l]) + 1] = e
           /\ e.term \in Nat /\ e.term >= 1 /\ e.conf \in SUBSET Node
           /\ \A p \in Node : /\ Len(log[p]) \in Nat /\ Len(log'[p]) \in Nat
                              /\ Len(log[p]) <= Len(log'[p])
                              /\ \A i \in 1 .. Len(log[p]) : log'[p][i] = log[p][i]
                              /\ term[p] \in Nat /\ term'[p] \in Nat /\ term[p] <= term'[p]
           /\ \A p \in Node : p # l => log'[p] = log[p]
           /\ \A p \in Node : \A i \in 1 .. Len(log'[p]) :
                 \/ i \in 1 .. Len(log[p])
                 \/ p = l /\ i = Len(log[l]) + 1 /\ log'[p][i] = e
<1>1. Kept' = Kept /\ Tip' = Tip /\ chosen' = chosen
    BY DEF Grows, Kept, Tip
<1>2. /\ e \in Entry /\ log \in [Node -> Seq(Entry)] /\ log[l] \in Seq(Entry)
      /\ log' = [log EXCEPT ![l] = Append(log[l], e)] /\ Len(log[l]) > 0
      /\ e.term >= 1
    BY DEF Grows, RaftOK
<1>3. e.term \in Nat /\ e.conf \in SUBSET Node
    BY <1>2 DEF Entry
<1>4. \A p \in Node : /\ Len(log[p]) \in Nat /\ Len(log'[p]) \in Nat
                      /\ term[p] \in Nat /\ term'[p] \in Nat /\ term[p] <= term'[p]
    BY LenProperties DEF RaftOK, Grows
<1>5. log'[l] = Append(log[l], e) /\ \A p \in Node : p # l => log'[p] = log[p]
    BY <1>2
<1>6. /\ Len(log'[l]) = Len(log[l]) + 1 /\ log'[l][Len(log[l]) + 1] = e
      /\ \A i \in 1 .. Len(log[l]) : log'[l][i] = log[l][i]
    BY <1>2, <1>5, AppendEntry
<1>7. \A p \in Node : /\ Len(log[p]) <= Len(log'[p])
                      /\ \A i \in 1 .. Len(log[p]) : log'[p][i] = log[p][i]
    BY <1>4, <1>5, <1>6
<1>8. \A p \in Node : \A i \in 1 .. Len(log'[p]) :
         \/ i \in 1 .. Len(log[p])
         \/ p = l /\ i = Len(log[l]) + 1 /\ log'[p][i] = e
    BY <1>4, <1>5, <1>6
<1>9. Begun /\ Begun'
    BY <1>2, <1>4, <1>6 DEF Begun
<1> QED
    BY <1>1, <1>2, <1>3, <1>4, <1>5, <1>6, <1>7, <1>8, <1>9

\* Commit points stay.
LEMMA GrownPoints ==
    ASSUME SoundSetup, RaftOK, RaftOK', SafeInv, NEW l \in Node, NEW e, Grows(l, e),
           NEW j, CommitPoint(j)
    PROVE  CommitPoint(j)'
<1>1. /\ Kept' = Kept /\ Tip' = Tip /\ Begun
      /\ \A p \in Node : /\ Len(log[p]) \in Nat /\ Len(log'[p]) \in Nat
                         /\ Len(log[p]) <= Len(log'[p])
                         /\ \A i \in 1 .. Len(log[p]) : log'[p][i] = log[p][i]
      /\ \A p \in Node : p # l => log'[p] = log[p]
      /\ Len(log'[l]) = Len(log[l]) + 1 /\ log'[l][Len(log[l]) + 1] = e /\ e.term \in Nat
    BY GrownLogs
<1>2. j \in 1 .. Tip /\ j \in 1 .. j /\ j \in Nat /\ Tip \in Nat /\ j <= Tip
      /\ Kept[j].term \in Nat
    BY <1>1, HolderOf, KeptOK DEF SafeInv
<1>3. SameTo(Kept, Kept', j)
    BY <1>1, <1>2 DEF SameTo, Tip
<1>4. ASSUME NEW p \in Node, SameTo(Kept, log[p], j)
      PROVE  SameTo(Kept, log'[p], j)
    BY <1>1, <1>2, <1>4 DEF SameTo
<1>5. ASSUME NEW p \in Node, AtLeast(log'[p], Kept, j)
      PROVE  SameTo(Kept, log'[p], j)
    <2>1. CASE p # l
        BY <1>1, <1>5, <2>1 DEF CommitPoint
    <2>2. CASE p = l
        <3>1. Kept[j].term <= e.term
            BY <1>1, <1>2, <1>5, <2>2 DEF AtLeast
        <3>2. SameTo(Kept, log[l], j)
            BY <3>1 DEF Grows
        <3> QED
            BY <1>4, <2>2, <3>2
    <2> QED
        BY <2>1, <2>2
<1> QED
    BY <1>1, <1>2, <1>3, <1>4, <1>5, PointStays DEF SafeInv

\* The terms of the entries.
LEMMA GrownTerms ==
    ASSUME SoundSetup, RaftOK, RaftOK', SafeInv, NEW l \in Node, NEW e, Grows(l, e)
    PROVE  Begins' /\ TermsRise' /\ LogsMatch' /\ OneLeader'
<1>1. /\ Begun /\ Begun' /\ chosen' = chosen
      /\ Len(log[l]) \in Nat /\ Len(log[l]) >= 1
      /\ Len(log'[l]) = Len(log[l]) + 1 /\ log'[l][Len(log[l]) + 1] = e
      /\ e.term \in Nat /\ e.term >= 1
      /\ \A p \in Node : p # l => log'[p] = log[p]
    BY GrownLogs
<1>2. \A p \in Node : /\ Len(log[p]) \in Nat /\ Len(log'[p]) \in Nat
                      /\ Len(log[p]) <= Len(log'[p])
                      /\ \A i \in 1 .. Len(log[p]) : log'[p][i] = log[p][i]
                      /\ term[p] \in Nat /\ term'[p] \in Nat /\ term[p] <= term'[p]
    BY GrownLogs
<1>3. \A p \in Node : \A i \in 1 .. Len(log'[p]) :
         \/ i \in 1 .. Len(log[p])
         \/ p = l /\ i = Len(log[l]) + 1 /\ log'[p][i] = e
    BY GrownLogs
<1>4. Begins'
    <2>1. ASSUME NEW n \in Node, Len(log'[n]) # 0 PROVE SameTo(BaseLog, log'[n], Base)
        <3>1. Len(log[n]) # 0
            BY <1>1, <2>1
        <3>2. SameTo(BaseLog, log[n], Base)
            BY <3>1 DEF SafeInv, Begins
        <3> QED
            BY <1>2, <3>2, BaseOK DEF SameTo
    <2>2. Founder \in Node /\ Len(log'[Founder]) > 0
        BY <1>1, <1>2 DEF SafeInv, Begins
    <2> QED
        BY <1>1, <2>1, <2>2 DEF SafeInv, Begins
<1>5. TermsRise'
    <2>1. ASSUME NEW n \in Node, NEW i \in 1 .. Len(log[n])
          PROVE  /\ log'[n][i].term \in 1 .. term'[n]
                 /\ \A k \in 1 .. i : log'[n][k].term <= log'[n][i].term
        <3>1. log'[n][i] = log[n][i] /\ \A k \in 1 .. i : log'[n][k] = log[n][k]
            BY <1>2
        <3>2. /\ log[n][i].term \in 1 .. term[n]
              /\ \A k \in 1 .. i : log[n][k].term <= log[n][i].term
            BY DEF SafeInv, TermsRise
        <3> QED
            BY <1>2, <3>1, <3>2
    <2>2. /\ e.term \in 1 .. term'[l]
          /\ \A k \in 1 .. (Len(log[l]) + 1) : log'[l][k].term <= e.term
        <3>1. e.term \in 1 .. term'[l]
            BY <1>1 DEF Grows
        <3>2. ASSUME NEW k \in 1 .. Len(log[l]) PROVE log'[l][k].term <= e.term
            <4>1. Len(log[l]) \in 1 .. Len(log[l]) /\ k \in 1 .. Len(log[l])
                BY <1>1
            <4>2. log[l][k].term <= log[l][Len(log[l])].term
                BY <4>1 DEF SafeInv, TermsRise
            <4>3. log[l][k].term \in Nat /\ log[l][Len(log[l])].term \in Nat
                BY <4>1, LogOK
            <4> QED
                BY <1>1, <1>2, <4>1, <4>2, <4>3 DEF Grows
        <3> QED
            BY <1>1, <3>1, <3>2
    <2>3. ASSUME NEW n \in Node, NEW i \in 1 .. Len(log'[n])
          PROVE  /\ log'[n][i].term \in 1 .. term'[n]
                 /\ \A k \in 1 .. i : log'[n][k].term <= log'[n][i].term
        BY <1>3, <2>1, <2>2
    <2> QED
        BY <2>3 DEF TermsRise
<1>6. LogsMatch'
    <2>1. ASSUME NEW m \in Node, NEW n \in Node, NEW i \in 1 .. Len(log'[m]),
                 i <= Len(log'[n]), log'[m][i].term = log'[n][i].term
          PROVE  SameTo(log'[m], log'[n], i)
        <3>1. i \in 1 .. Len(log'[n]) /\ i \in Nat
            BY <1>2, <2>1
        <3>2. CASE i \in 1 .. Len(log[m]) /\ i \in 1 .. Len(log[n])
            <4>1. i <= Len(log[n]) /\ i <= Len(log[m]) /\ log[m][i].term = log[n][i].term
                BY <1>2, <2>1, <3>2
            <4>2. SameTo(log[m], log[n], i)
                BY <3>2, <4>1 DEF SafeInv, LogsMatch
            <4>3. \A x \in 1 .. i : log'[m][x] = log[m][x] /\ log'[n][x] = log[n][x]
                BY <1>2, <3>2
            <4>4. i <= Len(log'[m])
                BY <1>2, <3>2
            <4> QED
                BY <2>1, <4>2, <4>3, <4>4 DEF SameTo
        <3>3. CASE i \notin 1 .. Len(log[m]) /\ i \in 1 .. Len(log[n])
            <4>1. i = Len(log[l]) + 1 /\ log'[m][i] = e
                BY <1>3, <3>3
            <4>2. log[n][i].term = e.term
                BY <1>2, <2>1, <3>3, <4>1
            <4>3. i <= Len(log[l])
                BY <3>3, <4>2 DEF Grows
            <4> QED
                BY <1>1, <4>1, <4>3
        <3>4. CASE i \in 1 .. Len(log[m]) /\ i \notin 1 .. Len(log[n])
            <4>1. i = Len(log[l]) + 1 /\ log'[n][i] = e
                BY <1>3, <3>1, <3>4
            <4>2. log[m][i].term = e.term
                BY <1>2, <2>1, <3>4, <4>1
            <4>3. i <= Len(log[l])
                BY <3>4, <4>2 DEF Grows
            <4> QED
                BY <1>1, <4>1, <4>3
        <3>5. CASE i \notin 1 .. Len(log[m]) /\ i \notin 1 .. Len(log[n])
            <4>1. m = l /\ n = l
                BY <1>3, <3>1, <3>5
            <4> QED
                BY <1>2, <2>1, <3>1, <4>1 DEF SameTo
        <3> QED
            BY <3>2, <3>3, <3>4, <3>5
    <2> QED
        BY <2>1 DEF LogsMatch
<1>7. OneLeader'
    BY DEF SafeInv, OneLeader, Grows
<1> QED
    BY <1>4, <1>5, <1>6, <1>7

\* The leaders.
LEMMA GrownLeaders ==
    ASSUME SoundSetup, RaftOK, RaftOK', SafeInv, NEW l \in Node, NEW e, Grows(l, e)
    PROVE  LeadersOwn'
<1>1. /\ Kept' = Kept /\ Len(log[l]) \in Nat /\ Len(log[l]) >= 1
      /\ Len(log'[l]) = Len(log[l]) + 1 /\ log'[l][Len(log[l]) + 1] = e
      /\ \A p \in Node : p # l => log'[p] = log[p]
      /\ \A p \in Node : \A i \in 1 .. Len(log[p]) : log'[p][i] = log[p][i]
    BY GrownLogs
<1>2. \A p \in Node : \A i \in 1 .. Len(log'[p]) :
         \/ i \in 1 .. Len(log[p])
         \/ p = l /\ i = Len(log[l]) + 1 /\ log'[p][i] = e
    BY GrownLogs
<1>3. ASSUME NEW p \in Node, leads'[p], NEW n \in Node, NEW i \in 1 .. Len(log'[n]),
             log'[n][i].term = term'[p]
      PROVE  i <= Len(log'[p]) /\ log'[p][i].term = term'[p]
    <2>1. CASE p = l
        <3>1. CASE i \in 1 .. Len(log[n])
            <4>1. log[n][i].term = e.term
                BY <1>1, <1>3, <2>1, <3>1 DEF Grows
            <4>2. i <= Len(log[l]) /\ log[l][i].term = e.term
                BY <3>1, <4>1 DEF Grows
            <4> QED
                BY <1>1, <2>1, <4>1, <4>2 DEF Grows
        <3>2. CASE i \notin 1 .. Len(log[n])
            <4>1. n = p /\ i = Len(log[l]) + 1
                BY <1>2, <2>1, <3>2
            <4>2. i <= Len(log'[p])
                BY <1>1, <2>1, <4>1
            <4> QED
                BY <1>3, <4>1, <4>2
        <3> QED
            BY <3>1, <3>2
    <2>2. CASE p # l
        <3>1. leads[p] /\ term'[p] = term[p] /\ term[p] # e.term /\ log'[p] = log[p]
            BY <1>1, <1>3, <2>2 DEF Grows
        <3>2. i \in 1 .. Len(log[n])
            BY <1>2, <1>3, <3>1
        <3>3. log[n][i].term = term[p]
            BY <1>1, <1>3, <3>1, <3>2
        <3>4. i <= Len(log[p]) /\ log[p][i].term = term[p]
            BY <3>1, <3>2, <3>3 DEF SafeInv, LeadersOwn
        <3> QED
            BY <3>1, <3>4
    <2> QED
        BY <2>1, <2>2
<1>4. ASSUME NEW p \in Node, leads'[p] PROVE log'[p][Len(log'[p])].term = term'[p]
    BY <1>1, <1>4 DEF Grows, SafeInv, LeadersOwn
<1>5. ASSUME NEW p \in Node, leads'[p], commit'[p] > 0
      PROVE  /\ CommitPoint(commit[p])' /\ SameTo(Kept, log'[p], commit'[p])
             /\ log'[p][commit'[p]].term = term'[p]
    <2>1. leads[p] /\ commit'[p] = commit[p] /\ term'[p] = term[p]
        BY <1>5 DEF Grows
    <2>2. /\ CommitPoint(commit[p]) /\ SameTo(Kept, log[p], commit[p])
          /\ log[p][commit[p]].term = term[p]
        BY <1>5, <2>1 DEF SafeInv, LeadersOwn
    <2>3. CommitPoint(commit[p])'
        BY <2>1, <2>2, GrownPoints
    <2>4. commit[p] \in Nat /\ commit[p] \in 1 .. Len(log[p]) /\ Len(log[p]) <= Len(log'[p])
          /\ Len(log[p]) \in Nat /\ Len(log'[p]) \in Nat
        BY <1>5, <2>1, GrownLogs DEF RaftOK
    <2>5. SameTo(Kept, log'[p], commit[p]) /\ log'[p][commit[p]] = log[p][commit[p]]
        BY <1>1, <2>2, <2>4 DEF SameTo
    <2> QED
        BY <2>1, <2>2, <2>3, <2>5
<1> QED
    BY <1>1, <1>3, <1>4, <1>5 DEF LeadersOwn

\* The changes of the configuration.
LEMMA GrownChanges ==
    ASSUME SoundSetup, RaftOK, RaftOK', SafeInv, NEW l \in Node, NEW e, Grows(l, e)
    PROVE  ChangesGrounded'
<1>1. /\ Kept' = Kept /\ Len(log[l]) \in Nat /\ Len(log[l]) >= 1
      /\ Len(log'[l]) = Len(log[l]) + 1 /\ log'[l][Len(log[l]) + 1] = e
      /\ \A p \in Node : \A i \in 1 .. Len(log[p]) : log'[p][i] = log[p][i]
      /\ \A p \in Node : /\ Len(log[p]) \in Nat /\ Len(log'[p]) \in Nat
                         /\ Len(log[p]) <= Len(log'[p])
    BY GrownLogs
<1>2. \A j : CommitPoint(j) => CommitPoint(j)'
    BY GrownPoints
<1>3. ASSUME NEW p \in Node, NEW j \in Nat, SameTo(Kept, log[p], j)
      PROVE  SameTo(Kept, log'[p], j)
    BY <1>1, <1>3 DEF SameTo
<1>4. ASSUME NEW n \in Node, NEW k \in 1 .. Len(log'[n]), Changed(log'[n], k)
      PROVE  /\ log'[n][k].kind = "conf" /\ Near(log'[n][k - 1].conf, log'[n][k].conf)
             /\ Grounded(log[n], k)'
    <2>1. CASE k \in 1 .. Len(log[n])
        <3>1. /\ k - 1 \in 1 .. Len(log[n]) /\ k \in (Base + 1) .. Len(log[n])
              /\ log'[n][k] = log[n][k] /\ log'[n][k - 1] = log[n][k - 1]
            <4>1. k \in (Base + 1) .. Len(log[n]) /\ k - 1 \in 1 .. Len(log[n])
                BY <1>4, <2>1, BaseOK DEF Changed
            <4> QED
                BY <1>1, <2>1, <4>1
        <3>2. Changed(log[n], k)
            BY <1>4, <3>1 DEF Changed
        <3>3. /\ log[n][k].kind = "conf" /\ Near(log[n][k - 1].conf, log[n][k].conf)
              /\ Grounded(log[n], k)
            BY <2>1, <3>2 DEF SafeInv, ChangesGrounded
        <3>4. PICK j \in 1 .. (k - 1) :
                 /\ CommitPoint(j) /\ SameTo(Kept, log[n], j) /\ log[n][j].term = log[n][k].term
                 /\ \A x \in j .. (k - 1) : log[n][x].conf = log[n][j].conf
            BY <3>3 DEF Grounded
        <3>5. \A x \in j .. (k - 1) : log'[n][x] = log[n][x]
            <4>1. \A x \in j .. (k - 1) : x \in 1 .. Len(log[n])
                BY <1>1, <2>1
            <4> QED
                BY <1>1, <4>1
        <3>6. CommitPoint(j)' /\ SameTo(Kept', log'[n], j) /\ j \in j .. (k - 1)
            BY <1>1, <1>2, <1>3, <3>4
        <3>7. \A x \in j .. (k - 1) : log'[n][x].conf = log'[n][j].conf
            BY <3>4, <3>5, <3>6
        <3>8. log'[n][j].term = log'[n][k].term
            BY <3>1, <3>4, <3>5, <3>6
        <3>9. Grounded(log[n], k)'
            BY <3>6, <3>7, <3>8 DEF Grounded
        <3> QED
            BY <3>1, <3>3, <3>9
    <2>2. CASE k \notin 1 .. Len(log[n])
        <3>1. n = l /\ k = Len(log[l]) + 1 /\ log'[n][k] = e /\ k - 1 = Len(log[l])
            BY <1>1, <2>2, GrownLogs
        <3>2. log'[l][k - 1] = log[l][Len(log[l])]
            BY <1>1, <3>1
        <3>3. e.conf # log[l][Len(log[l])].conf
            BY <1>4, <3>1, <3>2 DEF Changed
        <3>4. e.kind = "conf" /\ Near(log[l][Len(log[l])].conf, e.conf)
            BY <3>3 DEF Grows
        <3>5. PICK j \in 1 .. Len(log[l]) :
                /\ CommitPoint(j) /\ SameTo(Kept, log[l], j) /\ log[l][j].term = e.term
                /\ \A x \in j .. Len(log[l]) : log[l][x].conf = log[l][j].conf
            BY <3>3 DEF Grows
        <3>6. \A x \in j .. Len(log[l]) : log'[l][x] = log[l][x]
            BY <1>1
        <3>7. /\ CommitPoint(j)' /\ SameTo(Kept', log'[n], j) /\ j \in j .. Len(log[l])
              /\ j \in 1 .. (k - 1)
            BY <1>1, <1>2, <1>3, <3>1, <3>5
        <3>8. \A x \in j .. (k - 1) : log'[n][x].conf = log'[n][j].conf
            BY <3>1, <3>5, <3>6, <3>7
        <3>9. log'[n][j].term = log'[n][k].term
            BY <3>1, <3>5, <3>6, <3>7
        <3>10. Grounded(log[n], k)'
            BY <3>7, <3>8, <3>9 DEF Grounded
        <3> QED
            BY <3>1, <3>2, <3>4, <3>10
    <2> QED
        BY <2>1, <2>2
<1> QED
    BY <1>4 DEF ChangesGrounded

\* Such a step keeps the invariant.
LEMMA GrowSafe ==
    ASSUME SoundSetup, RaftOK, RaftOK', SafeInv, NEW l \in Node, NEW e, Grows(l, e)
    PROVE  SafeInv'
<1>1. CommitsHold'
    <2>1. \A j : CommitPoint(j) => CommitPoint(j)'
        BY GrownPoints
    <2>2. Kept' = Kept /\ Tip' = Tip /\ Begun
        BY GrownLogs
    <2> QED
        BY <2>1, <2>2 DEF SafeInv, CommitsHold
<1>2. VotesHold'
    <2>1. ASSUME NEW n \in Node, NEW i \in (Base + 1) .. Len(log'[n]),
                 log'[n][i - 1].term < log'[n][i].term
          PROVE  Majority(log'[n][i - 1].conf, {p \in Node : term'[p] >= log'[n][i].term})
        <3>1. i \in 1 .. Len(log'[n]) /\ i - 1 \in 1 .. Len(log'[n]) /\ Len(log[n]) \in Nat
              /\ Len(log'[n]) \in Nat
            BY BaseOK, GrownLogs
        <3>2. CASE i \in 1 .. Len(log[n])
            <4>1. i - 1 \in 1 .. Len(log[n]) /\ i \in (Base + 1) .. Len(log[n])
                BY <3>1, <3>2, BaseOK
            <4>2. log'[n][i] = log[n][i] /\ log'[n][i - 1] = log[n][i - 1]
                BY <3>2, <4>1, GrownLogs
            <4> DEFINE t == log[n][i].term
                       c == log[n][i - 1].conf
                       P == {p \in Node : term[p] >= t}
                       Q == {p \in Node : term'[p] >= t}
            <4>3. Majority(c, P)
                BY <2>1, <4>1, <4>2 DEF SafeInv, VotesHold
            <4>4. c \in SUBSET Node /\ t \in Nat /\ P \in SUBSET Node /\ Q \in SUBSET Node
                BY <3>2, <4>1, LogOK
            <4>5. P \subseteq Q
                BY <4>4, GrownLogs
            <4> HIDE DEF c, P, Q
            <4>6. Majority(c, Q)
                BY <4>3, <4>4, <4>5, MajorityGrows
            <4> QED
                BY <4>2, <4>6 DEF c, Q
        <3>3. CASE i \notin 1 .. Len(log[n])
            <4>1. n = l /\ i = Len(log[l]) + 1 /\ log'[n][i] = e /\ i - 1 = Len(log[l])
                BY <3>1, <3>3, GrownLogs
            <4>2. log'[n][i - 1] = log[l][Len(log[l])]
                BY <4>1, GrownLogs
            <4> QED
                BY <2>1, <4>1, <4>2 DEF Grows
        <3> QED
            BY <3>2, <3>3
    <2> QED
        BY <2>1 DEF VotesHold
<1> QED
    BY <1>1, <1>2, GrownTerms, GrownLeaders, GrownChanges DEF SafeInv

\* The voters of a new leader are such a majority as Fresh says.
LEMMA VotersFresh ==
    ASSUME RaftOK, NEW n \in Node, NEW Q \in SUBSET Node, n \in Conf(n),
           Majority(Conf(n), Q), \A q \in Q : UpToDate(log[n], log[q])
    PROVE  Fresh(n, Q) /\ Conf(n) = log[n][Len(log[n])].conf
<1>1. Len(log[n]) > 0 /\ Conf(n) = log[n][Len(log[n])].conf
    BY ConfOK
<1>2. ASSUME NEW q \in Q, Len(log[q]) # 0
      PROVE  AtLeast(log[n], log[q], Len(log[q]))
    <2>1. log[n] # <<>> /\ log[q] # <<>>
        BY <1>1, <1>2, EmptyLen, LogOK
    <2>2. UpToDate(log[n], log[q])
        OBVIOUS
    <2>3. \/ log[n][Len(log[n])].term = log[q][Len(log[q])].term /\ Len(log[n]) >= Len(log[q])
          \/ log[n][Len(log[n])].term > log[q][Len(log[q])].term
        BY <2>1, <2>2 DEF UpToDate, Last
    <2> QED
        BY <1>1, <2>3 DEF AtLeast
<1> QED
    BY <1>1, <1>2 DEF Fresh

\* A node that is elected has the history, and its term is newer than every entry.
LEMMA ElectGrows ==
    ASSUME SoundSetup, RaftOK, RaftOK', SafeInv, NEW n \in Node, Elect(n)
    PROVE  (\E e : Grows(n, e)) /\ SameTo(Kept, log[n], Tip)
<1> DEFINE Wins(Q, T) ==
        /\ n \in Q /\ n \in Conf(n) /\ Majority(Conf(n), Q)
        /\ \A q \in Q : UpToDate(log[n], log[q]) /\ term[q] < T
        /\ term' = [q \in Node |-> IF q \in Q THEN T ELSE term[q]]
        /\ leads' = [q \in Node |-> q = n \/ (leads[q] /\ q \notin Q)]
        /\ log' = [log EXCEPT ![n] =
                     Append(log[n], [term |-> T, kind |-> "noop", conf |-> Conf(n)])]
        /\ commit' = [q \in Node |-> IF q \in Q THEN 0 ELSE commit[q]]
        /\ chosen' = chosen
<1>0. PICK Q \in SUBSET Listening(Conf(n)) : \E T \in {term[q] + 1 : q \in Q} : Wins(Q, T)
    BY DEF Elect
<1>1. PICK T \in {term[q] + 1 : q \in Q} : Wins(Q, T)
    BY <1>0
<1>2. Q \in SUBSET Node /\ T \in Nat /\ \A p \in Node : term[p] \in Nat
    BY <1>1 DEF Listening, RaftOK
<1>3. Fresh(n, Q) /\ Conf(n) = log[n][Len(log[n])].conf
    BY <1>1, <1>2, VotersFresh
<1>4. SameTo(Kept, log[n], Tip)
    BY <1>3, FreshHasHistory
<1>5. ASSUME NEW m \in Node, NEW i \in 1 .. Len(log[m])
      PROVE  log[m][i].term < T
    <2>1. PICK q \in Q : term[q] >= log[m][i].term
        BY <1>3, TermSeen
    <2> QED
        BY <1>1, <1>2, <2>1, LogOK
<1> DEFINE e == [term |-> T, kind |-> "noop", conf |-> Conf(n)]
<1>6. /\ Len(log[n]) \in Nat /\ Len(log[n]) > 0 /\ Len(log[n]) \in 1 .. Len(log[n])
      /\ Conf(n) \in SUBSET Node
    BY <1>3, LogOK, ConfOK DEF Fresh
<1>7. e \in Entry /\ e.term = T /\ e.conf = Conf(n) /\ T >= 1
    <2>1. T >= 1
        BY <1>1, <1>2
    <2> QED
        BY <1>2, <1>6, <2>1 DEF Entry
<1>8. leads'[n] /\ term'[n] = T /\ commit'[n] = 0 /\ \A p \in Node : term[p] <= term'[p]
    <2>1. leads'[n]
        BY <1>1
    <2>2. term'[n] = T /\ commit'[n] = 0
        BY <1>1
    <2>3. ASSUME NEW p \in Node PROVE term[p] <= term'[p]
        BY <1>1, <1>2
    <2> QED
        BY <2>1, <2>2, <2>3
<1>9. ASSUME NEW p \in Node, p # n, leads'[p]
      PROVE  leads[p] /\ term'[p] = term[p] /\ commit'[p] = commit[p] /\ term[p] # T
    <2>1. leads[p] /\ p \notin Q
        BY <1>1, <1>9
    <2>2. Len(log[p]) \in 1 .. Len(log[p]) /\ log[p][Len(log[p])].term = term[p]
        BY <2>1, LogOK DEF RaftOK, SafeInv, LeadersOwn
    <2>3. term[p] < T
        BY <1>5, <2>2
    <2> QED
        BY <1>1, <1>2, <2>1, <2>3
<1>10. log[n][Len(log[n])].term <= T
    BY <1>2, <1>5, <1>6, LogOK
<1>11. ASSUME NEW m \in Node, NEW i \in 1 .. Len(log[m]), log[m][i].term = T PROVE FALSE
    BY <1>2, <1>5, <1>11
<1>12. ASSUME NEW j, CommitPoint(j) PROVE SameTo(Kept, log[n], j)
    <2>1. j \in Nat /\ j <= Tip
        BY <1>6, <1>12, HolderOf DEF SafeInv, Begun
    <2>2. Begun
        BY <1>6 DEF Begun
    <2> QED
        BY <1>4, <2>1, <2>2, KeptOK DEF SameTo, SafeInv
<1>13. Majority(log[n][Len(log[n])].conf, {p \in Node : term'[p] >= T})
    <2> DEFINE P == {p \in Node : term'[p] >= T}
    <2>1. P \in SUBSET Node /\ Q \subseteq P
        BY <1>1, <1>2
    <2> HIDE DEF P
    <2>2. Majority(Conf(n), P)
        BY <1>1, <1>2, <1>6, <2>1, MajorityGrows
    <2> QED
        BY <1>3, <2>2 DEF P
<1>14. log' = [log EXCEPT ![n] = Append(log[n], e)] /\ chosen' = chosen
    BY <1>1
<1> HIDE DEF e
<1>15. Grows(n, e)
    BY <1>3, <1>6, <1>7, <1>8, <1>9, <1>10, <1>11, <1>12, <1>13, <1>14 DEF Grows
<1> QED
    BY <1>4, <1>15

\* A leader takes an entry: in its configuration, or with the next one, which raft
\* accepts when nothing else is on the way.
LeaderTakes(l) ==
    /\ leads[l] /\ UNCHANGED <<leads, term, commit, chosen>>
    /\ \E kind \in {"conf", "set"}, c \in SUBSET Node :
          /\ Appended(l, kind, c)
          /\ c = Conf(l) \/ (kind = "conf" /\ Stable(l) /\ Near(Conf(l), c))

\* Its entry is made as Grows says.
LEMMA TakeGrows ==
    ASSUME SoundSetup, RaftOK, RaftOK', SafeInv, NEW l \in Node, LeaderTakes(l)
    PROVE  \E e : Grows(l, e)
<1>1. PICK kind \in {"conf", "set"}, c \in SUBSET Node :
          /\ Appended(l, kind, c)
          /\ c = Conf(l) \/ (kind = "conf" /\ Stable(l) /\ Near(Conf(l), c))
    BY DEF LeaderTakes
<1>2. leads[l] /\ leads' = leads /\ term' = term /\ commit' = commit /\ chosen' = chosen
    BY DEF LeaderTakes
<1>3. /\ Len(log[l]) \in Nat /\ Len(log[l]) > 0 /\ Len(log[l]) \in 1 .. Len(log[l])
      /\ \A p \in Node : term[p] \in Nat
    BY <1>2, LogOK DEF RaftOK
<1>4. Begun /\ Conf(l) = log[l][Len(log[l])].conf
    BY <1>3, ConfOK DEF Begun
<1>5. log[l][Len(log[l])].term = term[l] /\ term[l] >= 1
    BY <1>2, <1>3 DEF SafeInv, LeadersOwn, TermsRise
<1> DEFINE e == [term |-> term[l], kind |-> kind, conf |-> c]
<1>6. /\ e \in Entry /\ e.term = term[l] /\ e.conf = c /\ e.kind = kind
      /\ log' = [log EXCEPT ![l] = Append(log[l], e)]
    BY <1>1, <1>3 DEF Entry, Appended
<1> HIDE DEF e
<1>7. ASSUME NEW p \in Node, p # l, leads'[p] PROVE term[p] # term[l]
    BY <1>2, <1>7 DEF SafeInv, OneLeader
<1>8. \A n \in Node : \A i \in 1 .. Len(log[n]) :
         log[n][i].term = term[l] => i <= Len(log[l]) /\ log[l][i].term = term[l]
    BY <1>2 DEF SafeInv, LeadersOwn
<1>9. \A j : CommitPoint(j) /\ Kept[j].term <= term[l] => SameTo(Kept, log[l], j)
    BY <1>2, LeaderHas
<1>10. ASSUME c # Conf(l)
       PROVE  /\ kind = "conf" /\ Near(Conf(l), c)
              /\ \E j \in 1 .. Len(log[l]) :
                    /\ CommitPoint(j) /\ SameTo(Kept, log[l], j) /\ log[l][j].term = term[l]
                    /\ \A x \in j .. Len(log[l]) : log[l][x].conf = log[l][j].conf
    <2>1. kind = "conf" /\ Near(Conf(l), c) /\ Stable(l)
        BY <1>1, <1>10
    <2> DEFINE j == commit[l]
    <2>2. j > 0 /\ j \in 1 .. Len(log[l])
        BY <1>3, <2>1 DEF Stable, RaftOK
    <2>3. CommitPoint(j) /\ SameTo(Kept, log[l], j) /\ log[l][j].term = term[l]
        BY <1>2, <2>2 DEF SafeInv, LeadersOwn
    <2>4. j \in Nat /\ j >= Base
        BY <1>4, <2>3, HolderOf DEF SafeInv
    <2>5. ASSUME NEW k \in (j + 1) .. Len(log[l]) PROVE ~Changed(log[l], k)
        <3>1. log[l][k].kind # "conf" /\ k \in 1 .. Len(log[l])
            BY <1>3, <2>1, <2>4 DEF Stable
        <3> QED
            BY <3>1 DEF SafeInv, ChangesGrounded
    <2> HIDE DEF j
    <2>6. \A x \in j .. Len(log[l]) : log[l][x].conf = log[l][j].conf
        BY <1>3, <2>4, <2>5, SameConfOfLog
    <2> QED
        BY <2>1, <2>2, <2>3, <2>6
<1>11. Grows(l, e)
    BY <1>2, <1>3, <1>4, <1>5, <1>6, <1>7, <1>8, <1>9, <1>10 DEF Grows
<1> QED
    BY <1>11

\* What a call of Join or Remove makes of raft.
LEMMA HandleTakes ==
    ASSUME RaftOK, CallsOK, NEW h \in hnd, Handle(h)
    PROVE  UNCHANGED <<leads, term, log, commit, chosen>> \/ LeaderTakes(h.at)
<1>1. h.at \in Node /\ h.for \in Node /\ h.old \in Node
    <2>1. h \in Handler
        BY DEF CallsOK
    <2> QED
        BY <2>1 DEF Handler
<1>2. Conf(h.at) \in SUBSET Node
    BY <1>1, ConfOK
<1>3. ASSUME NEW waiting, NEW c \in SUBSET Node, Near(Conf(h.at), c), Change(h, waiting, c)
      PROVE  UNCHANGED <<leads, term, log, commit, chosen>> \/ LeaderTakes(h.at)
    <2>1. UNCHANGED <<leads, term, commit, chosen>>
        BY <1>3 DEF Change
    <2>2. \/ log' = log
          \/ leads[h.at] /\ Stable(h.at) /\ Appended(h.at, "conf", c)
        BY <1>3 DEF Change
    <2> QED
        BY <1>3, <2>1, <2>2 DEF LeaderTakes
<1>4. CASE RemoveServer(h)
    <2>1. Near(Conf(h.at), Conf(h.at) \ {h.old})
        BY <1>1 DEF Near
    <2>2. \E waiting : Change(h, waiting, Conf(h.at) \ {h.old})
        BY <1>4 DEF RemoveServer
    <2> QED
        BY <1>2, <1>3, <2>1, <2>2
<1>5. CASE AddVoter(h)
    <2>1. Near(Conf(h.at), Conf(h.at) \cup {h.for})
        BY <1>1 DEF Near
    <2>2. Change(h, "adding", Conf(h.at) \cup {h.for})
        BY <1>5 DEF AddVoter
    <2> QED
        BY <1>1, <1>2, <1>3, <2>1, <2>2
<1>6. CASE Save(h)
    <2>1. UNCHANGED <<leads, term, commit, chosen>>
        BY <1>6 DEF Save
    <2>2. log' = log \/ (leads[h.at] /\ Appended(h.at, "set", Conf(h.at)))
        BY <1>6 DEF Save
    <2> QED
        BY <1>2, <2>1, <2>2 DEF LeaderTakes
<1>7. CASE Walk(h) \/ Removed(h) \/ Failed(h) \/ Truncate(h) \/ Write(h) \/ Saved(h)
    BY <1>7 DEF Walk, Removed, Failed, Truncate, Write, Saved, raftVars
<1> QED
    BY <1>4, <1>5, <1>6, <1>7 DEF Handle

-----------------------------------------------------------------------------
(* Commits. *)

\* The processes whose answers a leader counts.
Counted(l) ==
    {p \in Node : /\ term[p] = term[l] /\ Len(log[p]) >= Len(log[l])
                  /\ log[p][Len(log[l])] = log[l][Len(log[l])]}

\* They are such a majority as Fresh says, and have the leader's log.
LEMMA CountedFresh ==
    ASSUME SoundSetup, RaftOK, SafeInv, NEW l \in Node, Committable(l)
    PROVE  /\ Fresh(l, Counted(l)) /\ Len(log[l]) \in Nat /\ Len(log[l]) >= 1
           /\ leads[l] /\ log[l][Len(log[l])].term = term[l]
           /\ \A q \in Counted(l) : SameTo(log[l], log[q], Len(log[l]))
<1> DEFINE i == Len(log[l])
<1>1. /\ leads[l] /\ log[l][i].term = term[l] /\ i > 0 /\ i \in Nat /\ i \in 1 .. i
      /\ term[l] \in Nat
    BY LogOK DEF Committable, RaftOK
<1>2. Majority(log[l][i].conf, Counted(l))
    <2>1. Conf(l) = log[l][i].conf
        BY <1>1, ConfOK
    <2> QED
        BY <2>1 DEF Committable, Counted
<1>3. ASSUME NEW q \in Counted(l)
      PROVE  /\ AtLeast(log[l], log[q], Len(log[q]))
             /\ SameTo(log[l], log[q], i)
    <2>1. /\ q \in Node /\ term[q] = term[l] /\ i <= Len(log[q])
          /\ log[q][i] = log[l][i] /\ Len(log[q]) \in Nat
        BY <1>1, LogOK DEF Counted
    <2>2. /\ i \in 1 .. Len(log[q]) /\ Len(log[q]) \in 1 .. Len(log[q])
        BY <1>1, <2>1
    <2>3. /\ log[q][Len(log[q])].term \in 1 .. term[q]
          /\ log[q][i].term <= log[q][Len(log[q])].term
        BY <2>1, <2>2 DEF SafeInv, TermsRise
    <2>4. log[q][Len(log[q])].term = term[l]
        BY <1>1, <2>1, <2>3
    <2>5. Len(log[q]) <= i
        BY <1>1, <2>1, <2>2, <2>4 DEF SafeInv, LeadersOwn
    <2>6. SameTo(log[l], log[q], i)
        BY <1>1, <2>1 DEF SafeInv, LogsMatch
    <2> QED
        BY <1>1, <2>4, <2>5, <2>6 DEF AtLeast
<1> QED
    BY <1>1, <1>2, <1>3 DEF Fresh, Counted

\* Nothing is more recent than the log of a leader that can commit, and what is as
\* recent has it.
LEMMA CountedLatest ==
    ASSUME SoundSetup, RaftOK, SafeInv, NEW l \in Node, Committable(l), NEW n \in Node,
           AtLeast(log[n], log[l], Len(log[l]))
    PROVE  SameTo(log[l], log[n], Len(log[l]))
<1> DEFINE i == Len(log[l])
           k == Len(log[n])
<1>1. /\ Fresh(l, Counted(l)) /\ i \in Nat /\ i >= 1 /\ leads[l] /\ log[l][i].term = term[l]
    BY CountedFresh
<1>2. k \in Nat /\ k \in 1 .. k /\ log[n][k].term \in Nat /\ term[l] \in Nat
    BY LogOK DEF AtLeast
<1>3. PICK q \in Counted(l) : term[q] >= log[n][k].term
    BY <1>1, <1>2, TermSeen
<1>4. log[n][k].term <= term[l]
    BY <1>3 DEF Counted
<1>5. log[n][k].term = term[l] /\ k >= i
    BY <1>1, <1>2, <1>4 DEF AtLeast
<1>6. k <= i
    BY <1>1, <1>2, <1>5 DEF SafeInv, LeadersOwn
<1>7. k = i /\ i \in 1 .. i
    BY <1>1, <1>2, <1>5, <1>6
<1> QED
    BY <1>1, <1>5, <1>7 DEF SafeInv, LogsMatch

\* The history after a commit is the leader's log.
LEMMA CommittedHistory ==
    ASSUME SoundSetup, RaftOK, RaftOK', SafeInv, NEW l \in Node, Commit(l)
    PROVE  /\ Tip' = Len(log[l]) /\ SameTo(Kept', log[l], Len(log[l]))
           /\ SameTo(Kept, log[l], Tip) /\ SameTo(Kept, Kept', Tip)
           /\ Tip \in Nat /\ Tip >= 1 /\ Tip <= Len(log[l]) /\ Begun /\ log' = log
           /\ Len(log[l]) \in Nat /\ Len(chosen') > 0
<1>1. Committable(l) /\ chosen' = (IF Len(log[l]) > Len(chosen) THEN log[l] ELSE chosen)
      /\ log' = log
    BY DEF Commit
<1>2. Len(log[l]) \in Nat /\ Len(log[l]) >= 1 /\ Fresh(l, Counted(l)) /\ log[l] \in Seq(Entry)
    BY <1>1, CountedFresh, LogOK
<1>3. Begun
    BY <1>2 DEF Begun
<1>4. SameTo(Kept, log[l], Tip)
    BY <1>2, FreshHasHistory
<1>5. Tip \in Nat /\ Tip >= 1 /\ Tip = Len(Kept) /\ Tip <= Len(log[l])
    BY <1>3, <1>4, KeptOK, BaseOK DEF SafeInv, SameTo, Tip
<1>6. chosen \in Seq(Entry) /\ Len(chosen) \in Nat
    BY LenProperties DEF RaftOK
<1>7. CASE Len(log[l]) > Len(chosen)
    <2>1. chosen' = log[l] /\ chosen' # <<>>
        BY <1>1, <1>2, <1>7, EmptyLen
    <2>2. Kept' = log[l] /\ Tip' = Len(log[l])
        BY <2>1 DEF Kept, Tip
    <2>3. SameTo(Kept', log[l], Len(log[l]))
        BY <1>2, <2>2 DEF SameTo
    <2> QED
        BY <1>1, <1>2, <1>3, <1>4, <1>5, <2>1, <2>2, <2>3
<1>8. CASE Len(log[l]) <= Len(chosen)
    <2>1. chosen # <<>> /\ chosen' = chosen
        BY <1>1, <1>2, <1>6, <1>8
    <2>2. Kept' = Kept /\ Tip' = Tip /\ Tip = Len(chosen) /\ Kept = chosen
        BY <2>1 DEF Kept, Tip
    <2>3. Tip = Len(log[l]) /\ SameTo(Kept, Kept, Tip)
        BY <1>2, <1>5, <1>8, <2>2 DEF SameTo
    <2> QED
        BY <1>1, <1>2, <1>3, <1>4, <1>5, <1>8, <2>1, <2>2, <2>3
<1> QED
    BY <1>2, <1>6, <1>7, <1>8

\* It ends at a new commit point, and the old ones stay.
LEMMA CommitPoints ==
    ASSUME SoundSetup, RaftOK, RaftOK', SafeInv, NEW l \in Node, Commit(l)
    PROVE  CommitPoint(Len(log[l]))' /\ \A j : CommitPoint(j) => CommitPoint(j)'
<1>0. PICK i : i = Len(log[l])
    OBVIOUS
<1>1. /\ Tip' = i /\ SameTo(Kept', log[l], i) /\ SameTo(Kept, Kept', Tip)
      /\ Tip \in Nat /\ Tip >= 1 /\ Tip <= i /\ Begun /\ i \in Nat /\ log' = log
    BY <1>0, CommittedHistory
<1>2. Committable(l)
    BY DEF Commit
<1>3. \A j : CommitPoint(j) => CommitPoint(j)'
    <2>1. ASSUME NEW j, CommitPoint(j) PROVE CommitPoint(j)'
        <3>1. j \in Nat /\ j <= Tip
            BY <1>1, <2>1, HolderOf DEF SafeInv
        <3>2. SameTo(Kept, Kept', j) /\ Tip' \in Nat /\ j <= Tip'
            BY <1>1, <3>1 DEF SameTo
        <3>3. \A p \in Node : AtLeast(log'[p], Kept, j) => SameTo(Kept, log'[p], j)
            BY <1>1, <2>1 DEF CommitPoint
        <3> QED
            BY <1>1, <2>1, <3>2, <3>3, PointStays DEF SafeInv
    <2> QED
        BY <2>1
<1>4. Base <= Tip /\ Base \in Nat
    BY <1>1, KeptOK, BaseOK DEF SafeInv
<1>5. Kept'[i] = log[l][i] /\ i \in Base .. Tip' /\ i \in 1 .. Len(log[l])
    BY <1>0, <1>1, <1>4 DEF SameTo
<1>6. ASSUME NEW n \in Node, SameTo(log[l], log[n], i) PROVE SameTo(Kept', log'[n], i)
    BY <1>1, <1>6 DEF SameTo
<1>7. Majority(Kept'[i].conf, Holders(i)')
    <2>1. Majority(log[l][i].conf, Counted(l)) /\ Counted(l) \in SUBSET Node
        BY <1>0, <1>2, CountedFresh DEF Fresh
    <2>2. Counted(l) \subseteq Holders(i)' /\ Holders(i)' \in SUBSET Node
        <3>1. \A q \in Counted(l) : q \in Node /\ SameTo(log[l], log[q], i)
            BY <1>0, <1>2, CountedFresh DEF Counted
        <3> QED
            BY <1>6, <3>1 DEF Holders
    <2>3. log[l][i].conf \in SUBSET Node
        BY <1>5, LogOK
    <2> QED
        BY <1>5, <2>1, <2>2, <2>3, MajorityGrows
<1>8. ASSUME NEW n \in Node, AtLeast(log'[n], Kept', i) PROVE SameTo(Kept', log'[n], i)
    <2>1. AtLeast(log[n], log[l], i)
        BY <1>1, <1>5, <1>8 DEF AtLeast
    <2>2. SameTo(log[l], log[n], i)
        BY <1>0, <1>2, <2>1, CountedLatest
    <2> QED
        BY <1>6, <2>2
<1>9. CommitPoint(i)'
    BY <1>5, <1>7, <1>8 DEF CommitPoint
<1>10. Len(log[l])' = Len(log[l])
    BY <1>1
<1> QED
    BY <1>0, <1>3, <1>9, <1>10

\* After the history a log has one change at most.
LEMMA NoSecondChange ==
    ASSUME SoundSetup, RaftOK, SafeInv, Begun, NEW n \in Node,
           NEW k \in (Tip + 1) .. Len(log[n]), Changed(log[n], k)
    PROVE  \A x \in k .. Len(log[n]) : log[n][x].conf = log[n][k].conf
<1>1. Tip \in Nat /\ Base \in Nat /\ Base <= Tip /\ Len(log[n]) \in Nat
    BY KeptOK, BaseOK, LogOK DEF SafeInv
<1>2. ASSUME NEW x \in (k + 1) .. Len(log[n]), Changed(log[n], x) PROVE FALSE
    <2>1. x \in 1 .. Len(log[n])
        BY <1>1
    <2>2. Grounded(log[n], x)
        BY <1>2, <2>1 DEF SafeInv, ChangesGrounded
    <2>3. PICK j \in 1 .. (x - 1) :
             CommitPoint(j) /\ \A y \in j .. (x - 1) : log[n][y].conf = log[n][j].conf
        BY <2>2 DEF Grounded
    <2>4. j <= Tip /\ j \in Nat
        BY <2>3, HolderOf DEF SafeInv
    <2>5. k \in j .. (x - 1) /\ k - 1 \in j .. (x - 1)
        BY <1>1, <2>4
    <2> QED
        BY <2>3, <2>5 DEF Changed
<1>3. k \in Nat /\ k >= Base
    BY <1>1
<1> QED
    BY <1>1, <1>2, <1>3, SameConfOfLog

\* A commit keeps the invariant.
LEMMA CommitSafe ==
    ASSUME SoundSetup, RaftOK, RaftOK', SafeInv, NEW l \in Node, Commit(l)
    PROVE  SafeInv'
<1>0. PICK i : i = Len(log[l])
    OBVIOUS
<1>1. /\ Tip' = i /\ SameTo(Kept', log[l], i) /\ SameTo(Kept, Kept', Tip)
      /\ Tip \in Nat /\ Tip >= 1 /\ Tip <= i /\ Begun /\ i \in Nat /\ log' = log
      /\ Len(chosen') > 0 /\ SameTo(Kept, log[l], Tip)
    BY <1>0, CommittedHistory
<1>2. CommitPoint(i)' /\ \A j : CommitPoint(j) => CommitPoint(j)'
    <2>1. CommitPoint(Len(log[l]))' /\ i = Len(log'[l])
        BY <1>0, <1>1, CommitPoints
    <2> QED
        BY <2>1, CommitPoints
<1>3. /\ term' = term /\ Committable(l)
      /\ \A p \in Node : leads'[p] =>
            leads[p] /\ commit'[p] = (IF p = l THEN i ELSE commit[p])
    <2>1. term' = term /\ Committable(l)
        BY DEF Commit
    <2>2. \/ commit' = [commit EXCEPT ![l] = i] /\ leads' = leads
          \/ /\ commit' = [commit EXCEPT ![l] = 0]
             /\ leads' = [leads EXCEPT ![l] = FALSE]
        BY <1>0 DEF Commit
    <2>3. commit \in [Node -> Nat] /\ leads \in [Node -> BOOLEAN]
        BY DEF RaftOK
    <2> QED
        BY <2>1, <2>2, <2>3
<1>4. Base \in Nat /\ Base >= 1 /\ Base <= Tip /\ SameTo(BaseLog, Kept, Base)
    BY <1>1, KeptOK, BaseOK DEF SafeInv
<1>5. ASSUME NEW p \in Node, NEW j, CommitPoint(j), SameTo(Kept, log[p], j)
      PROVE  SameTo(Kept', log'[p], j)
    <2>1. j \in Nat /\ j <= Tip
        BY <1>1, <1>5, HolderOf DEF SafeInv
    <2> QED
        BY <1>1, <1>5, <2>1 DEF SameTo
<1>6. Begins'
    <2>1. Kept' = chosen'
        BY <1>1 DEF Kept
    <2>2. SameTo(BaseLog, Kept', Base)
        BY <1>1, <1>4 DEF SameTo
    <2>3. Founder \in Node /\ Len(log[Founder]) > 0
        BY <1>1 DEF SafeInv, Begins
    <2> QED
        BY <1>1, <2>1, <2>2, <2>3 DEF SafeInv, Begins
<1>7. TermsRise' /\ LogsMatch' /\ VotesHold'
    BY <1>1, <1>3 DEF SafeInv, TermsRise, LogsMatch, VotesHold
<1>8. OneLeader'
    BY <1>3 DEF SafeInv, OneLeader
<1>9. LeadersOwn'
    <2>1. ASSUME NEW p \in Node, leads'[p]
          PROVE  /\ log'[p][Len(log'[p])].term = term'[p]
                 /\ \A n \in Node : \A k \in 1 .. Len(log'[n]) :
                       log'[n][k].term = term'[p]
                          => k <= Len(log'[p]) /\ log'[p][k].term = term'[p]
                 /\ commit'[p] > 0 =>
                       /\ CommitPoint(commit[p])' /\ SameTo(Kept', log'[p], commit'[p])
                       /\ log'[p][commit'[p]].term = term'[p]
        <3>1. /\ leads[p] /\ log' = log /\ term' = term
              /\ commit'[p] = (IF p = l THEN i ELSE commit[p])
            BY <1>1, <1>3, <2>1
        <3>2. /\ log[p][Len(log[p])].term = term[p]
              /\ \A n \in Node : \A k \in 1 .. Len(log[n]) :
                    log[n][k].term = term[p] => k <= Len(log[p]) /\ log[p][k].term = term[p]
            BY <3>1 DEF SafeInv, LeadersOwn
        <3>3. CASE p = l
            BY <1>0, <1>1, <1>2, <3>1, <3>2, <3>3
        <3>4. CASE p # l
            <4>1. commit'[p] = commit[p]
                BY <3>1, <3>4
            <4>2. commit[p] > 0 => /\ CommitPoint(commit[p]) /\ SameTo(Kept, log[p], commit[p])
                                   /\ log[p][commit[p]].term = term[p]
                BY <3>1 DEF SafeInv, LeadersOwn
            <4>3. commit[p] > 0 => CommitPoint(commit[p])'
                BY <1>2, <4>1, <4>2
            <4>4. commit[p] > 0 => SameTo(Kept', log'[p], commit[p])
                BY <1>5, <4>2
            <4> QED
                BY <3>1, <3>2, <4>1, <4>2, <4>3, <4>4
        <3> QED
            BY <3>3, <3>4
    <2> QED
        BY <2>1 DEF LeadersOwn
<1>10. ChangesGrounded'
    <2>1. ASSUME NEW n \in Node, NEW k \in 1 .. Len(log'[n]), Changed(log'[n], k)
          PROVE  /\ log'[n][k].kind = "conf" /\ Near(log'[n][k - 1].conf, log'[n][k].conf)
                 /\ Grounded(log[n], k)'
        <3>1. /\ log[n][k].kind = "conf" /\ Near(log[n][k - 1].conf, log[n][k].conf)
              /\ Grounded(log[n], k)
            BY <1>1, <2>1 DEF SafeInv, ChangesGrounded
        <3>2. PICK j \in 1 .. (k - 1) :
                 /\ CommitPoint(j) /\ SameTo(Kept, log[n], j) /\ log[n][j].term = log[n][k].term
                 /\ \A x \in j .. (k - 1) : log[n][x].conf = log[n][j].conf
            BY <3>1 DEF Grounded
        <3>3. CommitPoint(j)' /\ SameTo(Kept', log'[n], j)
            BY <1>2, <1>5, <3>2
        <3>4. Grounded(log[n], k)'
            BY <1>1, <3>2, <3>3 DEF Grounded
        <3> QED
            BY <1>1, <3>1, <3>4
    <2> QED
        BY <2>1 DEF ChangesGrounded
<1>11. CommitsHold'
    <2>1. ASSUME NEW k \in 1 .. i, Changed(Kept', k)
          PROVE  \E j \in k .. i :
                    CommitPoint(j)' /\ \A x \in k .. j : Kept'[x].conf = Kept'[k].conf
        <3>1. k \in (Base + 1) .. i /\ k - 1 \in 1 .. i /\ Kept'[k].conf # Kept'[k - 1].conf
            BY <1>1, <1>4, <2>1 DEF Changed
        <3>2. CASE k <= Tip
            <4>1. k \in 1 .. Tip /\ k - 1 \in 1 .. Tip /\ k \in (Base + 1) .. Len(Kept)
                BY <1>1, <1>4, <3>1, <3>2 DEF Tip
            <4>2. Kept'[k] = Kept[k] /\ Kept'[k - 1] = Kept[k - 1]
                BY <1>1, <4>1 DEF SameTo
            <4>3. Changed(Kept, k)
                BY <3>1, <4>1, <4>2 DEF Changed
            <4>4. PICK j \in k .. Tip :
                     CommitPoint(j) /\ \A x \in k .. j : Kept[x].conf = Kept[k].conf
                BY <1>1, <4>1, <4>3 DEF SafeInv, CommitsHold
            <4>5. \A x \in k .. j : x \in 1 .. Tip
                BY <1>1, <4>1
            <4>6. \A x \in k .. j : Kept'[x] = Kept[x]
                BY <1>1, <4>5 DEF SameTo
            <4>7. j \in k .. i /\ CommitPoint(j)'
                BY <1>1, <1>2, <4>4
            <4> QED
                BY <4>2, <4>4, <4>6, <4>7
        <3>3. CASE k > Tip
            <4>1. k \in (Tip + 1) .. Len(log[l]) /\ k \in (Base + 1) .. Len(log[l])
                BY <1>0, <1>1, <1>4, <3>1, <3>3
            <4>2. \A x \in 1 .. i : Kept'[x] = log[l][x]
                BY <1>1 DEF SameTo
            <4>3. Changed(log[l], k)
                BY <3>1, <4>1, <4>2 DEF Changed
            <4>4. \A x \in k .. i : log[l][x].conf = log[l][k].conf
                BY <1>0, <1>1, <4>1, <4>3, NoSecondChange
            <4>5. \A x \in k .. i : x \in 1 .. i
                BY <1>1, <3>1
            <4>6. \A x \in k .. i : Kept'[x].conf = Kept'[k].conf
                BY <4>2, <4>4, <4>5
            <4>7. i \in k .. i
                BY <1>1
            <4> QED
                BY <1>2, <4>6, <4>7
        <3> QED
            BY <1>1, <3>2, <3>3
    <2> QED
        BY <1>1, <1>2, <2>1 DEF CommitsHold
<1> QED
    BY <1>6, <1>7, <1>8, <1>9, <1>10, <1>11 DEF SafeInv

-----------------------------------------------------------------------------
(* The founder. *)

\* A cluster is founded once: by the founder, when no log has an entry.
LEMMA FoundedOnce ==
    ASSUME SoundSetup, RaftOK, SafeInv, NEW n \in Node, Boots(n)
    PROVE  n = Founder /\ ~Begun /\ Len(chosen) = 0 /\ Formed = {} /\ term[n] = 0
           /\ BaseLog = <<[term |-> 1, kind |-> "boot", conf |-> {n}]>>
<1>1. Bootstrap(n) /\ log[n] = <<>> /\ term[n] = 0
    BY DEF Boots
<1>2. Founder \in Node /\ Bootstrap(Founder)
    BY <1>1 DEF Founder
<1>3. n = Founder
    BY <1>1, <1>2 DEF SoundSetup
<1>4. Len(log[Founder]) = 0
    BY <1>1, <1>3
<1>5. ~Begun /\ ~(Len(chosen) > 0) /\ Formed = {}
    BY <1>4 DEF SafeInv, Begins
<1>6. Len(chosen) = 0
    BY <1>5, LenProperties DEF RaftOK
<1> QED
    BY <1>1, <1>3, <1>5, <1>6 DEF BaseLog

\* Its log is the first, and the beginning of the history.
LEMMA BootSafe ==
    ASSUME SoundSetup, RaftOK, RaftOK', SafeInv, NEW n \in Node, Open(n), Boots(n)
    PROVE  SafeInv'
<1>1. n = Founder /\ ~Begun /\ Len(chosen) = 0 /\ Formed = {} /\ term[n] = 0
      /\ BaseLog = <<[term |-> 1, kind |-> "boot", conf |-> {n}]>>
    BY FoundedOnce
<1>2. /\ term' = [term EXCEPT ![n] = 1] /\ log' = [log EXCEPT ![n] = BaseLog]
      /\ leads' = leads /\ commit' = commit /\ chosen' = chosen
    BY <1>1 DEF Open
<1>3. Base = 1 /\ Len(BaseLog) = 1 /\ BaseLog[1].term = 1 /\ BaseLog[1].conf = {n}
    BY <1>1 DEF Base
<1>4. \A p \in Node : Len(log[p]) = 0 /\ ~leads[p]
    BY <1>1, LogOK DEF Begun, RaftOK
<1>5. /\ log'[n] = BaseLog /\ term'[n] = 1
      /\ \A p \in Node : p # n => Len(log'[p]) = 0
      /\ \A p \in Node : ~leads'[p]
    BY <1>2, <1>4 DEF RaftOK
<1>6. Len(log'[n]) = 1 /\ Begun'
    <2>1. Len(log'[n]) = 1
        BY <1>3, <1>5
    <2> QED
        BY <2>1 DEF Begun
<1>7. Kept' = BaseLog /\ Tip' = 1
    <2>1. chosen' = <<>>
        BY <1>1, <1>2, EmptyLen DEF RaftOK
    <2> QED
        BY <1>3, <2>1 DEF Kept, Tip
<1>8. SameTo(BaseLog, BaseLog, 1)
    BY <1>3 DEF SameTo
<1>9. Begins'
    <2>1. \A p \in Node : Len(log'[p]) = 0 \/ SameTo(BaseLog, log'[p], Base)
        <3>1. Base = 1
            BY <1>3
        <3> QED
            BY <1>5, <1>8, <3>1
    <2>2. Founder \in Node /\ Len(log'[Founder]) > 0
        BY <1>1, <1>6
    <2> QED
        BY <1>1, <1>2, <2>1, <2>2 DEF Begins
<1>10. TermsRise'
    BY <1>3, <1>5 DEF TermsRise
<1>11. LogsMatch'
    BY <1>3, <1>5 DEF LogsMatch, SameTo
<1>12. OneLeader' /\ LeadersOwn'
    BY <1>5 DEF OneLeader, LeadersOwn
<1>13. ChangesGrounded' /\ VotesHold'
    <2>1. ASSUME NEW p \in Node, NEW k \in (Base + 1) .. Len(log'[p]) PROVE FALSE
        <3>1. Len(log'[p]) = 0 \/ Len(log'[p]) = 1
            BY <1>5, <1>6
        <3> QED
            BY <1>3, <3>1
    <2> QED
        BY <2>1 DEF ChangesGrounded, Changed, VotesHold
<1>14. CommitPoint(1)'
    <2>1. Holders(1)' \in SUBSET Node /\ n \in Holders(1)'
        BY <1>5, <1>7, <1>8 DEF Holders
    <2>2. Majority({n}, Holders(1)')
        <3>1. Majority({n}, {n})
            BY MajorityAll
        <3> QED
            BY <2>1, <3>1, MajorityGrows
    <2>3. \A p \in Node : AtLeast(log'[p], BaseLog, 1) => SameTo(BaseLog, log'[p], 1)
        BY <1>5, <1>8 DEF AtLeast
    <2>4. 1 \in Base .. 1
        BY <1>3
    <2> QED
        BY <1>3, <1>7, <2>2, <2>3, <2>4 DEF CommitPoint
<1>15. CommitsHold'
    BY <1>3, <1>7, <1>14 DEF CommitsHold, Changed
<1> QED
    BY <1>9, <1>10, <1>11, <1>12, <1>13, <1>15 DEF SafeInv

\* The invariant holds at the start, of a cluster to be founded and of a formed one.
LEMMA InitSafe ==
    ASSUME SoundSetup, RaftOK, Init
    PROVE  SafeInv
<1>1. /\ term = [n \in Node |-> IF n \in Formed THEN 2 ELSE 0]
      /\ log = [n \in Node |-> IF n \in Formed THEN FormedLog ELSE <<>>]
      /\ chosen = FormedLog
      /\ commit = [n \in Node |-> IF leads[n] THEN Len(FormedLog) ELSE 0]
      /\ \A a, b \in Node : leads[a] /\ leads[b] => a = b
      /\ \A a \in Node : leads[a] => a \in Formed
    BY DEF Init
<1>2. OneLeader
    BY <1>1 DEF OneLeader
<1>3. CASE Formed = {}
    <2>1. FormedLog = <<>> /\ Len(chosen) = 0
        BY <1>1, <1>3 DEF FormedLog
    <2>2. /\ \A n \in Node : Len(log[n]) = 0
          /\ \A n \in Node : ~leads[n]
        BY <1>1, <1>3, <2>1
    <2>3. ~Begun
        BY <2>2 DEF Begun
    <2>4. Begins
        BY <1>3, <2>1, <2>2, <2>3 DEF Begins
    <2>5. TermsRise /\ LogsMatch
        BY <2>2 DEF TermsRise, LogsMatch
    <2>6. LeadersOwn
        BY <2>2 DEF LeadersOwn
    <2>7. ChangesGrounded /\ VotesHold
        BY <2>2, BaseOK DEF ChangesGrounded, VotesHold
    <2>8. CommitsHold
        BY <2>3 DEF CommitsHold
    <2> QED
        BY <1>2, <2>4, <2>5, <2>6, <2>7, <2>8 DEF SafeInv
<1>4. CASE Formed # {}
    <2>1. BaseLog = FormedLog /\ Base = 3 /\ Len(FormedLog) = 3 /\ FormedLog \in Seq(Entry)
        BY <1>4, FormedLogOK DEF BaseLog, Base
    <2>2. /\ FormedLog[1].term = 1 /\ FormedLog[2].term = 2 /\ FormedLog[3].term = 2
          /\ FormedLog[3].conf = Formed
        BY <1>4 DEF FormedLog
    <2>3. Kept = FormedLog /\ Tip = 3
        BY <1>1, <1>4, <2>1 DEF Kept, Tip, FormedLog
    <2>4. \A n \in Node : \/ log[n] = FormedLog /\ term[n] = 2 /\ n \in Formed /\ Len(log[n]) = 3
                          \/ Len(log[n]) = 0 /\ n \notin Formed
        <3>1. ASSUME NEW n \in Node
              PROVE  \/ log[n] = FormedLog /\ term[n] = 2 /\ n \in Formed
                     \/ Len(log[n]) = 0 /\ n \notin Formed
            BY <1>1
        <3>2. Len(FormedLog) = 3
            BY <2>1
        <3> QED
            BY <3>1, <3>2
    <2>5. SameTo(FormedLog, FormedLog, 3)
        BY <2>1 DEF SameTo
    <2>6. Founder \in Formed
        <3>1. PICK b \in Formed : Bootstrap(b)
            BY <1>4, FormedAssumption DEF Bootstrap
        <3>2. b \in Node
            BY FormedAssumption
        <3>3. Founder \in Node /\ Bootstrap(Founder)
            BY <3>1, <3>2 DEF Founder
        <3> QED
            BY <3>1, <3>2, <3>3 DEF SoundSetup
    <2>7. Formed \in SUBSET Node
        BY FormedAssumption
    <2>8. Begins
        BY <1>1, <2>1, <2>4, <2>5, <2>6, <2>7 DEF Begins
    <2>9. TermsRise
        <3>1. ASSUME NEW n \in Node, NEW i \in 1 .. Len(log[n])
              PROVE  /\ log[n][i].term \in 1 .. term[n]
                     /\ \A k \in 1 .. i : log[n][k].term <= log[n][i].term
            <4>1. log[n] = FormedLog /\ term[n] = 2 /\ i \in 1 .. 3
                <5>1. Len(log[n]) = 0 => FALSE
                    OBVIOUS
                <5>2. log[n] = FormedLog /\ term[n] = 2 /\ Len(log[n]) = 3
                    BY <2>4, <5>1
                <5> QED
                    BY <5>2
            <4>2. i = 1 \/ i = 2 \/ i = 3
                BY <4>1
            <4>3. \A k \in 1 .. i : k = 1 \/ ((k = 2 \/ k = 3) /\ (i = 2 \/ i = 3))
                BY <4>2
            <4> QED
                BY <2>2, <4>1, <4>2, <4>3
        <3> QED
            BY <3>1 DEF TermsRise
    <2>10. LogsMatch
        <3>1. ASSUME NEW m \in Node, NEW n \in Node, NEW i \in 1 .. Len(log[m]), i <= Len(log[n])
              PROVE  SameTo(log[m], log[n], i)
            <4>1. log[m] = FormedLog /\ log[n] = FormedLog /\ i \in 1 .. 3
                <5>1. (Len(log[m]) = 0 => FALSE) /\ (Len(log[n]) = 0 => FALSE)
                    BY <3>1
                <5>2. log[m] = FormedLog /\ log[n] = FormedLog /\ Len(log[m]) = 3
                    BY <2>4, <5>1
                <5> QED
                    BY <5>2
            <4> QED
                BY <2>1, <4>1 DEF SameTo
        <3> QED
            BY <3>1 DEF LogsMatch
    <2>11. CommitPoint(3)
        <3>1. Holders(3) \in SUBSET Node /\ Formed \subseteq Holders(3)
            BY <2>3, <2>4, <2>5, <2>7 DEF Holders
        <3>2. Majority(Formed, Holders(3))
            <4>1. Majority(Formed, Formed)
                BY <1>4, <2>7, MajorityAll
            <4> QED
                BY <2>7, <3>1, <4>1, MajorityGrows
        <3>3. \A n \in Node : AtLeast(log[n], Kept, 3) => SameTo(Kept, log[n], 3)
            BY <2>3, <2>4, <2>5 DEF AtLeast
        <3> QED
            BY <2>1, <2>2, <2>3, <3>2, <3>3 DEF CommitPoint
    <2>12. LeadersOwn
        <3>1. ASSUME NEW l \in Node, leads[l]
              PROVE  /\ log[l] = FormedLog /\ term[l] = 2 /\ commit[l] = 3
                     /\ \A n \in Node : Len(log[n]) = 0 \/ log[n] = log[l]
            BY <1>1, <2>1, <2>4, <3>1
        <3>2. ASSUME NEW l \in Node, leads[l], NEW n \in Node, NEW i \in 1 .. Len(log[n])
              PROVE  log[n] = log[l]
            BY <3>1, <3>2
        <3>3. ASSUME NEW l \in Node, leads[l]
              PROVE  /\ log[l][Len(log[l])].term = term[l]
                     /\ CommitPoint(commit[l]) /\ SameTo(Kept, log[l], commit[l])
                     /\ log[l][commit[l]].term = term[l]
            BY <2>1, <2>2, <2>3, <2>5, <2>11, <3>1, <3>3
        <3>4. ASSUME NEW l \in Node, leads[l], NEW n \in Node, NEW i \in 1 .. Len(log[n]),
                     log[n][i].term = term[l]
              PROVE  i <= Len(log[l]) /\ log[l][i].term = term[l]
            <4>1. Len(log[n]) \in Nat /\ log[n] = log[l]
                BY <3>2, <3>4, LogOK
            <4>2. i <= Len(log[n])
                BY <4>1
            <4> QED
                BY <3>4, <4>1, <4>2
        <3> QED
            BY <3>3, <3>4 DEF LeadersOwn
    <2>13. ChangesGrounded /\ VotesHold
        <3>1. ASSUME NEW n \in Node, NEW k \in (Base + 1) .. Len(log[n]) PROVE FALSE
            <4>1. Len(log[n]) = 0 \/ Len(log[n]) = 3
                BY <2>4
            <4>2. k > 3 /\ k <= Len(log[n]) /\ k \in Int
                BY <2>1, LogOK
            <4> QED
                BY <4>1, <4>2
        <3> QED
            BY <3>1 DEF ChangesGrounded, Changed, VotesHold
    <2>14. CommitsHold
        BY <2>1, <2>3, <2>11 DEF CommitsHold, Changed
    <2> QED
        BY <1>2, <2>8, <2>9, <2>10, <2>12, <2>13, <2>14 DEF SafeInv
<1> QED
    BY <1>3, <1>4

-----------------------------------------------------------------------------
(* The promise. *)

\* Every step of the system is, for raft, one of five.
LEMMA StepKinds ==
    ASSUME SoundSetup, RaftOK, CallsOK, [Next]_vars
    PROVE  \/ Copies
           \/ \E n \in Node : Elect(n) \/ Commit(n) \/ LeaderTakes(n)
           \/ \E n \in Node : Open(n) /\ Boots(n)
<1>1. /\ leads \in [Node -> BOOLEAN] /\ commit \in [Node -> Nat]
      /\ term \in [Node -> Nat] /\ log \in [Node -> Seq(Entry)]
    BY DEF RaftOK
<1>2. ASSUME UNCHANGED <<leads, term, log, commit, chosen>> PROVE Copies
    BY <1>1, <1>2 DEF Copies
<1>3. ASSUME NEW n \in Node, StepDown(n) PROVE Copies
    <2>1. /\ leads' = [leads EXCEPT ![n] = FALSE] /\ commit' = [commit EXCEPT ![n] = 0]
          /\ term' = term /\ log' = log /\ chosen' = chosen
        BY <1>3 DEF StepDown
    <2> QED
        BY <1>1, <2>1 DEF Copies
<1>4. ASSUME NEW n \in Node, NEW p \in Node, Replicate(n, p) PROVE Copies
    <2>1. /\ leads[n] /\ term[p] <= term[n] /\ chosen' = chosen
          /\ log' = [log EXCEPT ![p] = log[n]] /\ term' = [term EXCEPT ![p] = term[n]]
          /\ leads' = [leads EXCEPT ![p] = FALSE] /\ commit' = [commit EXCEPT ![p] = 0]
        BY <1>4 DEF Replicate
    <2>2. /\ log'[p] = log[n] /\ term'[p] = term[n] /\ ~leads'[p]
          /\ \A q \in Node : q # p => /\ log'[q] = log[q] /\ term'[q] = term[q]
                                      /\ leads'[q] = leads[q] /\ commit'[q] = commit[q]
        BY <1>1, <2>1
    <2>3. \A q \in Node : term[q] <= term'[q]
        BY <1>1, <2>1, <2>2
    <2> QED
        BY <2>1, <2>2, <2>3 DEF Copies
<1>5. ASSUME NEW n \in Node, Crash(n) PROVE Copies
    <2>1. /\ leads' = [leads EXCEPT ![n] = FALSE] /\ commit' = [commit EXCEPT ![n] = 0]
          /\ term' = [term EXCEPT ![n] = IF InMem THEN 0 ELSE term[n]]
          /\ log' = [log EXCEPT ![n] = IF InMem THEN <<>> ELSE log[n]] /\ chosen' = chosen
        BY <1>5 DEF Crash
    <2>2. term' = term /\ log' = log
        BY <1>1, <2>1 DEF SoundSetup
    <2> QED
        BY <1>1, <2>1, <2>2 DEF Copies
<1>6. ASSUME NEW n \in Node, Open(n), ~Boots(n) PROVE Copies
    <2>1. UNCHANGED <<leads, term, log, commit, chosen>>
        BY <1>1, <1>6 DEF Open
    <2> QED
        BY <1>2, <2>1
<1>7. ASSUME NEW n \in Node, Set(n) PROVE LeaderTakes(n)
    <2>1. leads[n] /\ Appended(n, "set", Conf(n)) /\ UNCHANGED <<leads, term, commit, chosen>>
        BY <1>7 DEF Set
    <2>2. Conf(n) \in SUBSET Node
        BY ConfOK
    <2> QED
        BY <2>1, <2>2 DEF LeaderTakes
<1>8. ASSUME NEW n \in Node,
             \/ Recover(n) \/ RecoverSkipped(n) \/ Post(n) \/ CheckJoined(n)
             \/ JoinNodesFromLeader(n) \/ \E s \in Node : Remove(n, s)
      PROVE  Copies
    <2>1. UNCHANGED raftVars
        BY <1>8 DEF Recover, RecoverSkipped, Post, CheckJoined, JoinNodesFromLeader,
                    Remove, Ask
    <2> QED
        BY <1>2, <2>1 DEF raftVars
<1>9. ASSUME NEW h \in hnd, Handle(h) PROVE Copies \/ \E n \in Node : LeaderTakes(n)
    <2>1. h.at \in Node
        BY DEF CallsOK, Handler
    <2> QED
        BY <1>2, <1>9, <2>1, HandleTakes
<1>10. ASSUME NEW h \in hnd, ConnectionLost(h) PROVE Copies
    BY <1>2, <1>10 DEF ConnectionLost, raftVars
<1>11. ASSUME UNCHANGED vars PROVE Copies
    BY <1>2, <1>11 DEF vars
<1>12. CASE \E n \in Node : RaftStep(n)
    BY <1>3, <1>4, <1>7, <1>12 DEF RaftStep
<1>13. CASE \E n \in Node : NodeStep(n)
    BY <1>5, <1>6, <1>8, <1>13 DEF NodeStep
<1>14. CASE \E h \in hnd : Handle(h) \/ ConnectionLost(h)
    BY <1>9, <1>10, <1>14
<1> QED
    BY <1>11, <1>12, <1>13, <1>14 DEF Next

\* Every step keeps the invariant.
LEMMA NextSafe ==
    ASSUME SoundSetup, RaftOK, RaftOK', CallsOK, SafeInv, [Next]_vars
    PROVE  SafeInv'
<1>1. CASE Copies
    BY <1>1, CopySafe
<1>2. ASSUME NEW n \in Node, Elect(n) PROVE SafeInv'
    BY <1>2, ElectGrows, GrowSafe
<1>3. ASSUME NEW n \in Node, LeaderTakes(n) PROVE SafeInv'
    BY <1>3, TakeGrows, GrowSafe
<1>4. ASSUME NEW n \in Node, Commit(n) PROVE SafeInv'
    BY <1>4, CommitSafe
<1>5. ASSUME NEW n \in Node, Open(n), Boots(n) PROVE SafeInv'
    BY <1>5, BootSafe
<1> QED
    BY <1>1, <1>2, <1>3, <1>4, <1>5, StepKinds

\* With the setup, the invariant always holds.
LEMMA SafeAlways == ASSUME SoundSetup PROVE Spec => [](MemberInv /\ SafeInv)
<1>1. Init => MemberInv /\ SafeInv
    BY InitMember, InitSafe DEF MemberInv
<1>2. MemberInv /\ SafeInv /\ [Next]_vars => MemberInv' /\ SafeInv'
    BY NextMember, NextSafe DEF MemberInv
<1> QED
    BY <1>1, <1>2, PTL DEF Spec

\* What a node has of the history, it has as a prefix of its log.
LEMMA HistoryIsPrefix ==
    ASSUME SoundSetup, RaftOK, SafeInv, Begun, NEW s \in Seq(Entry), SameTo(Kept, s, Tip)
    PROVE  IsPrefixOf(chosen, s)
<1>1. chosen \in Seq(Entry) /\ Len(chosen) \in Nat /\ Len(s) \in Nat
    BY LenProperties DEF RaftOK
<1>2. CASE chosen = <<>>
    <2>1. Len(chosen) = 0
        BY <1>1, <1>2, EmptyLen
    <2>2. Len(chosen) <= Len(s) /\ \A k \in 1 .. Len(chosen) : chosen[k] = s[k]
        BY <1>1, <2>1
    <2> QED
        BY <1>1, <2>2, PrefixEntries
<1>3. CASE chosen # <<>>
    <2>1. Kept = chosen /\ Tip = Len(chosen)
        BY <1>3 DEF Kept, Tip
    <2> QED
        BY <1>1, <2>1, PrefixEntries DEF SameTo
<1> QED
    BY <1>2, <1>3

\* raft keeps the promise that Join, Remove and the restarts rely on: a leader that
\* may commit has all that was committed before, however servers were added and
\* removed meanwhile, in clusters of every size.
THEOREM RaftKeepsItsPromise == ASSUME SoundSetup PROVE Spec => []CommitsAgree
<1>1. MemberInv /\ SafeInv => CommitsAgree
    <2>1. ASSUME RaftOK, SafeInv, NEW l \in Node, Committable(l)
          PROVE  IsPrefixOf(chosen, log[l])
        <3>1. Fresh(l, Counted(l)) /\ Len(log[l]) > 0
            BY <2>1, CountedFresh
        <3>2. SameTo(Kept, log[l], Tip) /\ Begun /\ log[l] \in Seq(Entry)
            BY <2>1, <3>1, FreshHasHistory, LogOK DEF Begun
        <3> QED
            BY <2>1, <3>2, HistoryIsPrefix
    <2> QED
        BY <2>1 DEF MemberInv, CommitsAgree
<1> QED
    BY <1>1, SafeAlways, PTL

\* So there is one cluster and one history, however the nodes are started, crash,
\* restart, join and are removed.
THEOREM OneClusterAlways == ASSUME SoundSetup PROVE Spec => []OneHistory
BY RaftKeepsItsPromise, HistoryIsOne, PTL

\* And a join that was answered OK after AddVoter stays in the history.
THEOREM AddedAlwaysStay == ASSUME SoundSetup PROVE Spec => []AddedStays
BY RaftKeepsItsPromise, AddedServersStay, PTL

\* A term has one leader: what is forwarded to the leader of a term gets to one node.
THEOREM OneLeaderAlways == ASSUME SoundSetup PROVE Spec => []OneLeader
<1>1. MemberInv /\ SafeInv => OneLeader
    BY DEF SafeInv
<1> QED
    BY <1>1, SafeAlways, PTL

\* Who begins to lead has all that was ever committed.
THEOREM ElectedAlwaysHaveHistory ==
    ASSUME SoundSetup PROVE Spec => ElectedHaveHistory
<1>1. MemberInv /\ SafeInv /\ MemberInv' /\ [Next]_vars
        => [\A n \in Node : ~leads[n] /\ leads'[n] => IsPrefixOf(chosen, log'[n])]_vars
    <2> SUFFICES ASSUME RaftOK, CallsOK, RaftOK', SafeInv, [Next]_vars,
                        NEW n \in Node, ~leads[n], leads'[n]
                 PROVE  IsPrefixOf(chosen, log'[n])
        BY DEF MemberInv
    <2>1. CASE Elect(n)
        <3>1. SameTo(Kept, log[n], Tip) /\ \E e : Grows(n, e)
            BY <2>1, ElectGrows
        <3>2. /\ Begun /\ Len(log[n]) \in Nat /\ Len(log'[n]) \in Nat
              /\ Len(log[n]) <= Len(log'[n])
              /\ \A i \in 1 .. Len(log[n]) : log'[n][i] = log[n][i]
            BY <3>1, GrownLogs
        <3>3. Tip \in Nat
            BY <3>2, KeptOK DEF SafeInv
        <3>4. SameTo(Kept, log'[n], Tip) /\ log'[n] \in Seq(Entry)
            BY <3>1, <3>2, <3>3 DEF SameTo, RaftOK
        <3> QED
            BY <3>2, <3>4, HistoryIsPrefix
    <2>2. ASSUME NEW m \in Node, m # n, Elect(m) PROVE FALSE
        <3>1. PICK e : Grows(m, e)
            BY <2>2, ElectGrows
        <3> QED
            BY <2>2, <3>1 DEF Grows
    <2>3. ASSUME NEW m \in Node, Commit(m) PROVE FALSE
        <3>1. leads' = leads \/ leads' = [leads EXCEPT ![m] = FALSE]
            BY <2>3 DEF Commit
        <3> QED
            BY <3>1 DEF RaftOK
    <2>4. ASSUME NEW m \in Node, LeaderTakes(m) PROVE FALSE
        BY <2>4 DEF LeaderTakes
    <2>5. ASSUME NEW m \in Node, Open(m) PROVE FALSE
        BY <2>5 DEF Open
    <2>6. ~Copies
        BY DEF Copies
    <2> QED
        BY <2>1, <2>2, <2>3, <2>4, <2>5, <2>6, StepKinds
<1> QED
    BY <1>1, SafeAlways, PTL DEF Spec, ElectedHaveHistory

=============================================================================
