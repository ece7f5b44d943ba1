---------------------------- MODULE StoreDealers ----------------------------
(***************************************************************************)
(* The log dealers of the program that embeds the store.  RaftStore says   *)
(* which commands a dealer takes from the map; here is when its function   *)
(* runs.  Dealers keep what they do outside the store: snapshots do not    *)
(* hold it, a restart calls them again, and a snapshot that a leader sends *)
(* passes over them.                                                       *)
(***************************************************************************)
EXTENDS RaftStore

VARIABLES
    called,     \* called[n]: entries whose dealer ran in n's process, in order
    base,       \* base[n]: the snapshot index that n's process started from
    ever,       \* ever[n]: entries whose dealer has run on n in some process
    sent        \* sent[n]: index of the last snapshot that a leader sent to n

dealVars == <<called, base, ever, sent>>

\* The interceptor leaves the command alone and Invoke finds a dealer and decodes
\* the value; a delete carries none.  Only then is the dealer's function called.
Invoked(c) == ~TakenFirst(c) /\ c.key \in DealerKey /\ c.val \in Decoded

\* Mutant: Apply tests the age of a command before it looks for a dealer.
DealApplyYoung(n) ==
    LET i == applied[n] + 1
        runs == Invoked(log[i]) /\ ~TooOld(log[i], n, now)
    IN  /\ FsmApply(n)
        /\ called' = [called EXCEPT ![n] = IF runs THEN Append(@, i) ELSE @]
        /\ ever' = [ever EXCEPT ![n] = IF runs THEN @ \cup {i} ELSE @]
        /\ UNCHANGED <<base, sent>>

\* Apply calls Intercept first, so that a dealer sees every entry, old or not.
DealApply(n) ==
    LET i == applied[n] + 1
    IN  /\ FsmApply(n)
        /\ called' = [called EXCEPT ![n] = IF Invoked(log[i]) THEN Append(@, i) ELSE @]
        /\ ever' = [ever EXCEPT ![n] = IF Invoked(log[i]) THEN @ \cup {i} ELSE @]
        /\ UNCHANGED <<base, sent>>

\* Restore knows nothing of dealers.
DealInstall(n) ==
    /\ InstallSnapshot(n)
    /\ sent' = [sent EXCEPT ![n] = snap[leader].idx]
    /\ UNCHANGED <<called, base, ever>>

\* The program registers its dealers anew and Open replays the log.
DealRestart(n) ==
    /\ Restart(n)
    /\ called' = [called EXCEPT ![n] = <<>>]
    /\ base' = [base EXCEPT ![n] = snap[n].idx]
    /\ UNCHANGED <<ever, sent>>

DealInit ==
    /\ Init
    /\ called = [n \in Node |-> <<>>]
    /\ base = [n \in Node |-> 0]
    /\ ever = [n \in Node |-> {}]
    /\ sent = [n \in Node |-> 0]

\* The steps in which no dealer runs and no image is restored.
OtherStep ==
    /\ \/ \E c \in Client : ClientStep(c)
       \/ \E g \in Goroutine : CallStep(g)
       \/ \E n \in Node : \/ Replicate(n) \/ Snapshot(n) \/ Persist(n)
                          \/ PersistFails(n) \/ Elect(n) \/ Crash(n)
                          \/ JoinLeader(n) \/ JoinFails(n) \/ JoinAnswered(n)
       \/ StepDown
       \/ Tick
    /\ UNCHANGED dealVars

DealNext ==
    \/ \E n \in Node : DealApply(n) \/ DealInstall(n) \/ DealRestart(n)
    \/ OtherStep

DealSpec == DealInit /\ [][DealNext]_<<vars, dealVars>>

DealFairSpec == DealSpec /\ Fairness

-----------------------------------------------------------------------------
(* Properties. *)

\* Within one process, dealers run in the order of the log, for no entry twice
\* and for none that the snapshot the process started from covers.
DealtInOrder ==
    \A n \in Node :
        LET s == <<base[n]>> \o called[n]
        IN  \A i \in 1 .. (Len(s) - 1) : s[i] < s[i + 1]

\* Of the entries that are for a dealer (it can decode the value, and the
\* interceptor does not take the entry) none is left out by the age check, by a
\* snapshot of the node's own or by a crash, after which the dealers run again for
\* what the newest snapshot does not cover: only a snapshot that a leader sends
\* passes over entries that no dealer of the node saw.
DealtOrSent ==
    \A n \in Node : up[n] =>
        \A i \in 1 .. applied[n] :
            Invoked(log[i]) => i \in ever[n] \/ i <= sent[n]

=============================================================================
