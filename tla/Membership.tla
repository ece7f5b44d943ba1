----------------------------- MODULE Membership -----------------------------
(***************************************************************************)
(* How a cluster of hraftd comes to be and changes: which node bootstraps  *)
(* it (arg.go, RaftStore.Open), how the others join (the loop of StartRaft,*)
(* Arg.Join, handleJoin, RaftStore.Join), how a server is removed, and     *)
(* what restarts do to all of it.                                          *)
(*                                                                         *)
(* A node is a NodeID, which names its HTTP and its Raft port and so its   *)
(* data directory; two nodes may have the same Raft address (a process     *)
(* started again with another HTTP port).  hashicorp/raft is external and  *)
(* modelled down to the log, because Join looks at a configuration that    *)
(* may not be committed: an RPC and its answer are one step, a server in   *)
(* the configuration is whatever process listens on its address, and the   *)
(* newest configuration in a node's log is the one it uses.                *)
(***************************************************************************)
EXTENDS Integers, Sequences, FiniteSets

CONSTANTS
    Node,       \* node IDs
    Addr,       \* per node: its Raft address
    JoinAddrs,  \* per node: the nodes at the addresses of its flag rjoin
    Formed,     \* the members of the cluster that the run starts with
    InMem,      \* the flag rmem: raft's stores are lost with the process
    MaxTerm,    \* bound on terms
    MaxSet,     \* bound on the length of a log that still takes a set
    MaxFault    \* bound on crashes, removals and lost or repeated joins together

ASSUME NodeAssumption == IsFiniteSet(Node)
ASSUME JoinAssumption == JoinAddrs \in [Node -> Seq(Node)]
ASSUME FormedAssumption ==
    /\ Formed \subseteq Node
    /\ \A a, b \in Formed : Addr[a] = Addr[b] => a = b
    /\ Formed # {} => \E b \in Formed : JoinAddrs[b] # <<>> => Head(JoinAddrs[b]) = b
ASSUME BoundAssumption ==
    InMem \in BOOLEAN /\ {MaxTerm, MaxSet, MaxFault} \subseteq Nat

VARIABLES
    up,         \* up[n]: the process with NodeID n runs
    leads,      \* leads[n]: its raft state is Leader
    term,       \* term[n]: its current term, in its stable store
    log,        \* log[n]: its log store
    commit,     \* commit[n]: what it has committed in its term as leader, else 0
    peers,      \* peers[n]: its peers.json
    halted,     \* the processes whose raft has shut down
    join,       \* join[n]: where n's own joining is
    hnd,        \* the calls of RaftStore.Join and Remove in progress
    joined,     \* history: how the last join of n was answered
    chosen,     \* history: the longest log that a leader has committed
    faults      \* crashes, removals and lost or repeated joins so far

raftVars == <<leads, term, log, commit, chosen, halted>>
vars == <<up, leads, term, log, commit, peers, halted, join, hnd, joined,
          chosen, faults>>

\* An entry and the configuration in force from it on.
Entry == [term : Nat, kind : {"boot", "noop", "conf", "set"},
          conf : SUBSET Node]
Last(s) == s[Len(s)]
Conf(n) == IF log[n] = <<>> THEN {} ELSE Last(log[n]).conf

\* How a join succeeded, and the index of the entry that lists the server.
Won == [how : {"no", "already", "added"}, idx : Nat]
NoWin == [how |-> "no", idx |-> 0]

\* peers.json: absent, whole, or truncated and not yet written.
NoFile == [file |-> "none", servers |-> {}]
TornFile == [file |-> "torn", servers |-> {}]
WholeFile(c) == [file |-> "whole", servers |-> c]

\* The future of an entry is answered when the entry is committed.
Granted == [removing |-> "removed", adding |-> "added", dropping |-> "dropped",
            saving |-> "saved"]

\* A call of Join or Remove: the server it is about and the one it takes out, the
\* node it runs on, how far it is, the index and term of the entry it waits for,
\* how Join came to succeed, what it writes to peers.json, and whether the joiner
\* still waits for the answer.
Handler == [for : Node, old : Node, at : Node, idx : Nat, term : Nat,
            won : Won, list : SUBSET Node, live : BOOLEAN,
            phase : DOMAIN Granted
                      \cup {Granted[p] : p \in DOMAIN Granted}
                      \cup {"walk", "remove", "add", "drop", "write", "save"}]

\* The HTTP server starts after RaftStore.Open has returned.
Serving(n) == join[n] \in {"loop", "posted", "check", "done"}

\* The node that a request gets to when a is called: a itself when it leads, else
\* the leader a has heard of in its term, if a's configuration lists it.  A raft
\* that has shut down knows no leader.
LeadServer(a) ==
    {l \in Node :
        /\ leads[l] /\ Serving(l)
        /\ l # a => term[l] = term[a] /\ l \in Conf(a) /\ a \notin halted}

\* Whether the first address in rjoin is the node's own, or there is none.
Bootstrap(n) == JoinAddrs[n] = <<>> \/ Head(JoinAddrs[n]) = n

-----------------------------------------------------------------------------
(* raft. *)

\* The processes that answer for the servers in configuration c.
Listening(c) == {p \in Node : /\ up[p] /\ p \notin halted
                              /\ \E s \in c : Addr[s] = Addr[p]}

\* The servers of c for which one of the processes in P answers.
Answers(c, P) == {s \in c : \E p \in P : Addr[p] = Addr[s]}

Majority(c, P) == 2 * Cardinality(Answers(c, P)) > Cardinality(c)

\* Mutant: only the terms of the last entries are compared.
UpToDateByTerm(l1, l2) ==
    LET lastTerm(l) == IF l = <<>> THEN 0 ELSE Last(l).term
    IN  lastTerm(l1) >= lastTerm(l2)

\* A node grants its vote to logs that are at least as recent as its own.
UpToDate(l1, l2) ==
    LET lastTerm(l) == IF l = <<>> THEN 0 ELSE Last(l).term
    IN  IF lastTerm(l1) = lastTerm(l2) THEN Len(l1) >= Len(l2)
        ELSE lastTerm(l1) > lastTerm(l2)

\* Node n wins an election in the first term that is new to all its voters, and
\* appends an empty entry.  A node that its configuration does not list does not
\* stand.
Elect(n) ==
    \E Q \in SUBSET Listening(Conf(n)) : \E T \in {term[q] + 1 : q \in Q} :
        /\ ~leads[n] /\ n \in Q /\ n \in Conf(n)
        /\ Majority(Conf(n), Q)
        /\ \A q \in Q : UpToDate(log[n], log[q]) /\ term[q] < T
        /\ T <= MaxTerm
        /\ term' = [q \in Node |-> IF q \in Q THEN T ELSE term[q]]
        /\ leads' = [q \in Node |-> q = n \/ (leads[q] /\ q \notin Q)]
        /\ log' = [log EXCEPT ![n] =
                     Append(@, [term |-> T, kind |-> "noop", conf |-> Conf(n)])]
        /\ commit' = [q \in Node |-> IF q \in Q THEN 0 ELSE commit[q]]
        /\ UNCHANGED <<up, peers, halted, join, hnd, joined, chosen, faults>>

\* The leader brings process p up to date with its log.
Replicate(l, p) ==
    /\ leads[l] /\ p # l /\ p \in Listening(Conf(l)) /\ term[p] <= term[l]
    /\ log[p] # log[l]
    /\ log' = [log EXCEPT ![p] = log[l]]
    /\ term' = [term EXCEPT ![p] = term[l]]
    /\ leads' = [leads EXCEPT ![p] = FALSE]
    /\ commit' = [commit EXCEPT ![p] = 0]
    /\ UNCHANGED <<up, peers, halted, join, hnd, joined, chosen, faults>>

\* The leader finds its log, which ends with an entry of its term, stored by a
\* majority.  It counts what was stored in answer to itself, in its term: a copy
\* that a later leader has made does not count.
Committable(l) ==
    LET i == Len(log[l])
        P == {p \in Node : /\ term[p] = term[l]
                           /\ Len(log[p]) >= i /\ log[p][i] = log[l][i]}
    IN  /\ leads[l] /\ commit[l] < i /\ log[l][i].term = term[l]
        /\ Majority(Conf(l), P)

\* The leader commits its log and answers the futures.  A leader that is no member
\* then has removed itself, and its raft shuts down.
Commit(l) ==
    LET i == Len(log[l])
    IN  /\ Committable(l)
        /\ hnd' = {IF /\ h.phase \in DOMAIN Granted
                      /\ h.at = l /\ h.term = term[l] /\ h.idx <= i
                   THEN [h EXCEPT !.phase = Granted[@]] ELSE h : h \in hnd}
        /\ chosen' = IF i > Len(chosen) THEN log[l] ELSE chosen
        /\ IF l \in Conf(l)
           THEN commit' = [commit EXCEPT ![l] = i] /\ UNCHANGED <<leads, halted>>
           ELSE /\ commit' = [commit EXCEPT ![l] = 0]
                /\ leads' = [leads EXCEPT ![l] = FALSE]
                /\ halted' = halted \cup {l}
        /\ UNCHANGED <<up, term, log, peers, join, joined, faults>>

\* The leader does not hear from a majority in time.
StepDown(l) ==
    /\ leads[l] /\ term[l] < MaxTerm
    /\ leads' = [leads EXCEPT ![l] = FALSE]
    /\ commit' = [commit EXCEPT ![l] = 0]
    /\ UNCHANGED <<up, term, log, peers, halted, join, hnd, joined, chosen,
                   faults>>

\* The leader takes an entry.  One change of the configuration is made at a time,
\* and none before the leader has committed an entry of its term.
Stable(l) == /\ leads[l] /\ commit[l] > 0
             /\ \A i \in (commit[l] + 1) .. Len(log[l]) : log[l][i].kind # "conf"

Appended(l, kind, c) ==
    log' = [log EXCEPT ![l] = Append(@, [term |-> term[l], kind |-> kind, conf |-> c])]

\* What raft accepts as a configuration.
Valid(c) == c # {} /\ \A s1, s2 \in c : Addr[s1] = Addr[s2] => s1 = s2

\* RaftStore.Set on the leader.
Set(l) ==
    /\ leads[l] /\ Len(log[l]) < MaxSet
    /\ Appended(l, "set", Conf(l))
    /\ UNCHANGED <<up, leads, term, commit, peers, halted, join, hnd, joined,
                   chosen, faults>>

-----------------------------------------------------------------------------
(* RaftStore.Join and Remove, on the node that is called. *)

NewHandler(n, l, phase, live) ==
    [for |-> n, old |-> n, at |-> l, idx |-> 0, term |-> 0, won |-> NoWin,
     list |-> {}, live |-> live, phase |-> phase]

\* Open goes on to the loop of StartRaft, which ends at once for a bootstrap node.
AfterOpen(n) == IF Bootstrap(n) THEN "done" ELSE "loop"

\* What a joiner does after an answer or an error.
Told(n, ok) == IF join[n] = "recovering" THEN AfterOpen(n)
               ELSE IF ok THEN "check" ELSE "loop"

\* Mutant: a late answer is taken for the answer to the request in progress.
AnswerLate(h, ok) ==
    /\ hnd' = hnd \ {h}
    /\ join' = [join EXCEPT ![h.for] = Told(h.for, ok)]
    /\ joined' = IF ok THEN [joined EXCEPT ![h.for] = h.won] ELSE joined

\* The call returns; the answer goes to the joiner if it still waits for it.
Answer(h, ok) ==
    /\ hnd' = hnd \ {h}
    /\ join' = IF h.live THEN [join EXCEPT ![h.for] = Told(h.for, ok)] ELSE join
    /\ joined' = IF h.live /\ ok THEN [joined EXCEPT ![h.for] = h.won] ELSE joined

Goes(h, g) == hnd' = (hnd \ {h}) \cup {g} /\ UNCHANGED <<join, joined>>

\* Mutant: only the IDs are compared.
WalkById(h) ==
    /\ h.phase = "walk"
    /\ IF ~leads[h.at] THEN Answer(h, FALSE)
       ELSE IF h.for \in Conf(h.at)
            THEN Goes(h, [h EXCEPT !.phase = "save",
                             !.won = [how |-> "already", idx |-> Len(log[h.at])]])
       ELSE Goes(h, [h EXCEPT !.phase = "add"])
    /\ UNCHANGED <<up, raftVars, peers, faults>>

\* The check of the state and the walk over the newest configuration, committed
\* or not: the server is there, another one has its address, or neither.
Walk(h) ==
    LET same == {s \in Conf(h.at) : Addr[s] = Addr[h.for]}
    IN  /\ h.phase = "walk"
        /\ IF ~leads[h.at] THEN Answer(h, FALSE)
           ELSE IF h.for \in same
                THEN Goes(h, [h EXCEPT !.phase = "save",
                             !.won = [how |-> "already", idx |-> Len(log[h.at])]])
           ELSE IF same = {} THEN Goes(h, [h EXCEPT !.phase = "add"])
           ELSE \E s \in same : Goes(h, [h EXCEPT !.phase = "remove", !.old = s])
        /\ UNCHANGED <<up, raftVars, peers, faults>>

\* RemoveServer or AddVoter is handed to raft, which takes it when it is stable
\* and refuses what leads to no configuration or when it does not lead.
Change(h, waiting, c) ==
    /\ IF ~leads[h.at] \/ ~Valid(c)
       THEN Answer(h, FALSE) /\ log' = log
       ELSE /\ Stable(h.at)
            /\ Appended(h.at, "conf", c)
            /\ Goes(h, [h EXCEPT !.phase = waiting, !.idx = Len(log[h.at]) + 1,
                                 !.term = term[h.at]])
    /\ UNCHANGED <<up, leads, term, commit, chosen, halted, peers, faults>>

\* A leader that removes itself leaves a term to the next one.
RemoveServer(h) ==
    \/ h.phase = "remove" /\ Change(h, "removing", Conf(h.at) \ {h.old})
    \/ /\ h.phase = "drop" /\ (h.old = h.at => term[h.at] < MaxTerm)
       /\ Change(h, "dropping", Conf(h.at) \ {h.old})

AddVoter(h) == h.phase = "add" /\ Change(h, "adding", Conf(h.at) \cup {h.for})

\* The future of the entry that h waits for fails: the node does not lead as it
\* did.  saveCluster only logs that.
Failed(h) ==
    /\ h.phase \in DOMAIN Granted
    /\ ~leads[h.at] \/ term[h.at] # h.term
    /\ Answer(h, h.phase = "saving")
    /\ UNCHANGED <<up, raftVars, peers, faults>>

\* After the removal of the other server comes AddVoter.
Removed(h) ==
    /\ h.phase = "removed"
    /\ Goes(h, [h EXCEPT !.phase = "add"])
    /\ UNCHANGED <<up, raftVars, peers, faults>>

\* Mutant: the future of AddVoter is not waited for.
TruncateAtOnce(h) ==
    /\ h.phase \in {"adding", "added", "dropped"}
    /\ Goes(h, [h EXCEPT !.phase = "write", !.list = Conf(h.at),
                         !.won = IF h.phase = "dropped" THEN NoWin
                                 ELSE [how |-> "added", idx |-> h.idx]])
    /\ peers' = [peers EXCEPT ![h.at] = TornFile]
    /\ UNCHANGED <<up, raftVars, faults>>

\* writeConfigEntries takes the newest configuration, whoever leads by now, and
\* opens peers.json, which truncates it.
Truncate(h) ==
    /\ h.phase \in {"added", "dropped"}
    /\ Goes(h, [h EXCEPT !.phase = "write", !.list = Conf(h.at),
                         !.won = IF h.phase = "dropped" THEN NoWin
                                 ELSE [how |-> "added", idx |-> h.idx]])
    /\ peers' = [peers EXCEPT ![h.at] = TornFile]
    /\ UNCHANGED <<up, raftVars, faults>>

\* The list is written.  A list written behind another one's back replaces it, as
\* far as ReadPeersJSON goes.
Write(h) ==
    /\ h.phase = "write"
    /\ peers' = [peers EXCEPT ![h.at] = WholeFile(h.list)]
    /\ IF h.won = NoWin THEN Answer(h, TRUE)
       ELSE Goes(h, [h EXCEPT !.phase = "save", !.list = {}])
    /\ UNCHANGED <<up, raftVars, faults>>

\* saveCluster: one more Set, whose failure is only logged.
Save(h) ==
    /\ h.phase = "save"
    /\ \/ /\ leads[h.at] /\ Len(log[h.at]) < MaxSet
          /\ Appended(h.at, "set", Conf(h.at))
          /\ Goes(h, [h EXCEPT !.phase = "saving", !.idx = Len(log[h.at]) + 1,
                               !.term = term[h.at]])
       \/ Answer(h, TRUE) /\ log' = log
    /\ UNCHANGED <<up, leads, term, commit, chosen, halted, peers, faults>>

Saved(h) ==
    /\ h.phase = "saved"
    /\ Answer(h, TRUE)
    /\ UNCHANGED <<up, raftVars, peers, faults>>

\* The steps of a handler.
Handle(h) ==
    \/ Walk(h) \/ RemoveServer(h) \/ Removed(h) \/ AddVoter(h) \/ Failed(h)
    \/ Truncate(h) \/ Write(h) \/ Save(h) \/ Saved(h)

\* handleRemove gets a request to remove a server, the leader itself perhaps.
Remove(l, s) ==
    /\ leads[l] /\ Serving(l) /\ faults < MaxFault
    /\ hnd' = hnd \cup {NewHandler(s, l, "drop", FALSE)}
    /\ faults' = faults + 1
    /\ UNCHANGED <<up, raftVars, peers, join, joined>>

-----------------------------------------------------------------------------
(* Joining, on the node that joins. *)

Ask(n, l, next) ==
    /\ hnd' = hnd \cup {NewHandler(n, l, "walk", TRUE)}
    /\ join' = [join EXCEPT ![n] = next]
    /\ UNCHANGED <<up, raftVars, peers, joined, faults>>

\* recoverJoin asks a leader among the servers in peers.json once, inside Open.
Recover(n) ==
    /\ join[n] = "recover"
    /\ \E l \in peers[n].servers \ {n} : leads[l] /\ Serving(l) /\ Ask(n, l, "recovering")

\* None of them answers that it leads.
RecoverSkipped(n) ==
    /\ join[n] = "recover"
    /\ join' = [join EXCEPT ![n] = AfterOpen(n)]
    /\ UNCHANGED <<up, raftVars, peers, hnd, joined, faults>>

\* One round of the loop in StartRaft: one of the addresses in rjoin is that of
\* the leader or forwards to it.  A round in which none does changes nothing.
Post(n) ==
    /\ join[n] = "loop"
    /\ \E i \in DOMAIN JoinAddrs[n] :
          LET a == JoinAddrs[n][i]
          IN  Serving(a) /\ \E l \in LeadServer(a) : Ask(n, l, "posted")

\* checkJoined looks for the node in its own newest configuration.
CheckJoined(n) ==
    /\ join[n] = "check"
    /\ join' = [join EXCEPT ![n] = IF n \in Conf(n) THEN "done" ELSE "loop"]
    /\ UNCHANGED <<up, raftVars, peers, hnd, joined, faults>>

\* The proxy's deadline passes or the connection breaks: the joiner gets an error
\* and the handler goes on.
ConnectionLost(h) ==
    /\ h.live /\ faults < MaxFault
    /\ hnd' = (hnd \ {h}) \cup {[h EXCEPT !.live = FALSE]}
    /\ join' = [join EXCEPT ![h.for] = Told(h.for, FALSE)]
    /\ faults' = faults + 1
    /\ UNCHANGED <<up, raftVars, peers, joined>>

\* WaitForLeader knows no leader, asks the peers of its configuration for one and
\* joins there, whatever comes of it.  When a node stops waiting is not kept.
JoinNodesFromLeader(n) ==
    /\ Serving(n) /\ ~leads[n] /\ faults < MaxFault
    /\ \A h \in hnd : h.for = n => h.live
    /\ \E s \in Conf(n) \ {n} :
          Serving(s) /\ \E l \in LeadServer(s) :
              hnd' = hnd \cup {NewHandler(n, l, "walk", FALSE)}
    /\ faults' = faults + 1
    /\ UNCHANGED <<up, raftVars, peers, join, joined>>

-----------------------------------------------------------------------------
(* Processes. *)

\* A process dies.  One whose raft has shut down is stopped by the operator.
Crash(n) ==
    /\ up[n] /\ (faults < MaxFault \/ n \in halted)
    /\ leads[n] => term[n] < MaxTerm
    /\ up' = [up EXCEPT ![n] = FALSE]
    /\ leads' = [leads EXCEPT ![n] = FALSE]
    /\ commit' = [commit EXCEPT ![n] = 0]
    /\ term' = [term EXCEPT ![n] = IF InMem THEN 0 ELSE @]
    /\ log' = [log EXCEPT ![n] = IF InMem THEN <<>> ELSE @]
    /\ hnd' = {IF h.for = n THEN [h EXCEPT !.live = FALSE] ELSE h :
                 h \in {g \in hnd : g.at # n}}
    /\ join' = [p \in Node |->
                  IF p = n THEN "off"
                  ELSE IF \E h \in hnd : h.at = n /\ h.for = p /\ h.live
                       THEN Told(p, FALSE) ELSE join[p]]
    /\ halted' = halted \ {n}
    /\ faults' = IF n \in halted THEN faults ELSE faults + 1
    /\ UNCHANGED <<peers, joined, chosen>>

peerFileExits(n) == ~InMem /\ peers[n].file # "none"

\* A peers.json that cannot be read ends the process.
Opens(n) == ~peerFileExits(n) \/ peers[n].file = "whole"

\* Mutant: every node that has no cluster yet bootstraps one.
BootsAnywhere(n) == ~peerFileExits(n) /\ log[n] = <<>> /\ term[n] = 0

\* A bootstrap node without a peers.json bootstraps.  BootstrapCluster refuses when
\* the stores hold anything, and that error is ignored.
Boots(n) == Bootstrap(n) /\ ~peerFileExits(n) /\ log[n] = <<>> /\ term[n] = 0

\* RaftStore.Open: the transport binds the Raft address, raft reads its stores, and
\* the node bootstraps or goes to the servers in its peers.json.
Open(n) ==
    /\ ~up[n] /\ Opens(n)
    /\ \A p \in Node : up[p] => Addr[p] # Addr[n]
    /\ up' = [up EXCEPT ![n] = TRUE]
    /\ join' = [join EXCEPT ![n] = IF peerFileExits(n) THEN "recover"
                                   ELSE AfterOpen(n)]
    /\ term' = [term EXCEPT ![n] = IF Boots(n) THEN 1 ELSE @]
    /\ log' = [log EXCEPT ![n] =
                 IF Boots(n)
                 THEN <<[term |-> 1, kind |-> "boot", conf |-> {n}]>> ELSE @]
    /\ UNCHANGED <<leads, commit, chosen, halted, peers, hnd, joined, faults>>

-----------------------------------------------------------------------------
\* The log of a cluster of Formed: its bootstrap node was elected and added the
\* others, in one entry instead of one each.
First == {CHOOSE b \in Formed : Bootstrap(b)}

FormedLog ==
    IF Formed = {} THEN <<>>
    ELSE <<[term |-> 1, kind |-> "boot", conf |-> First],
           [term |-> 2, kind |-> "noop", conf |-> First],
           [term |-> 2, kind |-> "conf", conf |-> Formed]>>

\* The nodes of Formed run and one of them leads; the others have not been started.
Init ==
    /\ up = [n \in Node |-> n \in Formed]
    /\ \E l \in Node :
          /\ Formed # {} => l \in Formed
          /\ leads = [n \in Node |-> n = l /\ n \in Formed]
    /\ term = [n \in Node |-> IF n \in Formed THEN 2 ELSE 0]
    /\ log = [n \in Node |-> IF n \in Formed THEN FormedLog ELSE <<>>]
    /\ commit = [n \in Node |-> IF leads[n] THEN Len(FormedLog) ELSE 0]
    /\ chosen = FormedLog
    /\ peers = [n \in Node |-> IF n \in Formed /\ n \in First
                             THEN WholeFile(Formed) ELSE NoFile]
    /\ halted = {}
    /\ join = [n \in Node |-> IF n \in Formed THEN "done" ELSE "off"]
    /\ hnd = {}
    /\ joined = [n \in Node |-> NoWin]
    /\ faults = 0

RaftStep(n) ==
    \/ Elect(n) \/ Commit(n) \/ StepDown(n) \/ Set(n)
    \/ \E p \in Node : Replicate(n, p)

NodeStep(n) ==
    \/ Open(n) \/ Crash(n) \/ Recover(n) \/ RecoverSkipped(n) \/ Post(n)
    \/ CheckJoined(n) \/ JoinNodesFromLeader(n)
    \/ \E s \in Node : Remove(n, s)

Next ==
    \/ \E n \in Node : RaftStep(n) \/ NodeStep(n)
    \/ \E h \in hnd : Handle(h) \/ ConnectionLost(h)

Spec == Init /\ [][Next]_vars

\* raft: a leader that cannot reach a majority gives up, and a new one is elected
\* when there is none; logs are brought up to date and committed.
LeaseLost(l) ==
    /\ ~Majority(Conf(l), {p \in Listening(Conf(l)) : term[p] <= term[l]})
    /\ StepDown(l)

ElectMissing == (\A l \in Node : ~leads[l]) /\ \E n \in Node : Elect(n)

\* Dead processes are started again, the loop of StartRaft goes on until it
\* succeeds, and handlers run.
Fairness ==
    /\ WF_vars(ElectMissing)
    /\ \A n \in Node :
          /\ WF_vars(Commit(n)) /\ WF_vars(LeaseLost(n)) /\ WF_vars(Open(n))
          /\ WF_vars(Recover(n) \/ RecoverSkipped(n)) /\ WF_vars(Post(n))
          /\ WF_vars(CheckJoined(n))
    /\ \A l, n \in Node :
          /\ WF_vars(Replicate(l, n))
          /\ WF_vars(\E h \in hnd : h.at = l /\ h.for = n /\ Handle(h))

FairSpec == Spec /\ Fairness

-----------------------------------------------------------------------------
(* Properties. *)

\* Types; no configuration is empty or lists two servers at one address, and a
\* node waits for an answer exactly as long as a handler will give it one.
TypeOK ==
    /\ up \in [Node -> BOOLEAN]
    /\ leads \in [Node -> BOOLEAN]
    /\ term \in [Node -> Nat]
    /\ log \in [Node -> Seq(Entry)]
    /\ \A n \in Node : \A i \in DOMAIN log[n] : Valid(log[n][i].conf)
    /\ commit \in [Node -> Nat]
    /\ \A n \in Node : commit[n] <= Len(log[n])
    /\ chosen \in Seq(Entry)
    /\ peers \in [Node -> {NoFile, TornFile} \cup {WholeFile(c) : c \in SUBSET Node}]
    /\ halted \subseteq {n \in Node : up[n] /\ ~leads[n]}
    /\ join \in [Node -> {"off", "recover", "recovering", "loop", "posted",
                         "check", "done"}]
    /\ hnd \subseteq Handler
    /\ joined \in [Node -> Won]
    /\ \A n \in Node : join[n] \in {"posted", "recovering"}
          <=> \E h \in hnd : h.for = n /\ h.live

\* Whether s is the beginning of t.
IsPrefixOf(s, t) == Len(s) <= Len(t) /\ SubSeq(t, 1, Len(s)) = s

\* Requests are forwarded to one node: the nodes that share a term have one leader
\* in it, though the configuration that elects is changed from under them.
OneLeader ==
    \A a, b \in Node : leads[a] /\ leads[b] /\ term[a] = term[b] => a = b

\* What raft promises to the code above it: a leader that may commit has what was
\* committed before, or is behind it.
CommitsAgree ==
    \A l \in Node : Committable(l) =>
        IsPrefixOf(chosen, log[l]) \/ IsPrefixOf(log[l], chosen)

\* A node that begins to lead has everything that was committed before, so what
\* Join, Remove and Set do on the new leader goes on from there.
ElectedHaveHistory ==
    [][\A n \in Node : ~leads[n] /\ leads'[n] => IsPrefixOf(chosen, log'[n])]_vars

\* There is one cluster: what any leader commits is part of one history, however
\* the nodes were started, restarted, joined and removed.  Only the node that is
\* first in rjoin starts a cluster, and only when it has never been in one.
OneHistory ==
    \A n \in Node : IsPrefixOf(SubSeq(log[n], 1, commit[n]), chosen)

\* A restarted node rejoins the cluster: as long as a majority of the members
\* still has everything that was committed, nothing else is committed anywhere.
SurvivorsDecide ==
    Majority(Last(chosen).conf, {p \in Node : IsPrefixOf(chosen, log[p])}) =>
        \A n \in Node : IsPrefixOf(SubSeq(log[n], 1, commit[n]), chosen)

\* When a join is answered OK after AddVoter, the entry that added the node is in
\* the history for good, whatever elections, crashes and removals happen while
\* the handler removes another server first, saves the cluster and answers.
AddedStays ==
    \A n \in Node :
        joined[n].how = "added" =>
            joined[n].idx <= Len(chosen) /\ n \in chosen[joined[n].idx].conf

\* When a join is answered OK because the node was found in the configuration,
\* nothing more is needed to make it a member: once its loop has ended, the
\* configuration it was found in does not go away.
AlreadyStays ==
    \A n \in Node :
        (/\ join[n] = "done" /\ joined[n].how = "already"
         /\ joined[n].idx <= Len(chosen))
            => n \in chosen[joined[n].idx].conf

\* The nodes that a peers.json truncated by a crash keeps from starting.
Barred == {p \in Node : ~up[p] /\ ~Opens(p)}

\* Every node gets into the cluster in the end: it is started again after a crash
\* and the loop of StartRaft ends on it, as long as an address in its rjoin belongs
\* to a member that can start.  The exceptions are a raft that has shut down,
\* another process at its address, and a peers.json truncated by a crash, its own or
\* those of so many members that no majority is left.
JoinLoopsEnd ==
    \A n \in Node :
        \/ <>[](\/ join[n] = "done" \/ n \in halted \/ n \in Barred
                \/ \E p \in Node \ {n} : up[p] /\ Addr[p] = Addr[n])
        \/ []<>(\/ chosen = <<>>
                \/ ~Majority(Last(chosen).conf, Node \ Barred)
                \/ \A i \in DOMAIN JoinAddrs[n] :
                      JoinAddrs[n][i] \notin Last(chosen).conf \ Barred)

=============================================================================
