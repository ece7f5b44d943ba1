----------------------------- MODULE LeaderJobs -----------------------------
(***************************************************************************)
(* What the tickers of LeaderSignal do in cmd/hraftd: a round asks every   *)
(* server of the cluster for its state, one after the other, sets items    *)
(* for the active ones in the store and posts the jobs to them in turn;    *)
(* without an active server the jobs run here.  The peer that gets a job   *)
(* calls the dealer registered for it and answers.                         *)
(*                                                                         *)
(* The client of these requests has no timeout.  A connection may break    *)
(* before, while or after the peer works; then the client has an error and *)
(* the peer may still run the job.  The items that a round sets are        *)
(* RaftStore.Set; here it is only a call that may wait.                    *)
(***************************************************************************)
EXTENDS LeaderSignal

CONSTANTS
    Servers,    \* the servers of the configuration, in its order
    Self,       \* the server on this node
    NJob,       \* jobs in a round
    MaxBroken   \* bound on broken connections

ASSUME ServersAssumption == Servers \in Seq(STRING) /\ Self \in STRING
ASSUME JobAssumption == {NJob, MaxBroken} \subseteq Nat

VARIABLES
    round,      \* round[w]: the round that goroutine w is in
    posts,      \* job requests that are on the way or being worked on
    broken,     \* connections broken so far
    ran,        \* history: the jobs that were run, on a peer or here
    again       \* history: the jobs that were run once more

jobVars == <<round, posts, broken, ran, again>>
allVars == <<vars, jobVars>>

Server == {Servers[i] : i \in DOMAIN Servers}
Job == 0 .. (NJob - 1)

\* A round: it asks for the cluster and sets the items, distributes the jobs, or waits
\* for the answer to one; the servers asked, the active ones of them, the next job.
Round == [phase : {"none", "ask", "jobs", "post"}, asked : 0 .. Len(Servers),
          peers : Seq(Server), job : 0 .. NJob]
NoRound == [phase |-> "none", asked |-> 0, peers |-> <<>>, job |-> 0]

\* A request: who posted it in which round, to whom, whether the peer has done with
\* it, and whether the client still waits.
Post == [from : Worker, tick : Nat, job : Job, to : Server,
         dealt : BOOLEAN, waits : BOOLEAN]

\* A job of a round: the job that goroutine "from" distributes in its round "tick".
RoundJob == [from : Worker, tick : Nat, job : Job]
JobOf(p) == [from |-> p.from, tick |-> p.tick, job |-> p.job]

\* Goroutine w is in its functions.
Working(w) == ~panicked /\ ticker[w] = "exec"

\* Job j runs: it is recorded, and once more if it ran before.
Run(j) == ran' = ran \cup {j} /\ again' = again \cup ({j} \cap ran)

NextJob(r) == [r EXCEPT !.phase = "jobs", !.job = @ + 1]

-----------------------------------------------------------------------------
(* The round, on the node whose ticker runs. *)

\* Cluster starts with the servers of the configuration, or its error ends the round.
Tick(w) ==
    /\ Working(w) /\ round[w].phase = "none"
    /\ \/ round' = [round EXCEPT ![w].phase = "ask"]
       \/ round' = [round EXCEPT ![w].phase = "jobs", ![w].job = NJob]
    /\ UNCHANGED <<vars, posts, broken, ran, again>>

\* The active servers, in the order of the configuration, with one more.
ActivePeers(peers, server, active) == IF active THEN Append(peers, server) ELSE peers

\* The next server is found active or not: this node by its own state, which is active
\* on a leader, another one by its address, by its answer to a GET or by the error.
AskServer(w) ==
    LET r == round[w]
        server == Servers[r.asked + 1]
    IN  /\ Working(w) /\ r.phase = "ask" /\ r.asked < Len(Servers)
        /\ \E active \in BOOLEAN :
              /\ (IsLeader /\ server = Self) => active
              /\ round' = [round EXCEPT
                             ![w].asked = r.asked + 1,
                             ![w].peers = ActivePeers(r.peers, server, active)]
        /\ UNCHANGED <<vars, posts, broken, ran, again>>

\* demoApplyLogs: all servers are asked and Set of the items has returned, with an
\* error perhaps, which is only logged.
SetItems(w) ==
    /\ Working(w) /\ round[w].phase = "ask" /\ round[w].asked = Len(Servers)
    /\ round' = [round EXCEPT ![w].phase = "jobs", ![w].asked = 0]
    /\ UNCHANGED <<vars, posts, broken, ran, again>>

\* The next job goes to the next peer, or is done here when there is none.
DistributeJob(w) ==
    LET r == round[w]
        n == Len(r.peers)
    IN  /\ Working(w) /\ r.phase = "jobs" /\ r.job < NJob
        /\ IF n = 0
           THEN /\ Run([from |-> w, tick |-> ticks[w], job |-> r.job])
                /\ round' = [round EXCEPT ![w] = NextJob(r)]
                /\ posts' = posts
           ELSE /\ round' = [round EXCEPT ![w].phase = "post"]
                /\ posts' = posts \cup
                     {[from |-> w, tick |-> ticks[w], job |-> r.job,
                       to |-> r.peers[(r.job % n) + 1], dealt |-> FALSE,
                       waits |-> TRUE]}
                /\ UNCHANGED <<ran, again>>
        /\ UNCHANGED <<vars, broken>>

\* The answer arrives, an error perhaps, which is only logged.
Answered(p) ==
    /\ Working(p.from) /\ p.waits /\ p.dealt
    /\ round' = [round EXCEPT ![p.from] = NextJob(@)]
    /\ posts' = posts \ {p}
    /\ UNCHANGED <<vars, broken, ran, again>>

\* Mutant: the job is posted again.
BrokenRetries(p) ==
    /\ Working(p.from) /\ p.waits /\ broken < MaxBroken
    /\ round' = [round EXCEPT ![p.from].phase = "jobs"]
    /\ \/ posts' = posts \ {p}
       \/ ~p.dealt /\ posts' = (posts \ {p}) \cup {[p EXCEPT !.waits = FALSE]}
    /\ broken' = broken + 1
    /\ UNCHANGED <<vars, ran, again>>

\* The connection is refused or breaks: the next job is up, and what had arrived at
\* the peer goes on there.  (net/http itself sends a POST once more only if nothing of
\* it was written.)
Broken(p) ==
    /\ Working(p.from) /\ p.waits /\ broken < MaxBroken
    /\ round' = [round EXCEPT ![p.from] = NextJob(@)]
    /\ \/ posts' = posts \ {p}
       \/ ~p.dealt /\ posts' = (posts \ {p}) \cup {[p EXCEPT !.waits = FALSE]}
    /\ broken' = broken + 1
    /\ UNCHANGED <<vars, ran, again>>

\* execFns returns after the last job.
RoundEnds(w) ==
    /\ round[w].job = NJob /\ round[w].phase = "jobs"
    /\ ExecFns(w)
    /\ round' = [round EXCEPT ![w] = NoRound]
    /\ UNCHANGED <<posts, broken, ran, again>>

-----------------------------------------------------------------------------
(* handleJobRequest and Invoke, on the peer. *)

\* The dealer is called with the request, if there is one for the path, and returns.
Invoke(p) ==
    /\ ~p.dealt
    /\ Run(JobOf(p))
    /\ posts' = (posts \ {p}) \cup
                   (IF p.waits THEN {[p EXCEPT !.dealt = TRUE]} ELSE {})
    /\ UNCHANGED <<vars, round, broken>>

-----------------------------------------------------------------------------
JobInit ==
    /\ Init
    /\ round = [w \in Worker |-> NoRound] /\ posts = {} /\ broken = 0
    /\ ran = {} /\ again = {}

\* The steps of LeaderSignal, in which ExecFns is the end of a round.
SignalStep ==
    /\ \/ ChangeLeadership \/ StartRaft \/ Send \/ Printed \/ Receive
       \/ \E w \in Worker : TakeTick(w) \/ TakeStop(w)
    /\ UNCHANGED jobVars

JobNext ==
    \/ SignalStep
    \/ \E w \in Worker :
          Tick(w) \/ AskServer(w) \/ SetItems(w) \/ DistributeJob(w) \/ RoundEnds(w)
    \/ \E p \in posts : Answered(p) \/ Broken(p) \/ Invoke(p)

\* Goroutine w waits for what nothing forces to come, since the client has no timeout
\* and Set waits for Apply: the answer of another server to Cluster's GET, the return
\* of Set, or the dealer of a peer.
Hangs(w) ==
    \/ /\ round[w].phase = "ask"
       /\ round[w].asked = Len(Servers) \/ Servers[round[w].asked + 1] # Self
    \/ \E p \in posts : p.from = w /\ p.waits /\ ~p.dealt

\* The goroutines run: the listener, leaderChanging and the tickers, except where they
\* wait for somebody else.  A select chooses at random among the ready cases, so a
\* closed channel is taken in the end.
Fairness ==
    /\ WF_allVars((StartRaft \/ Send \/ Printed) /\ UNCHANGED jobVars)
    /\ WF_allVars(Receive /\ UNCHANGED jobVars)
    /\ \A w \in Worker :
          /\ SF_allVars(TakeStop(w) /\ UNCHANGED jobVars)
          /\ WF_allVars(\/ Tick(w) \/ (~Hangs(w) /\ AskServer(w))
                        \/ DistributeJob(w) \/ RoundEnds(w)
                        \/ \E p \in posts : p.from = w /\ Answered(p))

JobSpec == JobInit /\ [][JobNext]_allVars /\ Fairness

-----------------------------------------------------------------------------
(* Properties. *)

\* Types; a goroutine waits for at most one answer, and exactly when it has a
\* request out.
JobTypeOK ==
    /\ TypeOK
    /\ round \in [Worker -> Round]
    /\ posts \subseteq Post
    /\ broken \in 0 .. MaxBroken
    /\ again \subseteq ran /\ ran \subseteq RoundJob
    /\ \A w \in Worker : round[w].phase # "none" => ticker[w] = "exec"
    /\ \A w \in Worker :
          Cardinality({p \in posts : p.from = w /\ p.waits})
             = IF round[w].phase = "post" THEN 1 ELSE 0

\* No job of a round runs twice, on one peer or on two: not when the peer answers with
\* an error, nor when the connection breaks before, while or after the peer runs it and
\* the round goes on without it.
JobsAtMostOnce == again = {}

\* Once the ticker is stopped, each of its goroutines ends, in the middle of a round
\* or not, unless the process dies or the goroutine waits for ever: for the answer of
\* another server to the GET of its state, in the Set of the items, or for the dealer of
\* a peer.
\* These are the only places where a round can hang.
StoppedTickersEnd ==
    \A w \in Worker :
        [](closed /\ Live(w) =>
              <>(ticker[w] = "done") \/ <>panicked \/ <>[]Hangs(w))

=============================================================================
