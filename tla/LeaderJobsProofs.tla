-------------------------- MODULE LeaderJobsProofs --------------------------
(***************************************************************************)
(* Proofs about LeaderJobs: the tickers with jobs behave as the tickers of *)
(* LeaderSignal do, and no job of a round runs twice, for every cluster,   *)
(* number of jobs and number of broken connections.                        *)
(***************************************************************************)
EXTENDS LeaderJobs, LeaderSignalProofs

JobTypes ==
    /\ round \in [Worker -> Round] /\ posts \subseteq Post /\ broken \in 0 .. MaxBroken
    /\ ran \subseteq RoundJob

\* A goroutine is in a round only while it executes its functions, and in phase
\* "post" exactly while one of its requests is waited for.
WorkerOK(w) ==
    LET r == round[w]
    IN  /\ r.phase # "none" => ticker[w] = "exec"
        /\ r.phase = "post" => r.job < NJob
        /\ r.phase = "post" <=> \E p \in posts : p.from = w /\ p.waits

\* A job that is posted or was run belongs to the round its goroutine is in, or to one
\* that has ended: none has the number of a round that is still to begin.  Within the
\* round it lies behind the next job, or is the one whose answer is waited for.
Behind(x) ==
    LET r == round[x.from]
    IN  /\ x.tick <= ticks[x.from]
        /\ x.tick = ticks[x.from] =>
              /\ r.phase # "none" \/ ticker[x.from] \in {"select", "done"}
              /\ r.phase # "none" => x.job < r.job \/ (x.job = r.job /\ r.phase = "post")

\* What is waited for is the next job of the round.
PostOK(p) ==
    /\ Behind(p)
    /\ p.waits => p.tick = ticks[p.from] /\ p.job = round[p.from].job

\* Requests differ in their goroutine, their round or their job.
SameJob(p, q) == p.from = q.from /\ p.tick = q.tick /\ p.job = q.job
Distinct == \A p, q \in posts : SameJob(p, q) => p = q

\* A request whose job was run is one that the peer has done with.
Unrun == \A p \in posts : \A x \in ran : SameJob(p, x) => p.dealt

JobsOK ==
    /\ JobTypes /\ Distinct /\ Unrun
    /\ \A w \in Worker : WorkerOK(w)
    /\ \A p \in posts : PostOK(p)
    /\ \A x \in ran : Behind(x)
    /\ again = {}

\* The inductive invariant.
JobInv == SignalInv /\ JobsOK

-----------------------------------------------------------------------------
(* The tickers with jobs are tickers. *)

\* A step of the jobs is one of the tickers or leaves them alone.
LEMMA JobStepIsSignalStep == [JobNext]_allVars => [Next]_vars
BY DEF JobNext, SignalStep, Tick, AskServer, SetItems, DistributeJob, RoundEnds,
       Answered, Broken, Invoke, allVars, Next

\* What LeaderSignal does to a goroutine: it is started, takes a tick or ends; what is
\* in its functions stays there.
LEMMA SignalStepShape ==
    ASSUME SignalInv, SignalStep, NEW w \in Worker
    PROVE  \/ /\ ticks'[w] = ticks[w]
              /\ \/ ticker'[w] = ticker[w]
                 \/ ticker[w] = "new" /\ ticker'[w] = "exec"
                 \/ ticker[w] = "select" /\ ticker'[w] = "done"
           \/ ticker[w] = "select" /\ ticker'[w] = "exec" /\ ticks'[w] = ticks[w] + 1
<1>0. ticker \in [Worker -> {"new", "exec", "select", "done"}] /\ ticks \in [Worker -> Nat]
  BY DEF SignalInv, TypeOK
<1>1. CASE ChangeLeadership \/ StartRaft \/ Send \/ Printed
  BY <1>1 DEF ChangeLeadership, StartRaft, Send, Printed
<1>2. CASE Receive
  <2>1. buf # <<>> /\ Head(buf) = buf[1] /\ ticks' = ticks
    BY <1>2, BufCases DEF Receive, SignalInv
  <2>2. CASE Gain(buf[1])
    <3>1. StartAsync
      BY <1>2, <2>1, <2>2 DEF Receive
    <3>2. PICK k \in Nat :
              /\ k + 1 \in Worker
              /\ \A x \in Worker : ticker[x] = "new" <=> k < x
              /\ ticker' = [ticker EXCEPT ![k + 1] = "exec"]
      BY <2>1, <2>2, <3>1, StartAsyncStarts
    <3>3. ticker[k + 1] = "new"
      BY <3>2
    <3> QED
      BY <1>0, <2>1, <3>2, <3>3
  <2>3. CASE ~Gain(buf[1])
    BY <1>2, <2>1, <2>3 DEF Receive, StopAsync
  <2> QED
    BY <2>2, <2>3
<1>3. ASSUME NEW x \in Worker, TakeTick(x) \/ TakeStop(x)
      PROVE  \/ /\ ticks'[w] = ticks[w]
                /\ ticker'[w] = ticker[w] \/ (ticker[w] = "select" /\ ticker'[w] = "done")
             \/ /\ ticker[w] = "select" /\ ticker'[w] = "exec"
                /\ ticks'[w] = ticks[w] + 1
  BY <1>0, <1>3 DEF TakeTick, TakeStop
<1> QED
  BY <1>1, <1>2, <1>3 DEF SignalStep

\* The steps of LeaderSignal do not disturb the rounds: a goroutine that is started
\* has no request yet, and a tick begins a round with a new number.
LEMMA SignalStepKeepsJobs ==
    ASSUME JobInv, SignalStep
    PROVE  JobsOK'
<1>0. UNCHANGED <<round, posts, broken, ran, again>>
  BY DEF SignalStep, jobVars
<1>1. JobTypes' /\ Distinct' /\ Unrun'
  BY <1>0 DEF JobInv, JobsOK, JobTypes, Distinct, Unrun, SameJob
<1>2. ASSUME NEW w \in Worker PROVE WorkerOK(w)'
  <2>1. ticker[w] = "exec" => ticker'[w] = "exec"
    BY SignalStepShape DEF JobInv
  <2> QED
    BY <1>0, <2>1 DEF JobInv, JobsOK, WorkerOK
<1>3. ASSUME NEW x \in posts \cup ran PROVE Behind(x)'
  <2> DEFINE w == x.from
  <2>1. /\ w \in Worker /\ x.tick \in Nat /\ Behind(x) /\ WorkerOK(w)
        /\ ticks[w] \in Nat
    BY DEF JobInv, JobsOK, JobTypes, Post, RoundJob, PostOK, SignalInv, TypeOK
  <2>2. CASE ticks'[w] = ticks[w] /\ ticker'[w] = ticker[w]
    BY <1>0, <2>1, <2>2 DEF Behind
  <2>3. CASE ticks'[w] = ticks[w] /\ ticker[w] = "new"
    BY <1>0, <2>1, <2>3 DEF Behind, WorkerOK
  <2>4. CASE ticks'[w] = ticks[w] /\ ticker[w] = "select" /\ ticker'[w] = "done"
    BY <1>0, <2>1, <2>4 DEF Behind
  <2>5. CASE ticker[w] = "select" /\ ticks'[w] = ticks[w] + 1
    BY <1>0, <2>1, <2>5 DEF Behind
  <2> QED
    BY <2>1, <2>2, <2>3, <2>4, <2>5, SignalStepShape DEF JobInv
<1>4. ASSUME NEW p \in posts PROVE PostOK(p)'
  <2>1. p.from \in Worker /\ PostOK(p) /\ WorkerOK(p.from)
    BY DEF JobInv, JobsOK, JobTypes, Post
  <2>2. p.waits => ticker[p.from] = "exec"
    BY <2>1 DEF WorkerOK
  <2>3. p.waits => ticks'[p.from] = ticks[p.from]
    BY <2>1, <2>2, SignalStepShape DEF JobInv
  <2> QED
    BY <1>0, <1>3, <2>1, <2>3 DEF PostOK
<1> QED
  BY <1>0, <1>1, <1>2, <1>3, <1>4 DEF JobInv, JobsOK

-----------------------------------------------------------------------------
(* The steps of a round. *)

\* The peer of a job is one of the active ones.
LEMMA PeerOfJob ==
    ASSUME NEW S, NEW q \in Seq(S), NEW j \in Nat, Len(q) # 0
    PROVE  q[(j % Len(q)) + 1] \in S
<1>1. Len(q) \in Nat
  OBVIOUS
<1>2. \A n \in Nat \ {0} : j % n \in 0 .. (n - 1)
  OBVIOUS
<1>3. j % Len(q) \in 0 .. (Len(q) - 1)
  BY <1>1, <1>2
<1>4. (j % Len(q)) + 1 \in 1 .. Len(q)
  BY <1>1, <1>3
<1> QED
  BY <1>4

\* The facts about a goroutine and about a request that the steps below use.
LEMMA WorkerFacts ==
    ASSUME JobInv, NEW w \in Worker
    PROVE  /\ round \in [Worker -> Round] /\ WorkerOK(w)
           /\ round[w].phase \in {"none", "ask", "jobs", "post"}
           /\ round[w].asked \in 0 .. Len(Servers) /\ round[w].peers \in Seq(Server)
           /\ round[w].job \in 0 .. NJob
           /\ ticks[w] \in Nat /\ NJob \in Nat
BY JobAssumption DEF JobInv, JobsOK, JobTypes, Round, SignalInv, TypeOK

\* What a request consists of.
LEMMA PostFacts ==
    ASSUME JobInv, NEW p \in posts
    PROVE  /\ p \in Post /\ p.from \in Worker /\ p.tick \in Nat /\ p.job \in Nat
           /\ PostOK(p) /\ WorkerOK(p.from)
           /\ p.waits => /\ round[p.from].phase = "post" /\ p.job = round[p.from].job
                         /\ p.tick = ticks[p.from]
<1>1. p \in Post /\ p.from \in Worker /\ p.tick \in Nat /\ p.job \in Nat
  BY JobAssumption DEF JobInv, JobsOK, JobTypes, Post, Job
<1>2. PostOK(p) /\ WorkerOK(p.from)
  BY <1>1 DEF JobInv, JobsOK
<1> QED
  BY <1>1, <1>2 DEF PostOK, WorkerOK

\* What is known of a job that is posted or was run.
LEMMA BehindFacts ==
    ASSUME JobInv, NEW x \in posts \cup ran
    PROVE  x.from \in Worker /\ x.tick \in Nat /\ x.job \in Nat /\ Behind(x)
BY JobAssumption DEF JobInv, JobsOK, JobTypes, Post, RoundJob, Job, PostOK

\* Going on to the next job stays in the type of a round.
LEMMA NextJobIsRound ==
    ASSUME NEW r \in Round, r.job < NJob
    PROVE  NextJob(r) \in Round /\ NextJob(r).phase = "jobs" /\ NextJob(r).job = r.job + 1
<1>1. NJob \in Nat /\ r.job \in 0 .. NJob
  BY JobAssumption DEF Round
<1>2. r.job + 1 \in 0 .. NJob
  BY <1>1
<1> QED
  BY <1>2 DEF NextJob, Round

\* A round that begins or goes on before its first job: nothing of it is posted yet.
LEMMA BeforeJobs ==
    ASSUME JobInv, NEW w \in Worker, NEW r \in Round, r.phase \in {"ask", "jobs"},
           ticker[w] = "exec", round[w].phase \in {"none", "ask"},
           round[w].phase = "none" \/ r.job = round[w].job,
           round' = [round EXCEPT ![w] = r],
           UNCHANGED <<ticker, ticks, posts, broken, ran, again>>
    PROVE  JobsOK'
<1>1. JobTypes' /\ Distinct' /\ Unrun'
  BY DEF JobInv, JobsOK, JobTypes, Distinct, Unrun, SameJob
<1>2. round'[w] = r /\ \A x \in Worker \ {w} : round'[x] = round[x]
  BY WorkerFacts
<1>3. ASSUME NEW x \in Worker PROVE WorkerOK(x)'
  <2>1. WorkerOK(x)
    BY DEF JobInv, JobsOK
  <2>2. CASE x = w
    BY <1>2, <2>1, <2>2 DEF WorkerOK
  <2>3. CASE x # w
    BY <1>2, <2>1, <2>3 DEF WorkerOK
  <2> QED
    BY <2>2, <2>3
<1>4. ASSUME NEW x \in posts \cup ran PROVE Behind(x)'
  <2>1. x.from \in Worker /\ Behind(x)
    BY BehindFacts
  <2>2. CASE x.from = w
    BY <1>2, <2>1, <2>2 DEF Behind
  <2>3. CASE x.from # w
    BY <1>2, <2>1, <2>3 DEF Behind
  <2> QED
    BY <2>2, <2>3
<1>5. ASSUME NEW p \in posts PROVE PostOK(p)'
  <2>1. PostOK(p) /\ p.from \in Worker /\ (p.waits => p.from # w)
    BY PostFacts
  <2> QED
    BY <1>2, <1>4, <2>1 DEF PostOK
<1> QED
  BY <1>1, <1>3, <1>4, <1>5 DEF JobInv, JobsOK

\* A round begins: it asks for the cluster, or has the error and no job.
LEMMA TickKeepsJobs ==
    ASSUME JobInv, NEW w \in Worker, Tick(w)
    PROVE  JobsOK'
<1>0. UNCHANGED <<ticker, ticks, posts, broken, ran, again>>
  BY DEF Tick, vars
<1>1. ticker[w] = "exec" /\ round[w].phase = "none"
  BY DEF Tick, Working
<1>2. round[w] \in Round /\ round \in [Worker -> Round] /\ NJob \in 0 .. NJob
  BY WorkerFacts
<1>3. CASE round' = [round EXCEPT ![w].phase = "ask"]
  <2> DEFINE r == [round[w] EXCEPT !.phase = "ask"]
  <2>1. r \in Round /\ r.phase \in {"ask", "jobs"}
    BY <1>2 DEF Round
  <2>2. round' = [round EXCEPT ![w] = r]
    BY <1>2, <1>3
  <2> HIDE DEF r
  <2> QED
    BY <1>0, <1>1, <2>1, <2>2, BeforeJobs
<1>4. CASE round' = [round EXCEPT ![w].phase = "jobs", ![w].job = NJob]
  <2> DEFINE r == [round[w] EXCEPT !.phase = "jobs", !.job = NJob]
  <2>1. r \in Round /\ r.phase \in {"ask", "jobs"}
    BY <1>2 DEF Round
  <2>2. round' = [round EXCEPT ![w] = r]
    BY <1>2, <1>4
  <2> HIDE DEF r
  <2> QED
    BY <1>0, <1>1, <2>1, <2>2, BeforeJobs
<1> QED
  BY <1>3, <1>4 DEF Tick

\* The next server is asked: what is found active is a server.
LEMMA AskServerKeepsJobs ==
    ASSUME JobInv, NEW w \in Worker, AskServer(w)
    PROVE  JobsOK'
<1> DEFINE a == round[w].asked + 1
<1>0. UNCHANGED <<ticker, ticks, posts, broken, ran, again>>
  BY DEF AskServer, vars
<1>1. ticker[w] = "exec" /\ round[w].phase = "ask" /\ round[w].asked < Len(Servers)
  BY DEF AskServer, Working
<1>2. /\ round[w] \in Round /\ round \in [Worker -> Round]
      /\ round[w].asked \in 0 .. Len(Servers) /\ round[w].peers \in Seq(Server)
  BY WorkerFacts
<1>3. Len(Servers) \in Nat /\ DOMAIN Servers = 1 .. Len(Servers)
  BY ServersAssumption
<1>4. a \in 0 .. Len(Servers) /\ a \in DOMAIN Servers
  BY <1>1, <1>2, <1>3
<1>5. Servers[a] \in Server
  BY <1>4 DEF Server
<1>6. PICK ps \in Seq(Server) :
        round' = [round EXCEPT ![w].asked = a, ![w].peers = ps]
  <2>1. Append(round[w].peers, Servers[a]) \in Seq(Server)
    BY <1>2, <1>5
  <2> QED
    BY <1>2, <2>1 DEF AskServer, ActivePeers
<1> DEFINE r == [round[w] EXCEPT !.asked = a, !.peers = ps]
<1>7. r \in Round /\ r.phase = "ask" /\ r.job = round[w].job
  BY <1>1, <1>2, <1>4 DEF Round
<1>8. round' = [round EXCEPT ![w] = r]
  BY <1>2, <1>6
<1> HIDE DEF r, a
<1> QED
  BY <1>0, <1>1, <1>7, <1>8, BeforeJobs

\* Set returns and the jobs are up.
LEMMA SetItemsKeepsJobs ==
    ASSUME JobInv, NEW w \in Worker, SetItems(w)
    PROVE  JobsOK'
<1>0. UNCHANGED <<ticker, ticks, posts, broken, ran, again>>
  BY DEF SetItems, vars
<1>1. ticker[w] = "exec" /\ round[w].phase = "ask"
  BY DEF SetItems, Working
<1>2. round[w] \in Round /\ round \in [Worker -> Round] /\ 0 \in 0 .. Len(Servers)
  BY WorkerFacts, ServersAssumption
<1> DEFINE r == [round[w] EXCEPT !.phase = "jobs", !.asked = 0]
<1>3. r \in Round /\ r.phase = "jobs" /\ r.job = round[w].job
  BY <1>2 DEF Round
<1>4. round' = [round EXCEPT ![w] = r]
  BY <1>2 DEF SetItems
<1> HIDE DEF r
<1> QED
  BY <1>0, <1>1, <1>3, <1>4, BeforeJobs

\* No round is a round.
LEMMA NoRoundIsRound == NoRound \in Round /\ NoRound.phase = "none"
<1>1. <<>> \in Seq(Server) /\ 0 \in 0 .. NJob /\ 0 \in 0 .. Len(Servers)
  BY JobAssumption, ServersAssumption
<1> QED
  BY <1>1 DEF NoRound, Round

\* The end of a round leaves requests behind that are not waited for.
LEMMA RoundEndsKeepsJobs ==
    ASSUME JobInv, NEW w \in Worker, RoundEnds(w)
    PROVE  JobsOK'
<1>0. /\ UNCHANGED <<ticks, posts, broken, ran, again>>
      /\ ticker' = [ticker EXCEPT ![w] = "select"]
  BY DEF RoundEnds, ExecFns
<1>1. round[w].phase = "jobs" /\ round' = [round EXCEPT ![w] = NoRound]
  BY DEF RoundEnds
<1>2. JobTypes' /\ Distinct' /\ Unrun'
  BY <1>0, <1>1, NoRoundIsRound DEF JobInv, JobsOK, JobTypes, Distinct, Unrun, SameJob
<1>3. /\ round'[w] = NoRound /\ ticker'[w] = "select"
      /\ \A x \in Worker \ {w} : round'[x] = round[x] /\ ticker'[x] = ticker[x]
  BY <1>0, <1>1, WorkerFacts DEF JobInv, SignalInv, TypeOK
<1>4. ASSUME NEW x \in Worker PROVE WorkerOK(x)'
  <2>1. WorkerOK(x)
    BY DEF JobInv, JobsOK
  <2>2. CASE x = w
    BY <1>0, <1>1, <1>3, <2>1, <2>2, NoRoundIsRound DEF WorkerOK
  <2>3. CASE x # w
    BY <1>0, <1>3, <2>1, <2>3 DEF WorkerOK
  <2> QED
    BY <2>2, <2>3
<1>5. ASSUME NEW x \in posts \cup ran PROVE Behind(x)'
  <2>1. x.from \in Worker /\ Behind(x)
    BY BehindFacts
  <2>2. CASE x.from = w
    BY <1>0, <1>3, <2>1, <2>2, NoRoundIsRound DEF Behind
  <2>3. CASE x.from # w
    BY <1>0, <1>3, <2>1, <2>3 DEF Behind
  <2> QED
    BY <2>2, <2>3
<1>6. ASSUME NEW p \in posts PROVE PostOK(p)'
  <2>1. PostOK(p) /\ p.from \in Worker /\ (p.waits => p.from # w)
    BY <1>1, PostFacts
  <2> QED
    BY <1>0, <1>3, <1>5, <2>1 DEF PostOK
<1> QED
  BY <1>0, <1>2, <1>4, <1>5, <1>6 DEF JobInv, JobsOK

\* A job is posted after all jobs of the round that have been posted before.
LEMMA DistributeKeepsJobs ==
    ASSUME JobInv, NEW w \in Worker, DistributeJob(w)
    PROVE  JobsOK'
<1> DEFINE r == round[w]
           n == Len(r.peers)
<1>0. UNCHANGED <<ticker, ticks, broken>>
  BY DEF DistributeJob, vars
<1>1. /\ ticker[w] = "exec" /\ r.phase = "jobs" /\ r.job < NJob
      /\ r \in Round /\ round \in [Worker -> Round]
      /\ r.job \in Nat /\ r.job \in Job /\ NJob \in Nat /\ ticks[w] \in Nat
      /\ r.peers \in Seq(Server)
  BY WorkerFacts DEF DistributeJob, Working, Job
<1>2. ASSUME NEW x \in posts \cup ran, x.from = w, x.tick = ticks[w]
      PROVE  x.job < r.job
  BY <1>1, <1>2, BehindFacts DEF Behind
<1>3. \A p \in posts : p.waits => p.from # w
  BY <1>1, PostFacts
<1>4. CASE n = 0
  <2>1. round' = [round EXCEPT ![w] = NextJob(r)] /\ posts' = posts
    BY <1>4 DEF DistributeJob
  <2>2. NextJob(r) \in Round /\ NextJob(r).phase = "jobs" /\ NextJob(r).job = r.job + 1
    BY <1>1, NextJobIsRound
  <2>3. PICK new \in RoundJob :
          /\ new.from = w /\ new.tick = ticks[w] /\ new.job = r.job
          /\ ran' = ran \cup {new} /\ again' = again \cup ({new} \cap ran)
    <3> DEFINE one == [from |-> w, tick |-> ticks[w], job |-> r.job]
    <3>1. one \in RoundJob /\ one.from = w /\ one.tick = ticks[w] /\ one.job = r.job
      BY <1>1 DEF RoundJob
    <3>2. ran' = ran \cup {one} /\ again' = again \cup ({one} \cap ran)
      BY <1>4 DEF DistributeJob, Run
    <3> QED
      BY <3>1, <3>2
  <2>4. JobTypes' /\ Distinct'
    BY <1>0, <2>1, <2>2, <2>3 DEF JobInv, JobsOK, JobTypes, Distinct, SameJob
  <2>5. \A x \in posts \cup ran : ~SameJob(x, new)
    BY <1>1, <1>2, <2>3, BehindFacts DEF SameJob
  <2>6. new \notin ran /\ again' = {}
    BY <2>3, <2>5 DEF SameJob, JobInv, JobsOK
  <2>7. Unrun'
    BY <2>1, <2>3, <2>5 DEF JobInv, JobsOK, Unrun, SameJob
  <2>8. round'[w] = NextJob(r) /\ \A x \in Worker \ {w} : round'[x] = round[x]
    BY <1>1, <2>1
  <2>9. ASSUME NEW x \in Worker PROVE WorkerOK(x)'
    <3>1. WorkerOK(x)
      BY DEF JobInv, JobsOK
    <3>2. CASE x = w
      BY <1>0, <1>1, <2>1, <2>2, <2>8, <3>1, <3>2 DEF WorkerOK
    <3>3. CASE x # w
      BY <1>0, <2>1, <2>8, <3>1, <3>3 DEF WorkerOK
    <3> QED
      BY <3>2, <3>3
  <2>10. ASSUME NEW x \in posts \cup ran PROVE Behind(x)'
    <3>1. Behind(x) /\ x.from \in Worker /\ x.job \in Nat
      BY BehindFacts
    <3>2. CASE x.from = w
      <4>1. x.tick = ticks[w] => x.job < r.job + 1
        BY <1>1, <1>2, <3>1, <3>2
      <4> QED
        BY <1>0, <2>2, <2>8, <3>1, <3>2, <4>1 DEF Behind
    <3>3. CASE x.from # w
      BY <1>0, <2>8, <3>1, <3>3 DEF Behind
    <3> QED
      BY <3>2, <3>3
  <2>11. Behind(new)'
    <3>1. r.job < r.job + 1 /\ ticks[w] <= ticks[w]
      BY <1>1
    <3> QED
      BY <1>0, <2>2, <2>3, <2>8, <3>1 DEF Behind
  <2>12. ASSUME NEW p \in posts PROVE PostOK(p)'
    <3>1. PostOK(p) /\ p.from \in Worker
      BY PostFacts
    <3> QED
      BY <1>0, <1>3, <2>8, <2>10, <3>1 DEF PostOK
  <2> QED
    BY <2>1, <2>3, <2>4, <2>6, <2>7, <2>9, <2>10, <2>11, <2>12 DEF JobsOK
<1>5. CASE n # 0
  <2> DEFINE one == [from |-> w, tick |-> ticks[w], job |-> r.job,
                     to |-> r.peers[(r.job % n) + 1], dealt |-> FALSE, waits |-> TRUE]
             s == [r EXCEPT !.phase = "post"]
  <2>1. /\ round' = [round EXCEPT ![w] = s] /\ posts' = posts \cup {one}
        /\ UNCHANGED <<ran, again>>
    BY <1>1, <1>5 DEF DistributeJob
  <2>2. s \in Round /\ s.phase = "post" /\ s.job = r.job
    BY <1>1 DEF Round
  <2>3. r.peers[(r.job % n) + 1] \in Server
    BY <1>1, <1>5, PeerOfJob
  <2>4. PICK new \in Post :
          /\ new.from = w /\ new.tick = ticks[w] /\ new.job = r.job /\ new.waits = TRUE
          /\ posts' = posts \cup {new}
    <3>1. /\ one \in Post /\ one.from = w /\ one.tick = ticks[w] /\ one.job = r.job
          /\ one.waits = TRUE
      BY <1>1, <2>3 DEF Post
    <3> QED
      BY <2>1, <3>1
  <2> HIDE DEF one, s
  <2>5. JobTypes'
    BY <1>0, <2>1, <2>2, <2>4 DEF JobInv, JobsOK, JobTypes
  <2>6. \A x \in posts \cup ran : ~SameJob(x, new) /\ ~SameJob(new, x)
    BY <1>1, <1>2, <2>4, BehindFacts DEF SameJob
  <2>7. Distinct' /\ Unrun'
    BY <2>1, <2>4, <2>6 DEF JobInv, JobsOK, Distinct, Unrun, SameJob
  <2>8. round'[w] = s /\ \A x \in Worker \ {w} : round'[x] = round[x]
    BY <1>1, <2>1
  <2>9. ASSUME NEW x \in Worker PROVE WorkerOK(x)'
    <3>1. WorkerOK(x)
      BY DEF JobInv, JobsOK
    <3>2. CASE x = w
      BY <1>0, <1>1, <2>1, <2>2, <2>4, <2>8, <3>2 DEF WorkerOK
    <3>3. CASE x # w
      BY <1>0, <2>1, <2>4, <2>8, <3>1, <3>3 DEF WorkerOK
    <3> QED
      BY <3>2, <3>3
  <2>10. ASSUME NEW x \in posts \cup ran PROVE Behind(x)'
    <3>1. Behind(x) /\ x.from \in Worker
      BY BehindFacts
    <3>2. CASE x.from = w
      BY <1>0, <1>2, <2>2, <2>8, <3>1, <3>2 DEF Behind
    <3>3. CASE x.from # w
      BY <1>0, <2>8, <3>1, <3>3 DEF Behind
    <3> QED
      BY <3>2, <3>3
  <2>11. ASSUME NEW p \in posts PROVE PostOK(p)'
    <3>1. PostOK(p) /\ p.from \in Worker
      BY PostFacts
    <3> QED
      BY <1>0, <1>3, <2>8, <2>10, <3>1 DEF PostOK
  <2>12. PostOK(new)'
    <3>1. new.tick <= ticks[w]
      BY <1>1, <2>4
    <3> QED
      BY <1>0, <2>2, <2>4, <2>8, <3>1 DEF PostOK, Behind
  <2> QED
    BY <2>1, <2>4, <2>5, <2>7, <2>9, <2>10, <2>11, <2>12 DEF JobInv, JobsOK
<1> QED
  BY <1>4, <1>5

\* A request that is gone or replaced by one for the same job keeps them distinct.
LEMMA ReplaceDistinct ==
    ASSUME Distinct, NEW p \in posts, NEW p2, SameJob(p2, p),
           posts' = posts \ {p} \/ posts' = (posts \ {p}) \cup {p2}
    PROVE  Distinct'
BY DEF Distinct, SameJob

\* The wait ends, with an answer or with an error, and the round goes on; a request
\* that is still to run stays behind the next job.
LEMMA WaitEnds ==
    ASSUME JobInv, NEW p \in posts, p.waits,
           UNCHANGED <<ticker, ticks, ran, again>>, broken' \in 0 .. MaxBroken,
           round' = [round EXCEPT ![p.from] = NextJob(@)],
           \/ posts' = posts \ {p}
           \/ posts' = (posts \ {p}) \cup {[p EXCEPT !.waits = FALSE]}
    PROVE  JobsOK'
<1> DEFINE w == p.from
           r == round[w]
           p2 == [p EXCEPT !.waits = FALSE]
<1>1. /\ p \in Post /\ w \in Worker /\ p.tick = ticks[w] /\ p.job = r.job
      /\ r.phase = "post" /\ p.job \in Nat /\ WorkerOK(w) /\ ticks[w] \in Nat
  BY PostFacts, WorkerFacts
<1>2. r \in Round /\ r.job < NJob /\ r.job \in Nat /\ ticker[w] = "exec"
  BY <1>1, WorkerFacts DEF WorkerOK
<1>3. NextJob(r) \in Round /\ NextJob(r).phase = "jobs" /\ NextJob(r).job = r.job + 1
  BY <1>2, NextJobIsRound
<1>4. round'[w] = NextJob(r) /\ \A x \in Worker \ {w} : round'[x] = round[x]
  BY <1>1, WorkerFacts
<1>5. /\ p2 \in Post /\ p2.from = w /\ p2.tick = p.tick /\ p2.job = p.job
      /\ p2.waits = FALSE /\ p2.dealt = p.dealt
  BY <1>1 DEF Post
<1>6. posts' \subseteq (posts \ {p}) \cup {p2} /\ posts \ {p} \subseteq posts'
  OBVIOUS
<1>7. Distinct'
  BY <1>5, ReplaceDistinct DEF SameJob, JobInv, JobsOK
<1> HIDE DEF p2
<1>8. JobTypes' /\ Unrun'
  BY <1>1, <1>3, <1>5, <1>6, WorkerFacts DEF JobInv, JobsOK, JobTypes, Unrun, SameJob
<1>9. ASSUME NEW q \in posts \ {p}, q.from = w PROVE ~q.waits
  <2> SUFFICES ASSUME q.waits PROVE FALSE
    OBVIOUS
  <2>1. q.tick = p.tick /\ q.job = p.job
    BY <1>1, <1>9, PostFacts
  <2> QED
    BY <1>9, <2>1 DEF JobInv, JobsOK, Distinct, SameJob
<1>10. ASSUME NEW x \in Worker PROVE WorkerOK(x)'
  <2>1. WorkerOK(x)
    BY DEF JobInv, JobsOK
  <2>2. CASE x = w
    BY <1>2, <1>3, <1>4, <1>5, <1>6, <1>9, <2>2 DEF WorkerOK
  <2>3. CASE x # w
    <3>1. (\E q \in posts' : q.from = x /\ q.waits) <=> \E q \in posts : q.from = x /\ q.waits
      BY <1>5, <1>6, <2>3
    <3> QED
      BY <1>4, <2>1, <2>3, <3>1 DEF WorkerOK
  <2> QED
    BY <2>2, <2>3
<1>11. ASSUME NEW x \in posts \cup ran PROVE Behind(x)'
  <2>1. Behind(x) /\ x.from \in Worker /\ x.job \in Nat
    BY BehindFacts
  <2>2. CASE x.from = w
    <3>1. x.tick = ticks[w] => x.job < r.job + 1
      BY <1>1, <1>2, <2>1, <2>2 DEF Behind
    <3> QED
      BY <1>3, <1>4, <2>1, <2>2, <3>1 DEF Behind
  <2>3. CASE x.from # w
    BY <1>4, <2>1, <2>3 DEF Behind
  <2> QED
    BY <2>2, <2>3
<1>12. ASSUME NEW q \in posts \ {p} PROVE PostOK(q)'
  <2>1. PostOK(q) /\ q.from \in Worker
    BY PostFacts
  <2> QED
    BY <1>4, <1>9, <1>11, <2>1 DEF PostOK
<1>13. PostOK(p2)'
  <2>1. p2.tick <= ticks[w] /\ p2.job < r.job + 1
    BY <1>1, <1>2, <1>5
  <2> QED
    BY <1>3, <1>4, <1>5, <2>1 DEF PostOK, Behind
<1> QED
  BY <1>6, <1>7, <1>8, <1>10, <1>11, <1>12, <1>13 DEF JobInv, JobsOK

\* The peer is done with a request: the client still waits or the request is gone.
LEMMA InvokeKeepsJobs ==
    ASSUME JobInv, NEW p \in posts, Invoke(p)
    PROVE  JobsOK'
<1> DEFINE p2 == [p EXCEPT !.dealt = TRUE]
           one == JobOf(p)
<1>0. UNCHANGED <<ticker, ticks, round, broken>> /\ ~p.dealt
  BY DEF Invoke, vars
<1>1. /\ p.waits => posts' = (posts \ {p}) \cup {p2}
      /\ ~p.waits => posts' = posts \ {p}
      /\ ran' = ran \cup {one} /\ again' = again \cup ({one} \cap ran)
  BY DEF Invoke, Run
<1>2. p \in Post /\ PostOK(p)
  BY PostFacts
<1>3. /\ p2 \in Post /\ p2.from = p.from /\ p2.tick = p.tick /\ p2.job = p.job
      /\ p2.waits = p.waits /\ p2.dealt
  BY <1>2 DEF Post
<1>4. one \in RoundJob /\ one.from = p.from /\ one.tick = p.tick /\ one.job = p.job
  BY <1>2 DEF JobOf, RoundJob, Post
<1>5. posts' = posts \ {p} \/ posts' = (posts \ {p}) \cup {p2}
  BY <1>1
<1>6. Distinct'
  BY <1>3, <1>5, ReplaceDistinct DEF SameJob, JobInv, JobsOK
<1> HIDE DEF p2, one
<1>7. JobTypes'
  BY <1>0, <1>1, <1>3, <1>4, <1>5 DEF JobInv, JobsOK, JobTypes
<1>8. one \notin ran /\ again' = {}
  BY <1>0, <1>1, <1>4 DEF JobInv, JobsOK, Unrun, SameJob
<1>9. \A q \in posts \ {p} : ~SameJob(q, one)
  BY <1>4 DEF JobInv, JobsOK, Distinct, SameJob
<1>10. Unrun'
  BY <1>1, <1>3, <1>5, <1>9 DEF JobInv, JobsOK, Unrun
<1>11. ASSUME NEW x \in Worker PROVE WorkerOK(x)'
  <2>1. (\E q \in posts' : q.from = x /\ q.waits) <=> \E q \in posts : q.from = x /\ q.waits
    BY <1>1, <1>3
  <2> QED
    BY <1>0, <2>1 DEF JobInv, JobsOK, WorkerOK
<1>12. \A x \in posts : PostOK(x)'
  BY <1>0 DEF JobInv, JobsOK, PostOK, Behind
<1>13. \A x \in ran : Behind(x)'
  BY <1>0 DEF JobInv, JobsOK, Behind
<1>14. PostOK(p2)' /\ Behind(one)'
  BY <1>0, <1>2, <1>3, <1>4 DEF PostOK, Behind
<1> QED
  BY <1>1, <1>5, <1>6, <1>7, <1>8, <1>10, <1>11, <1>12, <1>13, <1>14 DEF JobsOK

-----------------------------------------------------------------------------
(* The theorems. *)

\* No round is under way in the beginning.
LEMMA JobInitInv == JobInit => JobInv
<1> SUFFICES ASSUME JobInit PROVE JobInv
  OBVIOUS
<1>1. SignalInv
  BY SignalInit DEF JobInit
<1>2. JobTypes
  <2>1. broken \in 0 .. MaxBroken
    BY JobAssumption DEF JobInit
  <2> QED
    BY <2>1, NoRoundIsRound DEF JobInit, JobTypes
<1>3. \A w \in Worker : WorkerOK(w)
  BY NoRoundIsRound DEF JobInit, WorkerOK
<1>4. Distinct /\ Unrun /\ again = {} /\ (\A p \in posts : PostOK(p))
      /\ \A x \in ran : Behind(x)
  BY DEF JobInit, Distinct, Unrun
<1> QED
  BY <1>1, <1>2, <1>3, <1>4 DEF JobInv, JobsOK

\* Every step keeps the invariant.
LEMMA JobNextInv == JobInv /\ [JobNext]_allVars => JobInv'
<1> SUFFICES ASSUME JobInv, [JobNext]_allVars PROVE JobInv'
  OBVIOUS
<1>1. SignalInv'
  BY JobStepIsSignalStep, SignalNext DEF JobInv
<1>2. CASE SignalStep
  BY <1>1, <1>2, SignalStepKeepsJobs DEF JobInv
<1>3. CASE \E w \in Worker : Tick(w) \/ AskServer(w) \/ SetItems(w)
  BY <1>1, <1>3, TickKeepsJobs, AskServerKeepsJobs, SetItemsKeepsJobs DEF JobInv
<1>4. CASE \E w \in Worker : DistributeJob(w) \/ RoundEnds(w)
  BY <1>1, <1>4, DistributeKeepsJobs, RoundEndsKeepsJobs DEF JobInv
<1>5. ASSUME NEW p \in posts, Answered(p) PROVE JobInv'
  <2>1. /\ UNCHANGED <<ticker, ticks, broken, ran, again>> /\ p.waits
        /\ posts' = posts \ {p}
        /\ round' = [round EXCEPT ![p.from] = NextJob(@)]
    BY <1>5 DEF Answered, vars
  <2>2. broken' \in 0 .. MaxBroken
    BY <2>1 DEF JobInv, JobsOK, JobTypes
  <2> QED
    BY <1>1, <2>1, <2>2, WaitEnds DEF JobInv
<1>6. ASSUME NEW p \in posts, Broken(p) PROVE JobInv'
  <2>1. /\ UNCHANGED <<ticker, ticks, ran, again>> /\ p.waits
        /\ round' = [round EXCEPT ![p.from] = NextJob(@)]
        /\ \/ posts' = posts \ {p}
           \/ posts' = (posts \ {p}) \cup {[p EXCEPT !.waits = FALSE]}
        /\ broken < MaxBroken /\ broken' = broken + 1
    BY <1>6 DEF Broken, vars
  <2>2. broken' \in 0 .. MaxBroken
    BY <2>1, JobAssumption DEF JobInv, JobsOK, JobTypes
  <2> QED
    BY <1>1, <2>1, <2>2, WaitEnds DEF JobInv
<1>7. ASSUME NEW p \in posts, Invoke(p) PROVE JobInv'
  BY <1>1, <1>7, InvokeKeepsJobs DEF JobInv
<1>8. CASE UNCHANGED allVars
  <2>1. UNCHANGED <<ticker, ticks, round, posts, broken, ran, again>>
    BY <1>8 DEF allVars, vars, jobVars
  <2>2. JobTypes' /\ Distinct' /\ Unrun'
    BY <2>1 DEF JobInv, JobsOK, JobTypes, Distinct, Unrun, SameJob
  <2> QED
    BY <1>1, <2>1, <2>2 DEF JobInv, JobsOK, WorkerOK, PostOK, Behind
<1> QED
  BY <1>2, <1>3, <1>4, <1>5, <1>6, <1>7, <1>8 DEF JobNext

\* The invariant holds throughout.
LEMMA JobInvariance == JobSpec => []JobInv
BY JobInitInv, JobNextInv, PTL DEF JobSpec

\* The tickers of cmd/hraftd with their jobs implement the tickers of LeaderSignal, so
\* that what is proved there holds here.
THEOREM JobsImplementSignals == JobSpec => Spec
<1>1. JobInit => Init
  BY DEF JobInit
<1>2. [JobNext]_allVars => [Next]_vars
  BY JobStepIsSignalStep
<1> QED
  BY <1>1, <1>2, PTL DEF JobSpec, Spec

\* The types; a goroutine has a request out exactly when it waits, and never two.
THEOREM JobsTypes == JobSpec => []JobTypeOK
<1>1. ASSUME JobInv PROVE JobTypeOK
  <2>1. ASSUME NEW w \in Worker
        PROVE  Cardinality({p \in posts : p.from = w /\ p.waits})
                  = IF round[w].phase = "post" THEN 1 ELSE 0
    <3> DEFINE W == {p \in posts : p.from = w /\ p.waits}
    <3>1. WorkerOK(w)
      BY <1>1 DEF JobInv, JobsOK
    <3>2. CASE round[w].phase # "post"
      <4>1. W = {}
        BY <3>1, <3>2 DEF WorkerOK
      <4> QED
        BY <3>2, <4>1, FS_EmptySet
    <3>3. CASE round[w].phase = "post"
      <4>1. PICK p \in posts : p.from = w /\ p.waits
        BY <3>1, <3>3 DEF WorkerOK
      <4>2. ASSUME NEW q \in W PROVE q = p
        <5>1. q.tick = p.tick /\ q.job = p.job
          BY <1>1, <4>1, <4>2, PostFacts
        <5> QED
          BY <1>1, <4>1, <4>2, <5>1 DEF JobInv, JobsOK, Distinct, SameJob
      <4>3. W = {p}
        BY <4>1, <4>2
      <4> HIDE DEF W
      <4>4. Cardinality(W) = 1
        BY <4>3, FS_Singleton
      <4> QED
        BY <3>3, <4>4 DEF W
    <3> QED
      BY <3>2, <3>3
  <2>2. \A w \in Worker : round[w].phase # "none" => ticker[w] = "exec"
    BY <1>1 DEF JobInv, JobsOK, WorkerOK
  <2>3. TypeOK /\ JobTypes /\ again = {}
    BY <1>1 DEF JobInv, JobsOK, SignalInv
  <2> QED
    BY <2>1, <2>2, <2>3 DEF JobTypeOK, JobTypes
<1> QED
  BY <1>1, JobInvariance, PTL

\* No job of a round runs twice, however connections break and peers lag behind: a
\* round posts a job behind all that were posted or run before, and a peer deals with
\* a request once.
THEOREM NoJobTwice == JobSpec => []JobsAtMostOnce
<1>1. JobInv => JobsAtMostOnce
  BY DEF JobInv, JobsOK, JobsAtMostOnce
<1> QED
  BY <1>1, JobInvariance, PTL

\* The properties of the signals hold of the tickers with their jobs.
COROLLARY JobSignals ==
    JobSpec => [](SignalsInOrder /\ StaleOnlyIfLost /\ ExtraTickersNeedLostLoss)
BY JobsImplementSignals, SignalsKeepOrder, StaleOnlyWhenLost, ExtraTickersBounded, PTL

=============================================================================
