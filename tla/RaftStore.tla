------------------------------ MODULE RaftStore ------------------------------
(***************************************************************************)
(* The replicated key-value store of store.go: what every node keeps (the  *)
(* map m, its applied index, its snapshot), how Set and Delete travel      *)
(* through the Raft log, how Apply treats an entry on each replica, and    *)
(* what snapshots, crashes, restarts and snapshot transfers do to it.      *)
(*                                                                         *)
(* hashicorp/raft is external.  It is modelled by what store.go relies on: *)
(* one sequence of committed commands that never changes, an entry         *)
(* committed once a majority stores it, leaders that store every committed *)
(* entry, and an FSM goroutine that calls Apply, Snapshot and Restore one  *)
(* at a time.  The set of voters is fixed, and the stores are the durable  *)
(* ones of createStores (Arg.InMem = FALSE): a crash loses the process and *)
(* nothing else.  Without crashes the in-memory stores behave the same.    *)
(*                                                                         *)
(* Time is counted in ticks.  Every node reads two clocks: the wall clock  *)
(* of its time zone, which FormatTime writes into a command, and UTC,      *)
(* against which Apply compares the text that ParseTime reads back.        *)
(***************************************************************************)
EXTENDS Integers, Sequences, FiniteSets

CONSTANTS
    Node,           \* the voters of the cluster
    Key,            \* keys of the map
    Value,          \* values of the map
    Client,         \* goroutines that call Set or Delete (HTTP handlers)
    None,           \* no value, no node
    ClusterKey,     \* the key "/raft/cluster", which Apply does not store
    ClusterValue,   \* values that parse as a RaftCluster
    SavedKey,       \* the key "raft/cluster", which saveCluster sets
    Interceptor,    \* <<key, value>> of the commands ApplyInterceptor takes
    DealerKey,      \* keys for which a log dealer is registered
    Decoded,        \* values that decode as a dealer's parameter
    PassedOn,       \* values on which a dealer returns ErrDealerContinue
    Window,         \* the 100 seconds after which a set is ignored
    LocalClock,     \* per node: wall clock of its zone minus true UTC
    UtcClock,       \* per node: its reading of UTC minus true UTC
    MaxLog,         \* bound on the committed log
    MaxTime,        \* bound on the clock
    MaxFault        \* bound on crashes and losses of leadership

ASSUME NoneAssumption == None \notin Value /\ None \notin Node
ASSUME ClientAssumption == Client \cap Node = {}
ASSUME DealerAssumption ==
    DealerKey \subseteq Key /\ Decoded \subseteq Value /\ PassedOn \subseteq Decoded
ASSUME ClusterAssumption ==
    ClusterValue \subseteq Value /\ SavedKey \in Key /\ SavedKey # ClusterKey
ASSUME WindowAssumption == Window \in Nat
ASSUME ClockAssumption == LocalClock \in [Node -> Int] /\ UtcClock \in [Node -> Int]
ASSUME BoundAssumption == {MaxLog, MaxTime, MaxFault} \subseteq Nat

VARIABLES
    log,        \* the committed commands, the same sequence for all
    leader,     \* the node in state Leader, or None
    up,         \* up[n]: the process of n runs
    stored,     \* stored[n]: last committed entry in n's log store
    snap,       \* snap[n]: the newest snapshot in n's snapshot store
    pending,    \* pending[n]: the FSMSnapshot taken and not yet persisted
    m,          \* m[n]: the map of n's RaftStore
    applied,    \* applied[n]: index of the last entry given to Apply
    missed,     \* history: entries Apply ignored as too old, in m[n]'s past
    peersFile,  \* peersFile[n]: what n's peers.json was last written with
    post,       \* post[n]: whether n's Apply is waiting in a join, and for what
    call,       \* call[g]: the Set or Delete call of goroutine g
    now,        \* true UTC
    faults      \* crashes and losses of leadership so far

raftVars == <<log, leader, stored>>
fsmVars  == <<m, applied, missed, peersFile, post>>
vars == <<log, leader, up, stored, snap, pending, m, applied, missed, peersFile,
          post, call, now, faults>>

-----------------------------------------------------------------------------
(* Data. *)

Command  == [op : {"set"}, key : Key, val : Value, time : Int]
                \cup [op : {"delete"}, key : Key, val : {None}, time : Int]
Map      == [Key -> Value \cup {None}]
EmptyMap == [k \in Key |-> None]

\* What a snapshot holds: the map, the index it stands for and, as history,
\* the entries the replica had ignored when it was taken.
Image   == [idx : Nat, store : Map, missed : SUBSET Nat]
NoImage == [idx |-> 0, store |-> EmptyMap, missed |-> {}]

\* The goroutines that call Set: those of the clients, and per node the handler,
\* in the leader's process, of the join that the node's Apply posts.  A node has
\* one such handler at a time.
Goroutine == Client \cup Node

\* A call in progress; a goroutine is idle before a call and after its return.
Idle == [phase |-> "idle", node |-> None, cmd |-> None, idx |-> 0]
Call == {Idle} \cup [phase : {"stamped", "logged"}, node : Node,
                     cmd : Command, idx : Nat]

\* Majorities of the fixed configuration.
Quorum == {Q \in SUBSET Node : 2 * Cardinality(Q) > Cardinality(Node)}

-----------------------------------------------------------------------------
(* The age check of Apply. *)

\* The layout has no zone: it is the local wall clock that is written.
FormatTime(n) == now + LocalClock[n]

\* time.Parse takes a text without a zone to be UTC.
ParseTime(t) == t

\* At true time t, node n takes command c to be too old.
TooOld(c, n, t) == ParseTime(c.time) < t + UtcClock[n] - Window

\* The program's ApplyInterceptor takes the command before any dealer is looked
\* for; it is taken to decide by key and value, alike on every node.
TakenFirst(c) == <<c.key, c.val>> \in Interceptor

\* Intercept ends Apply: the interceptor takes the command, or there is a dealer
\* for its key, unless that dealer runs and asks to go on.  A value that does not
\* decode, as the missing value of a delete, is an error that ends Apply too.
Intercepted(c) == TakenFirst(c) \/ (c.key \in DealerKey /\ c.val \notin PassedOn)

\* A set that Apply ignores because of its age.
Dropped(c, n) == ~Intercepted(c) /\ c.op = "set" /\ TooOld(c, n, now)

\* A command about the map; a set of ClusterKey is about peers.json.
Kept(c) == ~Intercepted(c) /\ ~(c.op = "set" /\ c.key = ClusterKey)

\* Mutant: the age check stands before the switch on the operation.
ApplyToMapDropsOldDelete(s, c, n) ==
    IF Kept(c) /\ ~TooOld(c, n, now)
    THEN [s EXCEPT ![c.key] = IF c.op = "set" THEN c.val ELSE None]
    ELSE s

\* The map after Apply of command c to map s on node n.
ApplyToMap(s, c, n) ==
    IF Kept(c) /\ ~Dropped(c, n)
    THEN [s EXCEPT ![c.key] = IF c.op = "set" THEN c.val ELSE None]
    ELSE s

\* Apply calls processSetRaftCluster with a value that it can parse.
SetsCluster(c, n) ==
    /\ c.op = "set" /\ c.key = ClusterKey /\ c.val \in ClusterValue
    /\ ~Intercepted(c) /\ ~Dropped(c, n)

\* processSetRaftCluster writes peers.json instead of the map.
ApplyToPeersFile(f, c, n) == IF SetsCluster(c, n) THEN c.val ELSE f

-----------------------------------------------------------------------------
(* Set and Delete. *)

IsLeader(n) == leader = n

\* The leader check, then the command is stamped with the current time.
Submit(c, n, op, k, v) ==
    /\ up[n]
    /\ call[c].phase = "idle"
    /\ call' = [call EXCEPT ![c] =
                  IF IsLeader(n)
                  THEN [phase |-> "stamped", node |-> n, idx |-> 0,
                        cmd |-> [op |-> op, key |-> k, val |-> v,
                                 time |-> FormatTime(n)]]
                  ELSE Idle]
    /\ UNCHANGED <<raftVars, fsmVars, up, snap, pending, now, faults>>

Set(c, n, k, v) == Submit(c, n, "set", k, v)

Delete(c, n, k) == Submit(c, n, "delete", k, None)

\* raft.Apply: the leader appends the command and a majority stores it.  The
\* leader's log starts after its snapshot, so it brings only a follower that
\* is not behind that snapshot up to date by log entries.
RaftApply(c) ==
    LET n == call[c].node
    IN  /\ call[c].phase = "stamped"
        /\ up[n] /\ IsLeader(n) /\ Len(log) < MaxLog
        /\ \E Q \in Quorum :
              /\ n \in Q
              /\ \A q \in Q : up[q] /\ stored[q] >= snap[n].idx
              /\ stored' = [q \in Node |->
                              IF q \in Q THEN Len(log) + 1 ELSE stored[q]]
        /\ log' = Append(log, call[c].cmd)
        /\ call' = [call EXCEPT ![c] =
                      [phase |-> "logged", node |-> n, cmd |-> call[c].cmd,
                       idx |-> Len(log) + 1]]
        /\ UNCHANGED <<leader, up, snap, pending, fsmVars, now, faults>>

\* Mutant: Apply is called without a timeout, so a leader with a full queue waits.
RaftApplyWithoutTimeout(c) ==
    /\ call[c].phase = "stamped" /\ ~IsLeader(call[c].node)
    /\ call' = [call EXCEPT ![c] = Idle]
    /\ UNCHANGED <<raftVars, fsmVars, up, snap, pending, now, faults>>

\* raft.Apply fails before the command is in the log: the queue is full until
\* the timeout, or the node is no longer the leader.
RaftApplyFails(c) ==
    /\ call[c].phase = "stamped"
    /\ call' = [call EXCEPT ![c] = Idle]
    /\ UNCHANGED <<raftVars, fsmVars, up, snap, pending, now, faults>>

\* Apply of entry i has returned on node n.
Finished(n, i) == applied[n] > i \/ (applied[n] = i /\ post[n] = "none")

\* The future resolves once Apply of the entry has returned on the node itself:
\* the call returns nil.
Return(c) ==
    /\ call[c].phase = "logged"
    /\ Finished(call[c].node, call[c].idx)
    /\ call' = [call EXCEPT ![c] = Idle]
    /\ UNCHANGED <<raftVars, fsmVars, up, snap, pending, now, faults>>

\* The node lost its leadership before it knew that the command is committed:
\* f.Error() is ErrLeadershipLost.  A call whose commit it knew goes on waiting
\* for Apply, so this step is possible and not promised.
ReturnLost(c) ==
    /\ call[c].phase = "logged"
    /\ ~IsLeader(call[c].node)
    /\ call' = [call EXCEPT ![c] = Idle]
    /\ UNCHANGED <<raftVars, fsmVars, up, snap, pending, now, faults>>

-----------------------------------------------------------------------------
(* Replication and the FSM. *)

\* A follower appends the next entry the leader still has in its log.
Replicate(n) ==
    /\ up[n] /\ leader # None /\ leader # n
    /\ stored[n] < Len(log) /\ stored[n] >= snap[leader].idx
    /\ stored' = [stored EXCEPT ![n] = @ + 1]
    /\ UNCHANGED <<log, leader, fsmVars, up, snap, pending, call, now, faults>>

\* Mutant: an entry that is too old is tried again instead of skipped.
FsmApplyRetriesOld(n) ==
    /\ up[n] /\ post[n] = "none" /\ applied[n] < stored[n]
    /\ LET i == applied[n] + 1
           c == log[i]
       IN  /\ ~Dropped(c, n)
           /\ applied' = [applied EXCEPT ![n] = i]
           /\ m' = [m EXCEPT ![n] = ApplyToMap(@, c, n)]
           /\ peersFile' = [peersFile EXCEPT ![n] = ApplyToPeersFile(@, c, n)]
           /\ \/ UNCHANGED post
              \/ /\ SetsCluster(c, n) /\ ~IsLeader(n)
                 /\ post' = [post EXCEPT ![n] = "find"]
    /\ UNCHANGED <<raftVars, missed, up, snap, pending, call, now, faults>>

\* RaftStore.Apply on the next committed entry of the node's log: all of it, or
\* all up to the search for a leader that processSetRaftCluster makes, on the FSM
\* goroutine, when the node knows no leader.  A node may know none although there
\* is one, but a leader knows itself.  A node goes on applying when the leader is
\* lost; that a restarted node must first hear from a leader what is committed is
\* not kept, which only adds behaviours.
FsmApply(n) ==
    /\ up[n] /\ post[n] = "none" /\ applied[n] < stored[n]
    /\ LET i == applied[n] + 1
           c == log[i]
       IN  /\ applied' = [applied EXCEPT ![n] = i]
           /\ m' = [m EXCEPT ![n] = ApplyToMap(@, c, n)]
           /\ missed' = [missed EXCEPT ![n] =
                           IF Dropped(c, n) THEN @ \cup {i} ELSE @]
           /\ peersFile' = [peersFile EXCEPT ![n] = ApplyToPeersFile(@, c, n)]
           /\ \/ UNCHANGED post
              \/ /\ SetsCluster(c, n) /\ ~IsLeader(n)
                 /\ post' = [post EXCEPT ![n] = "find"]
    /\ UNCHANGED <<raftVars, up, snap, pending, call, now, faults>>

\* tryFindAndJoinLeader asks the servers for the leader, by then perhaps the node
\* itself, and posts a join, with a client that has no timeout.  The node is a member
\* already: the leader's handler goes on to saveCluster, which asks all servers for
\* their state and sets SavedKey.
JoinLeader(n) ==
    /\ up[n] /\ post[n] = "find" /\ call[n].phase = "idle"
    /\ leader # None
    /\ \E v \in Value :
          call' = [call EXCEPT ![n] =
                     [phase |-> "stamped", node |-> leader, idx |-> 0,
                      cmd |-> [op |-> "set", key |-> SavedKey, val |-> v,
                               time |-> FormatTime(leader)]]]
    /\ post' = [post EXCEPT ![n] = "posted"]
    /\ UNCHANGED <<raftVars, m, applied, missed, peersFile, up, snap, pending, now,
                   faults>>

\* No peer names a leader, or the join is refused before anything is set.
JoinFails(n) ==
    /\ up[n] /\ post[n] = "find"
    /\ post' = [post EXCEPT ![n] = "none"]
    /\ UNCHANGED <<raftVars, m, applied, missed, peersFile, up, snap, pending, call,
                   now, faults>>

\* The handler answers, whatever its Set returned, or its process died; the check of
\* the membership that follows an answer changes nothing, and Apply returns.
JoinAnswered(n) ==
    /\ up[n] /\ post[n] = "posted" /\ call[n].phase = "idle"
    /\ post' = [post EXCEPT ![n] = "none"]
    /\ UNCHANGED <<raftVars, m, applied, missed, peersFile, up, snap, pending, call,
                   now, faults>>

\* The state of n's FSM as a snapshot of it would hold it.
Live(n) == [idx |-> applied[n], store |-> m[n], missed |-> missed[n]]

\* RaftStore.Snapshot: a clone of the map, taken by the goroutine that runs Apply.
\* SnapshotThreshold is 0; a second snapshot at the same index has the same
\* contents and is left out.
Snapshot(n) ==
    /\ up[n] /\ post[n] = "none" /\ pending[n] = NoImage /\ applied[n] > snap[n].idx
    /\ pending' = [pending EXCEPT ![n] = Live(n)]
    /\ UNCHANGED <<raftVars, fsmVars, up, snap, call, now, faults>>

\* Mutant: Snapshot keeps a reference to the map, Persist writes what it is now.
PersistedLiveMap(n) == [pending[n] EXCEPT !.store = m[n]]

\* What Persist writes: the clone, not the live map.
PersistedImage(n) == pending[n]

\* fsmSnapshot.Persist, which runs while Apply goes on.  TrailingLogs is 0: the
\* log is cut at the snapshot.  A snapshot older than one the leader sent in
\* the meantime does not become the newest of the store.
Persist(n) ==
    /\ up[n] /\ pending[n] # NoImage
    /\ snap' = [snap EXCEPT ![n] =
                  IF pending[n].idx > @.idx THEN PersistedImage(n) ELSE @]
    /\ pending' = [pending EXCEPT ![n] = NoImage]
    /\ UNCHANGED <<raftVars, fsmVars, up, call, now, faults>>

\* A write or close error cancels the sink.
PersistFails(n) ==
    /\ up[n] /\ pending[n] # NoImage
    /\ pending' = [pending EXCEPT ![n] = NoImage]
    /\ UNCHANGED <<raftVars, fsmVars, up, snap, call, now, faults>>

\* Mutant: the snapshot is decoded into the map that is there.
RestoreMerges(n, img) ==
    /\ m' = [m EXCEPT ![n] = [k \in Key |->
                IF img.store[k] # None THEN img.store[k] ELSE @[k]]]
    /\ applied' = [applied EXCEPT ![n] = img.idx]
    /\ missed' = [missed EXCEPT ![n] = img.missed]

\* Mutant: the index of the snapshot is counted from zero.
RestoreOffByOne(n, img) ==
    /\ m' = [m EXCEPT ![n] = img.store]
    /\ applied' = [applied EXCEPT ![n] = img.idx - 1]
    /\ missed' = [missed EXCEPT ![n] = img.missed]

\* Mutant: the map is restored and the log is applied from its beginning.
RestoreFromZero(n, img) ==
    /\ m' = [m EXCEPT ![n] = img.store]
    /\ applied' = [applied EXCEPT ![n] = 0]
    /\ missed' = [missed EXCEPT ![n] = img.missed]

\* RaftStore.Restore: the map is replaced by the one in the snapshot.
Restore(n, img) ==
    /\ m' = [m EXCEPT ![n] = img.store]
    /\ applied' = [applied EXCEPT ![n] = img.idx]
    /\ missed' = [missed EXCEPT ![n] = img.missed]

\* A follower behind the leader's snapshot gets that snapshot.
InstallSnapshot(n) ==
    /\ up[n] /\ post[n] = "none" /\ leader # None /\ leader # n
    /\ stored[n] < snap[leader].idx
    /\ snap' = [snap EXCEPT ![n] = snap[leader]]
    /\ stored' = [stored EXCEPT ![n] = snap[leader].idx]
    /\ Restore(n, snap[leader])
    /\ UNCHANGED <<log, leader, peersFile, post, up, pending, call, now, faults>>

-----------------------------------------------------------------------------
(* Leadership, crashes, restarts and the clock. *)

\* A majority elects a node that stores every committed entry.
Elect(n) ==
    /\ up[n] /\ leader = None /\ stored[n] = Len(log)
    /\ {q \in Node : up[q]} \in Quorum
    /\ leader' = n
    /\ UNCHANGED <<log, stored, fsmVars, up, snap, pending, call, now, faults>>

\* The leader loses contact with its majority.
StepDown ==
    /\ leader # None /\ faults < MaxFault
    /\ leader' = None
    /\ faults' = faults + 1
    /\ UNCHANGED <<log, stored, fsmVars, up, snap, pending, call, now>>

\* The process dies: the map is gone and the calls it served fail, the log,
\* the snapshots and peers.json stay.
Crash(n) ==
    /\ up[n] /\ faults < MaxFault
    /\ up' = [up EXCEPT ![n] = FALSE]
    /\ leader' = IF leader = n THEN None ELSE leader
    /\ Restore(n, NoImage)
    /\ pending' = [pending EXCEPT ![n] = NoImage]
    /\ post' = [post EXCEPT ![n] = "none"]
    /\ call' = [g \in Goroutine |->
                  IF call[g].node = n /\ call[g].phase \in {"stamped", "logged"}
                  THEN Idle ELSE call[g]]
    /\ faults' = faults + 1
    /\ UNCHANGED <<log, stored, snap, peersFile, now>>

\* The supervisor starts the process: an empty map, then NewRaft restores the
\* newest snapshot.  The entries after it are applied again, at the time of the
\* restart.
Restart(n) ==
    /\ ~up[n]
    /\ up' = [up EXCEPT ![n] = TRUE]
    /\ Restore(n, snap[n])
    /\ UNCHANGED <<raftVars, peersFile, post, snap, pending, call, now, faults>>

Tick ==
    /\ now < MaxTime
    /\ now' = now + 1
    /\ UNCHANGED <<raftVars, fsmVars, up, snap, pending, call, faults>>

-----------------------------------------------------------------------------
Init ==
    /\ log = <<>>
    /\ leader = None
    /\ up = [n \in Node |-> TRUE]
    /\ stored = [n \in Node |-> 0]
    /\ snap = [n \in Node |-> NoImage]
    /\ pending = [n \in Node |-> NoImage]
    /\ m = [n \in Node |-> EmptyMap]
    /\ applied = [n \in Node |-> 0]
    /\ missed = [n \in Node |-> {}]
    /\ peersFile = [n \in Node |-> None]
    /\ post = [n \in Node |-> "none"]
    /\ call = [g \in Goroutine |-> Idle]
    /\ now = 0
    /\ faults = 0

ClientStep(c) ==
    \/ \E n \in Node, k \in Key, v \in Value : Set(c, n, k, v)
    \/ \E n \in Node, k \in Key : Delete(c, n, k)

CallStep(g) ==
    \/ RaftApply(g)
    \/ RaftApplyFails(g)
    \/ Return(g)
    \/ ReturnLost(g)

NodeStep(n) ==
    \/ Replicate(n)
    \/ FsmApply(n)
    \/ JoinLeader(n)
    \/ JoinFails(n)
    \/ JoinAnswered(n)
    \/ Snapshot(n)
    \/ Persist(n)
    \/ PersistFails(n)
    \/ InstallSnapshot(n)
    \/ Elect(n)
    \/ Crash(n)
    \/ Restart(n)

Next ==
    \/ \E c \in Client : ClientStep(c)
    \/ \E g \in Goroutine : CallStep(g)
    \/ \E n \in Node : NodeStep(n)
    \/ StepDown
    \/ Tick

Spec == Init /\ [][Next]_vars

-----------------------------------------------------------------------------
(* Safety. *)

\* Every variable has its type: in particular no step leaves a node with an
\* applied index that is not a natural number or a map with a foreign value.
TypeOK ==
    /\ log \in Seq(Command)
    /\ leader \in Node \cup {None}
    /\ up \in [Node -> BOOLEAN]
    /\ stored \in [Node -> Nat]
    /\ snap \in [Node -> Image]
    /\ pending \in [Node -> Image]
    /\ m \in [Node -> Map]
    /\ applied \in [Node -> Nat]
    /\ missed \in [Node -> SUBSET Nat]
    /\ peersFile \in [Node -> Value \cup {None}]
    /\ post \in [Node -> {"none", "find", "posted"}]
    /\ call \in [Goroutine -> Call]
    /\ now \in Nat
    /\ faults \in Nat

\* Entry i of log L is one that Apply carries out on key k of the map.
Touches(L, i, k) ==
    L[i].key = k /\ Kept(L[i])

\* Entry i of log L is ignored by some replica that applies it at time t.
Stale(L, i, t) == \E q \in Node : TooOld(L[i], q, t)

\* Deletes are final: a value in the map of a running node was set by an entry
\* the node has applied and that no applied delete of the key follows.  Neither
\* the age check, nor a snapshot taken while Apply goes on, nor a snapshot sent
\* by a leader, nor a replay after a crash brings a deleted value back.
NoResurrection ==
    \A n \in Node, k \in Key :
        up[n] /\ m[n][k] # None =>
            \E i \in 1 .. applied[n] :
                /\ Touches(log, i, k) /\ log[i].op = "set" /\ log[i].val = m[n][k]
                /\ \A j \in (i + 1) .. applied[n] :
                      ~(Touches(log, j, k) /\ log[j].op = "delete")

\* Replicas that have applied the same entries agree on every key whose sets
\* are all recent enough to be accepted by every clock of the cluster, however
\* each of them got there: entry by entry, through its own snapshots and
\* restarts, or through a snapshot of another node.
YoungLogAgrees ==
    \A n1, n2 \in Node, k \in Key :
        (/\ up[n1] /\ up[n2] /\ applied[n1] = applied[n2]
         /\ \A i \in 1 .. applied[n1] :
               Touches(log, i, k) /\ log[i].op = "set" => ~Stale(log, i, now))
            => m[n1][k] = m[n2][k]

\* Image img holds for key k what log L up to img.idx leaves there when the
\* entries in img.missed are skipped.
Replays(L, img, k) ==
    \/ /\ img.store[k] = None
       /\ \A j \in 1 .. img.idx : Touches(L, j, k) => j \in img.missed
    \/ \E i \in 1 .. img.idx :
         /\ Touches(L, i, k) /\ i \notin img.missed /\ img.store[k] = L[i].val
         /\ \A j \in (i + 1) .. img.idx : Touches(L, j, k) => j \in img.missed

\* Image img stands for a prefix of log L from which only sets are missing that
\* are stale at time t.
ImageOK(L, t, img) ==
    /\ img.idx <= Len(L)
    /\ \A i \in img.missed :
          i \in 1 .. img.idx /\ L[i].op = "set" /\ Stale(L, i, t)
    /\ \A k \in Key : Replays(L, img, k)

\* The live map of a node, its newest snapshot and the clone that Persist is
\* still writing are each the replay of the prefix of the log they stand for, in
\* which only stale sets are skipped; and a node never applies, or cuts from its
\* log, what it does not store.
Replayable ==
    \A n \in Node :
        /\ snap[n].idx <= stored[n] /\ applied[n] <= stored[n]
        /\ stored[n] <= Len(log)
        /\ up[n] => snap[n].idx <= applied[n] /\ pending[n].idx <= applied[n]
        /\ ~up[n] => pending[n] = NoImage
        /\ ImageOK(log, now, Live(n))
        /\ ImageOK(log, now, snap[n])
        /\ ImageOK(log, now, pending[n])

-----------------------------------------------------------------------------
(* Liveness. *)

\* A running node keeps replicating and applying, raft elects a leader when a
\* majority runs, and the supervisor restarts a dead process.  The interceptor and the
\* dealers are taken to return.  That Apply returns is not assumed: its search for a
\* leader, its join and the check of it wait for other servers, over a client without
\* a timeout, so none of their steps is fair.
Fairness ==
    /\ \A n \in Node :
          /\ WF_vars(Replicate(n))
          /\ WF_vars(FsmApply(n))
          /\ WF_vars(InstallSnapshot(n))
          /\ WF_vars(Restart(n))
    /\ WF_vars(\E n \in Node : Elect(n))
    /\ \A g \in Goroutine :
          /\ WF_vars(RaftApply(g) \/ RaftApplyFails(g))
          /\ WF_vars(Return(g))

FairSpec == Spec /\ Fairness

\* Node n's Apply waits for what nothing forces to come: for other servers, before
\* the handler of its join sets SavedKey or after it is done, or for that Set, which
\* waits for Apply on a node that hangs too.  A node that lost and regained the
\* leadership while Apply searched can wait so for itself.
Hangs(n) ==
    \E S \in SUBSET Node :
        /\ n \in S
        /\ \A q \in S :
              \/ post[q] = "find"
              \/ post[q] = "posted" /\ call[q].phase = "idle"
              \/ /\ post[q] = "posted" /\ call[q].phase = "logged"
                 /\ call[q].node \in S
                 /\ ~Finished(call[q].node, call[q].idx)

\* No Set or Delete that passed the leader check is in progress for ever: it is
\* answered, with nil or with an error, whatever elections and crashes happen
\* meanwhile, unless Apply of the node that took it hangs in a join for ever.
CallsReturn ==
    \A c \in Client :
        []<>(call[c].phase = "idle") \/ <>[]Hangs(call[c].node)

\* Once crashes and elections end, every node runs and has applied every
\* committed entry, by log or by snapshot, stale entries included, unless its
\* Apply hangs in a join.
EventuallyApplied ==
    <>[](\A n \in Node : up[n] /\ (Finished(n, Len(log)) \/ Hangs(n)))

-----------------------------------------------------------------------------
(* Refinement. *)

\* What every node holds, and the images it could still return to.
Replicas == INSTANCE ReplicatedMap WITH
    image <- [n \in Node |-> Live(n)],
    saved <- {NoImage} \cup {snap[n] : n \in Node} \cup {pending[n] : n \in Node}

\* The store is a replicated map: whatever leaders, snapshots that are written
\* while Apply goes on, snapshot transfers, crashes and restarts do, a replica
\* moves only by the next entry of the one log, of which it may pass over a set
\* but never a delete, or to an image that a replica held at that index before.
ImplementsReplicas == Replicas!Spec

-----------------------------------------------------------------------------
(* What the documentation says of the store. *)

\* When Set returns nil, the node that took it has the value in its map, unless
\* it has since applied another command on the key.
AckedSetVisible ==
    [][\A c \in Client :
         LET n == call[c].node
             i == call[c].idx
         IN  (/\ Return(c) /\ log[i].op = "set" /\ Touches(log, i, log[i].key)
              /\ \A j \in (i + 1) .. applied[n] : ~Touches(log, j, log[i].key))
                 => m[n][log[i].key] = log[i].val]_vars

\* The nodes of the cluster agree on the state of the state machine: two running
\* nodes that have applied the whole log hold the same map.
ReplicasAgree ==
    \A n1, n2 \in Node :
        (/\ up[n1] /\ up[n2]
         /\ applied[n1] = Len(log) /\ applied[n2] = Len(log))
            => m[n1] = m[n2]

=============================================================================
