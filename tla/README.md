# Verification of hraftd

TLA+ modules, TLC configurations and TLAPS proofs for
[bingoohuang/hraftd](https://github.com/bingoohuang/hraftd): a replicated
key-value store on top of hashicorp/raft v1.1.2, with an HTTP interface, joining
and removing of nodes, a ticker that runs on the leader, and a distributor of
work over the nodes.  Paths below are relative to the repository; `PROJECT.json`
maps every definition to the lines it models.

## 1. Inventory

| Part | State it keeps | Operations | Module |
|---|---|---|---|
| Store (`store.go`) | map `m`, raft's log, stable and snapshot stores, `peers.json` | `Set`, `Delete`, `Apply`, `Snapshot`, `Persist`, `Restore`, `Open` | `RaftStore`, which implements `ReplicatedMap` |
| Membership and startup (`arg.go`, `store.go`, `service.go`, `service_raft.go`) | raft's configuration, `peers.json`, `Arg.Bootstrap`, the join loop | `Open`, `recoverJoin`, `Arg.Join`, `Join`, `Remove`, `saveCluster`, `WaitForLeader` | `Membership` |
| Arguments and addresses (`arg.go`, `model.go`) | `Arg`, the node ID | `Arg.Fix`, `NodeID.Fix`, `JoinRequest.Fix`, `parseBootstrap` | `Addresses` |
| HTTP service (`service*.go`, `proxy.go`) | the requests in its handlers | `handleKeyRequest`, `doKeyPost`, `handleJoin`, `handleRemove`, `forwardToLeader` | `KvService` |
| Leadership signals (`service_raft.go`, `ticker.go`, `cmd/hraftd/main.go`) | `Service.LeaderCh`, `Ticker.stop`, the ticker's goroutines | `listenLeaderCh`, `leaderChanging`, `StartAsync`, `StopAsync` | `LeaderSignal` |
| Distributor (`distribute.go`) | `StickyMap` | `Distribute`, `Put`, `CleanSticky` | `Distributor` |
| Log dealers (`logdealer.go`, `job.go`, `arg.go`) | the map of dealers | `Intercept`, `Invoke` | `StoreDealers` |
| Jobs (`job.go`, `peerjob.go`, `cmd/hraftd/main.go`) | the rounds and requests under way | `Cluster`, `ActivePeers`, `DistributeJob`, `handleJobRequest` | `LeaderJobs` |
| Read routes, HTTP and JSON helpers, logging, profiling | none | | no |

How they meet.  A client calls the HTTP server of any node.  A handler that
changes something runs on the leader: a node that does not lead hands the request
on once, through a reverse proxy with a 10 s deadline.  The handler calls the
store, the store stamps a command with the time and gives it to raft, and raft
calls `Apply` on every node.  raft runs `Apply`, `Snapshot` and `Restore` on one
goroutine and `Persist` on another; `Apply` first offers a command to the interceptor
and the log dealers of the embedding program, and on a set of `/raft/cluster` it may
post a join to the leader and wait for it.  Changes of leadership travel over two
channels to the ticker, whose rounds ask the servers for their state, set items in the
store and post jobs to the active servers.  A node that starts bootstraps a cluster or
posts to a member until it is one.

What is hard in it: `Apply` depends on the clock of each replica; snapshots race
with `Apply`, with snapshots sent by the leader and with crashes; a call can fail
although its command commits; the leadership moves between the checks of it and
while keys of one POST are set; signals are dropped on purpose; a join is two or
three log entries with a lost leader between any two of them; a restart can
create a second cluster; `peers.json` is written without a lock and not atomically;
dealers see a log of which snapshots leave parts out; a job runs on a peer after
its caller has given up; `Apply` and the rounds wait for other servers over an HTTP
client without a timeout.  `PROJECT.json` lists each hazard at its line with the
properties that watch it.

What makes each part correct: the store, that maps and snapshots are replays of
the log, deletes are final, replicas agree as far as the age check allows, calls
return and entries are applied; membership, that there is one history, an added
node stays added, joining ends and dead nodes come back; the flags, that one node
founds the cluster and a join keeps a node's identity; the dealers, that none of
their entries is skipped but by a leader's snapshot; the jobs, that none runs twice
in a round and rounds end; the service, that an answer tells the client
what was committed and a request is forwarded once; the signals, that they are in order
and stale only if dropped; the distributor, that nothing is lost or moved
without need.

## 2. Plan

Done, in the order of what a failure costs and of what the later modules need:
`RaftStore` with its proofs, `LeaderSignal`, `Distributor`, `KvService`, `Membership`;
then the abstract `ReplicatedMap` and the proof that `RaftStore` implements it, the
log dealers (`StoreDealers`), torn and late writes of `peers.json` and a leader's own
removal in `Membership`, the addresses (`Addresses`) and the rounds of jobs
(`LeaderJobs`); then the proofs of every safety invariant that the runs check, at last
that of the promise of raft on which the history of the cluster rests (section 5).

Which module builds on which:

    ReplicatedMap  <- implemented by -  RaftStore  <- extended by -  StoreDealers
    LeaderSignal   <- extended by -     LeaderJobs
    Membership + Addresses  <- extended by -  MCMembership
    MCMembership  <-  MembershipProofs  <- extended by -  RaftSafetyProofs

Each component's proofs are in a module of their own, `<component>Proofs`, that
extends the component's; `StoreDealersProofs` extends `RaftStoreProofs` and
`LeaderJobsProofs` extends `LeaderSignalProofs`, whose invariants theirs contain.
`RaftStoreProofs` has the refinement of the store too, `MembershipProofs` also what is
proved of `Addresses`, and `RaftSafetyProofs` the safety of raft under the changes that
the code makes.

Left: action properties of the joining loop and of the handlers of `Membership`.

## 3. Modules

### RaftStore

One committed log for all nodes; per node the part of it in its log store
(`stored`), the newest snapshot (`snap`), the snapshot being written (`pending`),
the map (`m`) with its applied index, and what `peers.json` was last written
with.  `missed` is history: the entries `Apply` ignored in the past of the map.

`Set` and `Delete` are the leader check and the stamp in one step, then
`RaftApply` (append and commit by a majority) or `RaftApplyFails`, then `Return`
once `Apply` of the entry has returned on the node itself, or `ReturnLost`.  A call that
fails and whose entry commits later is the order commit, then error: no property
looks at the time between.  `FsmApply` is `Apply`: interception, age check,
`/raft/cluster`, map.  For most commands that is all of it.  On a set of `/raft/cluster`
a node that knows no leader goes on, on the goroutine of the FSM, to search one
(`post[n] = "find"`), posts a join to it (`JoinLeader`) and waits for the answer; the
join's handler, in the leader's process, makes a `Set` of its own (`saveCluster`), a
call like those of the clients.  Until `JoinAnswered` the node applies nothing, takes no
snapshot and restores none.  The joiner is a member of the fixed configuration, so
`Join` itself adds nothing.  `Snapshot`, `Persist`, `PersistFails` and
`InstallSnapshot` interleave freely.  `TrailingLogs = 0` is kept: a follower that
is behind the leader's snapshot gets the snapshot and not the log.

Time is a tick counter.  `LocalClock` and `UtcClock` are the offsets of the two
clocks of a node; `FormatTime` writes the first, the age check reads the second.

Assumed of raft: committed entries never change, only a node with all of them is
elected, the FSM methods are called one at a time.  A restarted node applies its
stored committed entries without first hearing from a leader, which only adds
behaviours.  The stores are the durable ones; without crashes the in-memory
ones are the same, and what their loss does is in `Membership`.

### ReplicatedMap

What the store promises, without leaders, calls, clocks, crashes and messages: one
log that only grows; a replica's image of a prefix of it moves by carrying out the
next entry, by passing over a set (never a delete), or to an image that was saved
before.  `Replicas` in `RaftStore` is the refinement mapping: an image is a node's
map with its applied index and `missed`, the saved ones are the snapshots, those
being written and the empty image.  A crash loads the empty image and a restart
the newest snapshot.

### StoreDealers

`RaftStore` with the calls of log dealers: which entries they were called for in the
present process (`called`) and ever (`ever`), the snapshot the process started from,
and the last snapshot a leader sent.  `PassedOn` are the values on which a dealer
returns `ErrDealerContinue`, `Decoded` those that decode as its parameter, and
`Interceptor` the commands that the program's `ApplyInterceptor` takes.  A dealer's
function runs for an entry that the interceptor leaves alone and whose value decodes
(`Invoked`).  `Intercept` comes before the age check, so that a dealer sees old entries
that the map ignores; a delete carries no value, so that `Invoke` fails to decode it and
the entry is taken from the store all the same, as is one with a value that does not
decode.

### Membership

raft down to the logs, because `Join` reads a configuration that may not be
committed.  A node is a node ID; `Addr` gives its Raft address, so two IDs can
share one.  `join[n]` follows a node from `Open` through `recoverJoin` and the loop
of `StartRaft`; `hnd` holds the calls of `Join` and `Remove` in progress, each with
the entry it waits for and whether its caller still listens.  `InMem` decides what
a crash leaves.  `peers.json` is absent, whole or torn: `writeConfigEntries` is one
step that takes the list and truncates the file and one that writes it, with other
handlers, a loss of leadership or a crash between the two.  A torn file keeps a node
from opening.  A leader that has removed itself is in `halted`: its raft answers
nobody, its HTTP server and handlers go on until it is restarted.

Simplifications: an RPC and its answer are one step and bring a log up to date as
a whole, and a leader counts the answers of nodes that are in its term and have its
log; a leader's commit index is kept, a follower's is not; a node that its
configuration does not list does not stand for election; the cluster of `Formed`
has one entry for all its additions; whether a node's configuration lists the
joiner stands for the list in the HTTP answer of `checkJoined`; `recoverJoin` runs
before the HTTP server listens, so the check at its end cannot succeed and what
it does is the request it sends; when `WaitForLeader` stops is not kept; a process
that fails to open because of a torn file does not vote in the moment before.

### Addresses

`Arg.Fix` and `JoinRequest.Fix` as functions on addresses, which are a host text and
a port.  Hosts are IP addresses, the empty text and `localhost`; the main IP may be
empty, as when goip finds none.  `MCMembership` gives its nodes as command lines and
computes with these functions the constants that `Membership` has: Raft addresses,
the nodes at the addresses in `rjoin`, and who bootstraps (`BootstrapAssumption`).

### KvService

One record per request: the node whose handler has it, how often it was
forwarded, the keys asked for and those left, the answer.  The store is reduced
to "commits or not, answers nil or not" with the link between the two that `RaftStore`
and `Membership` have: nil for a key or a removal only if the command was committed,
which does not say that `Apply` carried it out (`store_timezone`), and for a join also
if the server was found in a configuration that is not committed (`membership_already`).
`logged` is what was committed for a request.  `belief[n]` is
`raft.Leader()` on `n`, `current` the real leader.  A proxy's deadline answers the
client and leaves the handler running; a crash ends the handlers on a node and
breaks the connections through it.

### LeaderSignal

A signal is the number of the change it reports, which makes order and loss
visible.  raft's channel has no buffer and the send does not block; the service's
has room for one and the send does not block either.  `Ticker.start` is a
goroutine per `StartAsync`; `execFns` may never end because the HTTP client has no
timeout (`http.go:11-17`).

### LeaderJobs

`execFns` as what `cmd/hraftd` runs in it: every server of the configuration is asked
for its state, one after the other (`AskServer`), items are set in the store
(`SetItems`), then one request goes out after the other, round robin over the active
servers, or all jobs run here when none is active.  A request outlives its connection:
the peer may run the job after the caller has an error.  Servers are found active or
not at will, so that a leader's stale view is covered, except that a leader finds itself
active.  The set is a `Set` of the store and here only a call that may wait.  `ran` and
`again` are history: the jobs that were run, on a peer or on the node, and those that
were run once more.

### Distributor

`Distribute` over all sequences of calls, with peers that come and go and items that
repeat in a slice.  Its two loops are recursive functions from the number of items
handled to what the loop carries along; the second goes over the slice and passes over
the items that the first has kept, which is the code's list of new items.

## 4. Runs

Bounds are named constants (`MaxLog`, `MaxTime`, `MaxFault`, `MaxTerm`, `MaxSet`,
`MaxCrash`, `MaxChange`, `MaxTick`, `MaxBroken`, `MaxElection`, `MaxData`).

| Run | Checks | Bounds and why |
|---|---|---|
| `store_safety` | `TypeOK`, `NoResurrection`, `YoungLogAgrees`, `Replayable`, `ImplementsReplicas` | 3 nodes, 2 entries (set then delete, in each order), 1 crash or loss of leadership with the election after it, 1 tick with `Window` 0, so an entry becomes stale after it was stamped.  The first entry may be a set of `/raft/cluster`, at the last tick and with no snapshot afterwards (`Bounded`), so that `Apply` searches, joins and makes the second entry; 0.8 M states up to symmetry |
| `store_liveness` | `DealtInOrder`, `DealtOrSent`, `CallsReturn`, `EventuallyApplied` | 3 nodes, 2 entries: sets of `/raft/cluster`, which is a dealer's key too and whose dealer passes them on, so that two calls of a dealer have an order, or one such set and the one that the handler of a join makes, on a dealer's key from which the interceptor takes it; one clock late by more than the window instead of ticks, so that entries are ignored; 1 crash or loss of leadership.  Clients do nothing else, and one node at a time has snapshots of its own (`Bounded`; `store_safety` has all): neither is fair, so leaving them out is sound.  0.52 M states |
| `store_agree` | `ReplicasAgree` violated | 3 nodes, 1 entry on an ordinary key, 1 crash or loss of leadership, 1 tick |
| `store_timezone` | `AckedSetVisible` violated | 1 node, 1 entry, local time behind UTC by more than the window |
| `service` | `TypeOK`, `OkMeansAllLogged`, `RefusedMeansUntouched`, `HandlersEnd` | 3 nodes (two stale beliefs and a leader), a request of up to 2 keys, 3 elections, 1 crash; requests do not share state, so one is enough |
| `leader_signal` | `JobTypeOK`, `SignalsInOrder`, `StaleOnlyIfLost`, `ExtraTickersNeedLostLoss`, `JobsAtMostOnce`, `StoppedTickersEnd` | 4 changes: both channels can drop one, two tickers can run at once, and the second loss can close the channel again; 2 servers, a tick, so that one ticker has two rounds, 1 job in each, which is enough for it to be run late, to be tried again and to be waited for, and 1 broken connection; 0.21 M states |
| `ticker_panic` | `NoPanic` violated | 5 changes |
| `distributor` | `TypeOK`, `EveryItemOnce`, `MovesOnlyFromGoneNodes`, `OverfullOnlyBySticky`, `Repeatable` | 3 items, 3 peers, slices up to 3, all lists of distinct peers; the state is unbounded in calls and TLC exhausts it |
| `membership` | `TypeOK`, `OneLeader`, `CommitsAgree`, `ElectedHaveHistory`, `OneHistory`, `AddedStays`; `FoundersUnique`, `IdentitiesKept`, `PortsRoundTrip` | durable cluster of 2 that a third joins, 3 terms, 1 fault; 0.59 M states.  Flags: 3 main IPs, the empty one included, and the ports at both ends of the accepted ranges and around 11001; all combinations |
| `membership_readdress` | `JoinLoopsEnd` | from nothing, 3 node IDs, two of them on one Raft address, 3 terms, 1 fault, which may be a crash between the two steps of a write |
| `membership_already` | `AlreadyStays` violated | 3 members and a joiner; with 2 members an entry on the leader alone cannot be lost |
| `membership_inmem` | `SurvivorsDecide` violated | 3 members with in-memory stores, 1 crash |

Deadlock is checked in `distributor`, `store_agree` and `store_timezone`.  The others say
`CHECK_DEADLOCK FALSE`: there all requests, changes of leadership or faults the bounds
allow can be used up, and a system without input rests.  In `store_safety` and
`store_liveness` the store really can stop: its nodes wait for `Apply`, their own or each
other's.

### What the runs found

* `store_agree`: a replica that applies a set more than 100 s after it was stamped
  ignores it (`store.go:627`), by its own clock, so a replica that lags or replays
  its log differs from the others for good.  What remains true is
  `YoungLogAgrees` and `Replayable`.
* `store_timezone`: the time is written in local time and read as UTC
  (`util.go:90-101`); west of UTC every acknowledged set is ignored.
* `ticker_panic`: a node that loses the leadership twice closes a closed channel
  (`ticker.go:68`).
* `membership_already`: a join repeated after a lost answer is told OK because of
  an uncommitted configuration (`store.go:376-381`), which the next leader may not
  have.
* `membership_inmem`: with the default `rmem` the first node does not rejoin after a
  restart, it bootstraps a cluster of its own (`store.go:205`, `store.go:228`).

What the passing runs say about limits of the code:

* `CallsReturn` and `EventuallyApplied` hold but for `Hangs`, the wait of `Apply` in a
  join, and the exception is needed in each of its parts.  Without the last one
  `store_liveness` finds such behaviours, in their simplest form this one, in which
  every server answers: a leader commits a set of `/raft/cluster` and loses the
  leadership; `Apply` finds no leader and searches (`store.go:657-658`); the node is
  elected again, finds itself and posts a join to itself; the join's handler sets
  `raft/cluster` and waits for `Apply`, which waits for the handler.  The node applies
  nothing until it is restarted, and the first call is never answered.
* `OkMeansAllLogged`: ok is an answer about the log and not about the map, and says
  nothing of a join; see `store_timezone` and `membership_already`.
* `StoppedTickersEnd`: a round can wait for ever in three places, for the state of a
  server (`store.go:178`), in `Set`, and for a peer's dealer (`peerjob.go:22`); each of
  them is needed as an exception.
* `DealtOrSent`: a snapshot sent by the leader passes over dealers, so a node that
  lagged never calls them for the entries it covers.
* `JoinLoopsEnd`: a crash while `peers.json` is written bars the node from starting
  (`store.go:456`, `store.go:233`), and with it those that need it for a majority.
* `IdentitiesKept`: a node that knows its main IP and joins over the loopback
  interface is registered under another ID and address (`model.go:68`), so its loop
  does not end; `FoundersUnique`: an `rjoin` that starts with `:11000`, used on two
  machines, founds two clusters.
* `PortsRoundTrip`: `haddr` accepts ports below 1024, for which the Raft port it
  leads to would be refused as `raddr`.

Also noticed: `README.md:262-263` says that writes are not forwarded to the
leader; `forwardToLeader` does it.  `saveCluster` writes the key `raft/cluster`,
`Apply` tests for `/raft/cluster`.

### Fairness

* Store: weak fairness of replication, snapshot transfer, the call of `Apply`, the two
  ways a call goes on (`raft.Apply` has a timeout), elections when there is no leader
  (raft's timers), and the restart of a dead process (`testdata/supervisord.ini`).  None
  of snapshots, crashes, ticks or new calls, none of `ReturnLost`, and none of what
  `Apply` waits for in a join: the search for a leader, the join and the check after it
  are requests over a client without a timeout (`http.go:11-17`).
* Service: handlers run, operations of the store return (`CallsReturn`, with its
  exception), deadlines pass.
* Signals: the goroutines run; strong fairness of taking the closed channel,
  because Go's `select` chooses at random among ready cases; the steps of a round on
  the node itself.  None of another server's answer, of `Set` or of a dealer's return.
* Membership: raft's timers as above, the join loop, which tries every 10 s without
  end (`service.go:58-70`), handlers, restarts.

## 5. Proofs

Every safety invariant of the passing runs, the action property `ElectedHaveHistory` and
the refinement `ImplementsReplicas` are proved for every value of the constants (nodes,
keys, items, servers, requests and all bounds), from the named `ASSUME`s of the
component's module and nothing else; those of `RaftSafetyProofs` for a sound setup, which
is said below.

| Module | Theorems |
|---|---|
| `RaftStoreProofs` | `TypeCorrect`, `ImagesReplay` (`Replayable`), `DeletesAreFinal` (`NoResurrection`), `YoungReplicasAgree` (`YoungLogAgrees`), `StoreImplementsReplicas` (`ImplementsReplicas`) |
| `StoreDealersProofs` | `DealersRunInOrder` (`DealtInOrder`), `DealersMissOnlySent` (`DealtOrSent`) |
| `KvServiceProofs` | `ServiceTypes`, `OkIsLogged` (`OkMeansAllLogged`), `RefusedIsTrue` (`RefusedMeansUntouched`) |
| `LeaderSignalProofs` | `SignalTypes`, `SignalsKeepOrder` (`SignalsInOrder`), `StaleOnlyWhenLost` (`StaleOnlyIfLost`), `ExtraTickersBounded` (`ExtraTickersNeedLostLoss`) |
| `LeaderJobsProofs` | `JobsImplementSignals` (`JobSpec => Spec`), `JobsTypes`, `NoJobTwice` (`JobsAtMostOnce`), `JobSignals` |
| `DistributorProofs` | `DistributorTypes`, `ItemsOnce` (`EveryItemOnce`), `ItemsStay` (`MovesOnlyFromGoneNodes`), `OverfullOnlyByStaying` (`OverfullOnlyBySticky`), `DistributeRepeatable` (`Repeatable`) |
| `MembershipProofs` | `MembershipTypes`, `HistoryIsOne` (`OneHistory`), `AddedServersStay` (`AddedStays`), `FoundersAreUnique`, `IdentitiesAreKept`, `PortsAreConsistent` |
| `RaftSafetyProofs` | `RaftKeepsItsPromise` (`CommitsAgree`), `OneClusterAlways` (`OneHistory`), `AddedAlwaysStay` (`AddedStays`), `OneLeaderAlways` (`OneLeader`), `ElectedAlwaysHaveHistory` (`ElectedHaveHistory`) |

**Store.**  The theorems cover `/raft/cluster` and dealers' keys together with ordinary
ones, more than two entries and skewed clocks, which the safety run does not.  The
inductive invariant is `IInv == TypeOK /\ Replayable`.  `NoResurrection` and
`YoungLogAgrees` are about live maps and are not inductive: a snapshot, or a clone
that `Persist` has yet to write, becomes a live map after a crash or a transfer.
`Replayable` therefore says of all three kinds of image that each is what the
entries up to its index leave when the entries in `missed` are skipped, and that
those are sets which are stale now, which time only makes more true.  The lemmas
follow the ways an image comes about: the empty one (`NoImageReplays`), a longer
log (`AppendReplays`), a later time (`TickReplays`), one more entry
(`ApplyReplays`); all other steps copy images.  `DeletesAreFinal` reads off the last
entry that counts for a key: a delete is never skipped.  `YoungReplicasAgree`: when
no set of a key is stale nothing of it was skipped, so the last entry on the key
decides on both replicas.

**Refinement.**  Step by step, with `TypeOK` and its preservation from
`RaftStoreProofs`: calls, replication, elections and ticks stutter or extend the log
(`NoReplicaStep`, `CallRefines`), `FsmApply` advances one replica or passes over a
stale set (`ApplyRefines`), snapshots save, and a restart or a transfer loads a saved
image (`RestoreRefines`, `NodeRefines`).

**Dealers.**  `DealIInv` adds to `IInv` that the calls of a process rise, begin after
its base and do not pass the applied index, and that the entries up to the applied
index *and up to the newest snapshot* that are for a dealer (`Invoked`) were seen or were
in a snapshot that a leader sent (`NodeCovered`).  The second half is what a crash needs: it takes the applied index
back to the snapshot.

**Service.**  An answer is given at the end, so `PhaseOK` says for each phase what a
request and its commands have to do with each other: nothing is logged before "serving",
and there what is not left to do is logged, but for a join.  `None \notin Answer` is assumed: no answer
is the absence of one.

**Signals.**  `OnTheWay` orders the places where a signal can be, `Accounted` says that
a change is lost, on the way or not newer than what was received, and
`StartsCounted` bounds the goroutines started by the losses received and thrown away,
from which the number of tickers beside each other follows.  `JobsImplementSignals`
carries all this over to `LeaderJobs`; `JobInv` adds that a job that is posted or was
run belongs to the present round or an ended one and lies behind the round's next job or
is waited for (`Behind`), that requests differ in their jobs (`Distinct`), and that one
whose job was run is one that the peer has done with (`Unrun`).  So a job that is posted
or run was never run before.

**Distributor.**  `DistInv` says that the result and the sticky map are what
`Distributed` makes of the last call; the properties are facts about that function
(`DistributedOK`).  The loops are handled by the least counterexample (`Least`, `Step`):
if what should hold after i items failed for some i, it would fail for a smallest one,
and one step of the loop excludes that.  After the items D are handed out, `CarriedOK`
says that a peer's room is its share less its load, that the result has the items of D
as often as the slice, that known items are on their nodes and a node with a new one is
not overfull, and that the sticky map has the places of D.  That a new item always finds room
(`RoomLeft`) is a counting argument: if no peer had room, the places, which are as many as
the items, would be no more than the items handed out (`Pigeons`).  Assumed: `None` is
no peer, as `distribute.go:54` takes the empty ID for none.

**Membership.**  `RaftOK` has raft's types and that every configuration in a log is not
empty and has each address once, although `Join` removes and adds in separate entries;
`CallsOK` links joiners to the calls that will answer them, one each.  For the history,
`HistoryOK` says that what each leader counts as committed is the beginning of
`chosen`, and `CallAdds` follows a call of `Join` from its entry over the answer of its
future to the answer to the joiner.  `HistoryIsOne` and `AddedServersStay` have the
hypothesis `[]CommitsAgree`: a leader that may commit has the committed entries in its
log or is behind them.  They have no other hypothesis, so they hold for in-memory stores
and shared addresses too, as long as the promise does; `membership_inmem` is a case in
which the code makes it fail.

**Raft safety.**  `RaftSafetyProofs` proves the promise, and with it `OneHistory` and
`AddedStays` without a hypothesis about raft, under `SoundSetup`:

* the stores outlive the process (`rmem` off).  With `rmem`, the default, the promise is
  broken (`membership_inmem`);
* every node has a Raft address of its own.  A process at another's address answers for
  it out of its own store, and a majority of server IDs need not be one of stores;
* at most one node bootstraps, which `FoundersAreUnique` shows of the flags.

The `membership` run is such a setup, and checks all five properties; letting other
nodes bootstrap breaks `OneLeader` and `CommitsAgree` there, and votes by term alone
`ElectedHaveHistory`.

The textbook argument, that two majorities meet, does not suffice: Join and Remove change
the configuration that counts while the changes are not committed, and a node votes by
the configuration of the candidate's log.  The invariant is about *commit points*: indices
of the history whose entries a majority of the configuration there has, and which every
log that is at least as recent contains (`CommitPoint`).  `SafeInv` says that logs begin
with the founder's and terms rise along them (`Begins`, `TermsRise`); index and term
identify an entry and all before it (`LogsMatch`); a leader has all entries of its term,
and its commit index is a commit point of that term (`LeadersOwn`); a change of the
configuration is by one server and follows, with no other change between, a commit
point of its own term (`ChangesGrounded`, which is why raft must refuse a change before the
leader's first entry is committed); the history ends at a commit point and has one behind
each of its changes (`CommitsHold`); and the majority that elected the leader of a term has
left the terms before (`VotesHold`).

A log that a majority of its own configuration finds recent, by voting for it or by
having it, contains the history (`FreshHasHistory`).  Majorities of configurations that
differ by one server have a process in common (`MajoritiesMeet`), and a process that has
a commit point and finds the log recent makes the log contain that point.  What has to be
shown is that the configurations are near: when the last change of the log is in the
history, the next commit point there is in the same configuration or one change on
(`FreshOnHistory`); when it is not, it follows a commit point of its term by one change
(`FreshOnBranch`).  Then behind the history all configurations are near each other
(`EndsNear`), so a majority that elects knows of every term in a log (`TermSeen`), a new
leader has the history and nobody else leads its term (`ElectGrows`), and what it commits
extends the history.  The steps are sorted by what they do to the logs (`StepKinds`):
copy a leader's log, append to one, commit, bootstrap, or nothing.

**Addresses.**  The three theorems are about constants and hold for every set of ports
and main IPs under `MainIPAssumption`: the main IP is no loopback address, that is, the
flag `iface` (`arg.go:106`, `arg.go:169`) does not choose the loopback interface.

Only model-checked: liveness (fairness and `ENABLED` are out of the prover's reach).
`MaxTick`, which bounds a sum over all tickers, is no more than a bound on
the runs: the proofs use no more of `MayTick` than that it is a guard.

## 6. Not modelled

What dealers and jobs do; registering them, which happens before the service starts;
routes that only read (stale reads are documented, `README.md:242`) and with them the
unlocked write of the map in `Restore`; flags read through viper, host names other
than `localhost`, directories; JSON; logging and profiling; the inside of
hashicorp/raft beyond what is said above; `WaitForApplied`, which only delays and
whose error is ignored.

## 7. Running it

    tlc -workers 2 -config MCRaftStore_safety.cfg MCRaftStore
    tlapm RaftStoreProofs.tla

and likewise for the other configurations, with the module that `PROJECT.json`
names for each run, and for the other modules of section 5.
