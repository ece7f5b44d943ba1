------------------------------ MODULE KvService ------------------------------
(***************************************************************************)
(* The HTTP side of a write: a request that changes a key or the           *)
(* membership arrives at any node, is served there when the node is the    *)
(* leader and is otherwise forwarded, once, to the node it takes for the   *)
(* leader.  A POST sets its keys one after the other, in no fixed order.   *)
(*                                                                         *)
(* The store is seen through its operations: each one returns nil or an    *)
(* error, and may be committed in raft's log although it returned an       *)
(* error.  What Apply then makes of a committed set is RaftStore's matter, *)
(* and Membership's what a join that returns nil has brought about.  Reads *)
(* and the routes that only report state change nothing and are left out.  *)
(***************************************************************************)
EXTENDS Integers, FiniteSets

CONSTANTS
    Node,           \* nodes, each with its HTTP server
    Key,            \* keys a request may carry
    Req,            \* client requests
    None,           \* no node, no answer
    MaxElection,    \* bound on elections
    MaxCrash        \* bound on crashes

ASSUME BoundAssumption == MaxElection \in Nat /\ MaxCrash \in Nat

VARIABLES
    current,    \* the leader of the newest term, or None
    belief,     \* belief[n]: raft.Leader() on n, possibly out of date
    up,         \* up[n]: the process of n runs
    req,        \* req[r]: the request and the handler that works on it
    logged,     \* logged[r]: what of r is committed in raft's log: commands on its
                \* keys, or its change of the configuration
    elections,  \* elections so far
    crashes     \* crashes so far

raftVars == <<current, belief, elections>>
vars == <<current, belief, up, req, logged, elections, crashes>>

Kind == {"post", "delete", "bad", "join", "remove"}

\* "ok" is status 200 with an empty body or Rsp.OK; "refused" is status 200 with
\* Rsp.OK unset and a message; then 400, 500, 502 and a broken connection.
Answer == {"ok", "refused", "badrequest", "failed", "gateway", "broken"}

ASSUME NoneAssumption == None \notin Node /\ None \notin Answer

\* entry is the node the client called, at the node whose handler has the
\* request, hops how often it was forwarded, keys what it asks for and todo what
\* is left of it.
Idle == [phase |-> "idle", kind |-> "post", entry |-> None, at |-> None,
         hops |-> 0, keys |-> {}, todo |-> {}, answer |-> None]

IsLeader(n) == belief[n] = n

\* The routes under /raft that change the membership.
ChangesMembers(q) == q.kind \in {"join", "remove"}
Active(r) == req[r].phase \in {"arrived", "serving"}

-----------------------------------------------------------------------------
(* Requests. *)

\* A client calls node n; a POST carries several keys, the others one thing.
Request(r, n, kind, keys) ==
    /\ up[n] /\ req[r].phase = "idle"
    /\ kind # "post" => Cardinality(keys) = 1
    /\ req' = [req EXCEPT ![r] =
                 [phase |-> "arrived", kind |-> kind, entry |-> n, at |-> n,
                  hops |-> 0, keys |-> keys, todo |-> keys, answer |-> None]]
    /\ UNCHANGED <<raftVars, up, logged, crashes>>

\* The handler ends; its answer counts unless the client has one already.
Ended(q, a) ==
    [q EXCEPT !.phase = "ended", !.answer = IF @ = None THEN a ELSE @]

\* The body is decoded at the leader: a bad one ends there.
ServeHere(r) ==
    /\ req[r].phase = "arrived" /\ IsLeader(req[r].at)
    /\ req' = [req EXCEPT ![r] = IF @.kind = "bad" THEN Ended(@, "badrequest")
                                 ELSE [@ EXCEPT !.phase = "serving"]]
    /\ UNCHANGED <<raftVars, up, logged, crashes>>

\* Mutant: the header that a proxy sets is not looked at.
ForwardAgain(r) ==
    LET to == belief[req[r].at]
    IN  /\ req[r].phase = "arrived" /\ to # req[r].at
        /\ req' = [req EXCEPT ![r] =
                     IF to = None THEN Ended(req[r], "refused")
                     ELSE IF ~up[to] THEN Ended(req[r], "gateway")
                     ELSE [req[r] EXCEPT !.at = to, !.hops = @ + 1]]
        /\ UNCHANGED <<raftVars, up, logged, crashes>>

\* forwardToLeader: no known leader, or a request that was forwarded before, is
\* refused; else the proxy hands the request on to the node believed to lead.
Forward(r) ==
    LET to == belief[req[r].at]
    IN  /\ req[r].phase = "arrived" /\ to # req[r].at
        /\ req' = [req EXCEPT ![r] =
                     IF to = None \/ req[r].hops > 0 THEN Ended(req[r], "refused")
                     ELSE IF ~up[to] THEN Ended(req[r], "gateway")
                     ELSE [req[r] EXCEPT !.at = to, !.hops = @ + 1]]
        /\ UNCHANGED <<raftVars, up, logged, crashes>>

\* Mutant: the error of the store is not looked at.
StoreIgnoresError(r, k) ==
    LET q == req[r]
    IN  /\ q.phase = "serving" /\ k \in q.todo
        /\ \E commits \in BOOLEAN :
              /\ commits => current = q.at
              /\ logged' = [logged EXCEPT ![r] = IF commits THEN @ \cup {k} ELSE @]
        /\ req' = [req EXCEPT ![r].todo = @ \ {k}]
        /\ UNCHANGED <<raftVars, up, crashes>>

\* Mutant: a failed key is answered like a failed forward.
StoreRefuses(r, k) ==
    LET q == req[r]
    IN  /\ q.phase = "serving" /\ k \in q.todo
        /\ \E commits \in BOOLEAN, ok \in BOOLEAN :
              /\ commits => current = q.at
              /\ ok => IsLeader(q.at) /\ (commits \/ q.kind = "join")
              /\ logged' = [logged EXCEPT ![r] = IF commits THEN @ \cup {k} ELSE @]
              /\ req' = [req EXCEPT ![r] =
                           IF ok THEN [q EXCEPT !.todo = @ \ {k}]
                           ELSE Ended(q, "refused")]
        /\ UNCHANGED <<raftVars, up, crashes>>

\* Mutant: a failed operation is tried again until it succeeds.
StoreRetries(r, k) ==
    LET q == req[r]
    IN  /\ q.phase = "serving" /\ k \in q.todo
        /\ \E commits \in BOOLEAN, ok \in BOOLEAN :
              /\ commits => current = q.at
              /\ ok => IsLeader(q.at) /\ (commits \/ q.kind = "join")
              /\ logged' = [logged EXCEPT ![r] = IF commits THEN @ \cup {k} ELSE @]
              /\ req' = [req EXCEPT ![r].todo = IF ok THEN @ \ {k} ELSE @]
        /\ UNCHANGED <<raftVars, up, crashes>>

\* One operation of the store: Set, Delete, Join or Remove.  Its command can be
\* committed only through the current leader, and it can fail although the command
\* is committed.  Set, Delete and Remove return nil only for what is committed, and
\* Set and Delete also when Apply then ignored it; Join returns nil for a server
\* that it finds in the configuration, committed or not.  A failed key ends the
\* request with status 500, a failed change of the membership with a message.
StoreOp(r, k) ==
    LET q == req[r]
    IN  /\ q.phase = "serving" /\ k \in q.todo
        /\ \E commits \in BOOLEAN, ok \in BOOLEAN :
              /\ commits => current = q.at
              /\ ok => IsLeader(q.at) /\ (commits \/ q.kind = "join")
              /\ logged' = [logged EXCEPT ![r] = IF commits THEN @ \cup {k} ELSE @]
              /\ req' = [req EXCEPT ![r] =
                           IF ok THEN [q EXCEPT !.todo = @ \ {k}]
                           ELSE Ended(q, IF ChangesMembers(q) THEN "refused"
                                         ELSE "failed")]
        /\ UNCHANGED <<raftVars, up, crashes>>

\* The handler has nothing left to do.
Served(r) ==
    /\ req[r].phase = "serving" /\ req[r].todo = {}
    /\ req' = [req EXCEPT ![r] = Ended(@, "ok")]
    /\ UNCHANGED <<raftVars, up, logged, crashes>>

\* The deadline of the proxied connection passes: the client gets 502, the
\* handler on the leader goes on.
ProxyTimeout(r) ==
    /\ Active(r) /\ req[r].hops > 0 /\ req[r].answer = None
    /\ req' = [req EXCEPT ![r].answer = "gateway"]
    /\ UNCHANGED <<raftVars, up, logged, crashes>>

-----------------------------------------------------------------------------
(* raft and the processes. *)

Elect(n) ==
    /\ elections < MaxElection /\ up[n] /\ current # n
    /\ current' = n
    /\ belief' = [belief EXCEPT ![n] = n]
    /\ elections' = elections + 1
    /\ UNCHANGED <<up, req, logged, crashes>>

\* A node hears from the current leader.
Hear(n) ==
    /\ up[n] /\ current # None /\ belief[n] # current
    /\ belief' = [belief EXCEPT ![n] = current]
    /\ UNCHANGED <<current, up, req, logged, elections, crashes>>

\* A node no longer hears from its leader, or a leader from its majority.
LoseContact(n) ==
    /\ up[n] /\ belief[n] # None /\ elections < MaxElection
    /\ belief' = [belief EXCEPT ![n] = None]
    /\ current' = IF current = n THEN None ELSE current
    /\ UNCHANGED <<up, req, logged, elections, crashes>>

\* The handlers on n die: their client sees a broken connection, their proxy a
\* failed round trip.  A handler elsewhere goes on when its proxy was on n.
Crash(n) ==
    /\ up[n] /\ crashes < MaxCrash /\ elections < MaxElection
    /\ up' = [up EXCEPT ![n] = FALSE]
    /\ belief' = [belief EXCEPT ![n] = None]
    /\ current' = IF current = n THEN None ELSE current
    /\ req' = [r \in Req |->
                 IF ~Active(r) \/ n \notin {req[r].at, req[r].entry} THEN req[r]
                 ELSE IF req[r].at # n
                      THEN [req[r] EXCEPT !.answer = IF @ = None THEN "broken" ELSE @]
                 ELSE Ended(req[r], IF req[r].entry = n THEN "broken" ELSE "gateway")]
    /\ crashes' = crashes + 1
    /\ UNCHANGED <<logged, elections>>

Restart(n) ==
    /\ ~up[n]
    /\ up' = [up EXCEPT ![n] = TRUE]
    /\ UNCHANGED <<raftVars, req, logged, crashes>>

-----------------------------------------------------------------------------
Init ==
    /\ current = None
    /\ belief = [n \in Node |-> None]
    /\ up = [n \in Node |-> TRUE]
    /\ req = [r \in Req |-> Idle]
    /\ logged = [r \in Req |-> {}]
    /\ elections = 0
    /\ crashes = 0

Handle(r) ==
    \/ ServeHere(r)
    \/ Forward(r)
    \/ \E k \in Key : StoreOp(r, k)
    \/ Served(r)

Next ==
    \/ \E r \in Req, n \in Node, kind \in Kind, keys \in SUBSET Key :
          Request(r, n, kind, keys)
    \/ \E r \in Req : Handle(r) \/ ProxyTimeout(r)
    \/ \E n \in Node :
          Elect(n) \/ Hear(n) \/ LoseContact(n) \/ Crash(n) \/ Restart(n)

Spec == Init /\ [][Next]_vars

\* Handlers run and deadlines pass.  Operations of the store are taken to return:
\* they do unless Apply waits for itself, see CallsReturn of RaftStore.
Fairness == \A r \in Req : WF_vars(Handle(r)) /\ WF_vars(ProxyTimeout(r))

FairSpec == Spec /\ Fairness

-----------------------------------------------------------------------------
(* Properties. *)

\* Types; in particular no request is forwarded a second time, however stale the
\* beliefs of the nodes it meets are.
TypeOK ==
    /\ current \in Node \cup {None}
    /\ belief \in [Node -> Node \cup {None}]
    /\ up \in [Node -> BOOLEAN]
    /\ req \in [Req -> [phase : {"idle", "arrived", "serving", "ended"},
                        kind : Kind, entry : Node \cup {None},
                        at : Node \cup {None}, hops : {0, 1},
                        keys : SUBSET Key, todo : SUBSET Key,
                        answer : Answer \cup {None}]]
    /\ logged \in [Req -> SUBSET Key]
    /\ elections \in Nat /\ crashes \in Nat

\* The client of a POST, a DELETE of a key or a removal is told "ok" only when all
\* that it asked for is committed, also when the leadership moves between two keys
\* of one POST or between the check in tryForwardToLeader and the one in Store.Set.
\* It is not told that its sets are stored (Apply may have ignored them), and the
\* client of a join is not told that the configuration is committed.
OkMeansAllLogged ==
    \A r \in Req :
        req[r].answer = "ok" /\ req[r].kind # "join" => logged[r] = req[r].keys

\* A write to keys that is refused with a message (no leader known, forwarded
\* before) has not reached the log and never will: the client may send it
\* elsewhere.
RefusedMeansUntouched ==
    \A r \in Req :
        req[r].answer = "refused" /\ ~ChangesMembers(req[r]) =>
            req[r].phase = "ended" /\ logged[r] = {}

\* A request is not held by a handler for ever, whether the leadership moves away
\* while it is forwarded or served or the node it was forwarded to dies.
HandlersEnd == \A r \in Req : Active(r) ~> req[r].phase = "ended"

=============================================================================
