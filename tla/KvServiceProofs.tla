-------------------------- MODULE KvServiceProofs --------------------------
(***************************************************************************)
(* Proofs about KvService, for every set of nodes, keys and requests and   *)
(* every bound: the types, and what the two answers that a client relies   *)
(* on say about how far its write got.                                     *)
(***************************************************************************)
EXTENDS KvService, TLAPS

\* The answers that a client may have while a handler still works for it: its
\* proxy gave up, or the node it called died.
Early == {None, "gateway", "broken"}

\* A request whose handler has not touched the store.
Untouched(q, d) == q.todo = q.keys /\ d = {}

\* What a request and the part d of it in the log say of each other in each phase.
\* The answers alone are not inductive: "ok" is given when todo is empty, so the
\* invariant has to say that what is not left to do is in the log, unless the
\* request is a join, and "refused" is given in phase "arrived", so it has to say
\* that nothing happens before "serving".
PhaseOK(q, d) ==
    /\ q.phase = "idle" => Untouched(q, d) /\ q.answer = None
    /\ q.phase = "arrived" => Untouched(q, d) /\ q.answer \in Early /\ q.at \in Node
    /\ q.phase = "serving" =>
          /\ q.kind # "join" => q.keys \ q.todo \subseteq d
          /\ d \subseteq q.keys
          /\ q.todo \subseteq q.keys
          /\ q.answer \in Early /\ q.at \in Node
    /\ q.phase = "ended" =>
          /\ q.answer = "ok" /\ q.kind # "join" => d = q.keys
          /\ q.answer = "refused" /\ ~ChangesMembers(q) => d = {}

\* The inductive invariant.
IInv == TypeOK /\ \A r \in Req : PhaseOK(req[r], logged[r])

\* The set of records that the variable req ranges over.
ReqState ==
    [phase : {"idle", "arrived", "serving", "ended"}, kind : Kind,
     entry : Node \cup {None}, at : Node \cup {None}, hops : {0, 1},
     keys : SUBSET Key, todo : SUBSET Key, answer : Answer \cup {None}]

-----------------------------------------------------------------------------
(* One request. *)

\* Ended keeps everything but the phase and an answer not given before.
LEMMA EndedState ==
    ASSUME NEW q \in ReqState, NEW a \in Answer
    PROVE  /\ Ended(q, a) \in ReqState
           /\ Ended(q, a).phase = "ended" /\ Ended(q, a).kind = q.kind
           /\ Ended(q, a).keys = q.keys
           /\ Ended(q, a).answer = IF q.answer = None THEN a ELSE q.answer
BY DEF ReqState, Ended

\* A handler may end with an answer that is neither "ok" nor "refused" at any
\* moment, whatever it has logged.
LEMMA EndedQuietly ==
    ASSUME NEW q \in ReqState, NEW d, PhaseOK(q, d), q.phase \in {"arrived", "serving"},
           NEW a \in Answer \ {"ok", "refused"}
    PROVE  Ended(q, a) \in ReqState /\ PhaseOK(Ended(q, a), d)
<1>1. q.answer \in Early
  BY DEF PhaseOK
<1>2. Ended(q, a).answer \notin {"ok", "refused"}
  BY <1>1, EndedState DEF Early
<1> QED
  BY <1>2, EndedState DEF PhaseOK

\* A step that touches one request preserves the invariant when the request it
\* leaves is in order.
LEMMA OneRequest ==
    ASSUME IInv, NEW r \in Req, NEW q \in ReqState, NEW d \in SUBSET Key,
           PhaseOK(q, d),
           req' = [req EXCEPT ![r] = q], logged' = [logged EXCEPT ![r] = d],
           UNCHANGED <<current, belief, up, elections, crashes>>
    PROVE  IInv'
<1>1. req \in [Req -> ReqState] /\ logged \in [Req -> SUBSET Key]
  BY DEF IInv, TypeOK, ReqState
<1>2. req' \in [Req -> ReqState] /\ logged' \in [Req -> SUBSET Key]
  BY <1>1
<1>3. TypeOK'
  BY <1>2 DEF IInv, TypeOK, ReqState
<1>4. ASSUME NEW s \in Req PROVE PhaseOK(req'[s], logged'[s])
  <2>1. CASE s = r
    BY <2>1, <1>1
  <2>2. CASE s # r
    <3>1. req'[s] = req[s] /\ logged'[s] = logged[s]
      BY <2>2, <1>1
    <3> QED
      BY <3>1 DEF IInv
  <2> QED
    BY <2>1, <2>2
<1> QED
  BY <1>3, <1>4 DEF IInv

-----------------------------------------------------------------------------
(* The steps of a request. *)

\* A client sends a request.
LEMMA RequestStep ==
    ASSUME IInv, NEW r \in Req, NEW n \in Node, NEW kind \in Kind,
           NEW keys \in SUBSET Key, Request(r, n, kind, keys)
    PROVE  IInv'
<1> DEFINE q == [phase |-> "arrived", kind |-> kind, entry |-> n, at |-> n,
                 hops |-> 0, keys |-> keys, todo |-> keys, answer |-> None]
<1>1. q \in ReqState
  BY DEF ReqState
<1>2. logged[r] = {}
  BY DEF IInv, PhaseOK, Untouched, Request
<1>3. PhaseOK(q, {})
  BY DEF PhaseOK, Untouched, Early
<1>4. logged' = [logged EXCEPT ![r] = {}]
  BY <1>2 DEF Request, IInv, TypeOK
<1>5. req' = [req EXCEPT ![r] = q] /\ UNCHANGED <<current, belief, up, elections, crashes>>
  BY DEF Request, raftVars
<1> HIDE DEF q
<1> QED
  BY <1>1, <1>3, <1>4, <1>5, OneRequest

\* The handler begins to serve the request, or refuses a bad one.
LEMMA ServeHereStep ==
    ASSUME IInv, NEW r \in Req, ServeHere(r)
    PROVE  IInv'
<1> DEFINE q == IF req[r].kind = "bad" THEN Ended(req[r], "badrequest")
                ELSE [req[r] EXCEPT !.phase = "serving"]
<1>1. req[r] \in ReqState /\ PhaseOK(req[r], logged[r])
  BY DEF IInv, TypeOK, ReqState
<1>2. req[r].phase = "arrived"
  BY DEF ServeHere
<1>3. q \in ReqState /\ PhaseOK(q, logged[r])
  <2>1. CASE req[r].kind = "bad"
    <3>1. "badrequest" \in Answer \ {"ok", "refused"}
      BY DEF Answer
    <3> QED
      BY <1>1, <1>2, <2>1, <3>1, EndedQuietly
  <2>2. CASE req[r].kind # "bad"
    BY <1>1, <1>2, <2>2 DEF ReqState, PhaseOK, Untouched
  <2> QED
    BY <2>1, <2>2
<1>4. req' = [req EXCEPT ![r] = q]
  BY DEF ServeHere
<1>5. logged' = [logged EXCEPT ![r] = logged[r]] /\ logged[r] \in SUBSET Key
  BY DEF ServeHere, IInv, TypeOK
<1>6. UNCHANGED <<current, belief, up, elections, crashes>>
  BY DEF ServeHere, raftVars
<1> HIDE DEF q
<1> QED
  BY <1>3, <1>4, <1>5, <1>6, OneRequest

\* A request is refused before anything of it was tried.
LEMMA ForwardStep ==
    ASSUME IInv, NEW r \in Req, Forward(r)
    PROVE  IInv'
<1> DEFINE to == belief[req[r].at]
           q == IF to = None \/ req[r].hops > 0 THEN Ended(req[r], "refused")
                ELSE IF ~up[to] THEN Ended(req[r], "gateway")
                ELSE [req[r] EXCEPT !.at = to, !.hops = @ + 1]
<1>1. req[r] \in ReqState /\ PhaseOK(req[r], logged[r])
  BY DEF IInv, TypeOK, ReqState
<1>2. req[r].phase = "arrived"
  BY DEF Forward
<1>3. /\ Untouched(req[r], logged[r]) /\ req[r].answer \in Early
      /\ req[r].at \in Node
  BY <1>1, <1>2 DEF PhaseOK
<1>4. to \in Node \cup {None}
  BY <1>3 DEF IInv, TypeOK
<1>5. q \in ReqState /\ PhaseOK(q, logged[r])
  <2>1. CASE to = None \/ req[r].hops > 0
    <3>1. "refused" \in Answer
      BY DEF Answer
    <3>2. Ended(req[r], "refused").answer # "ok"
      BY <1>1, <1>3, <3>1, EndedState, NoneAssumption DEF Early, Answer
    <3> QED
      BY <1>1, <1>3, <2>1, <3>1, <3>2, EndedState DEF PhaseOK, Untouched
  <2>2. CASE ~(to = None \/ req[r].hops > 0) /\ ~up[to]
    <3>1. "gateway" \in Answer \ {"ok", "refused"}
      BY DEF Answer
    <3> QED
      BY <1>1, <1>2, <2>2, <3>1, EndedQuietly
  <2>3. CASE ~(to = None \/ req[r].hops > 0) /\ up[to]
    <3>1. to \in Node /\ req[r].hops = 0
      BY <1>1, <1>4, <2>3 DEF ReqState
    <3>2. q = [req[r] EXCEPT !.at = to, !.hops = 1]
      BY <2>3, <3>1
    <3> HIDE DEF q, to
    <3>3. /\ q \in ReqState /\ q.phase = "arrived" /\ q.at \in Node
          /\ q.todo = req[r].todo /\ q.keys = req[r].keys /\ q.answer = req[r].answer
      BY <1>1, <1>2, <3>1, <3>2 DEF ReqState
    <3> QED
      BY <1>3, <3>3 DEF PhaseOK, Untouched
  <2> QED
    BY <2>1, <2>2, <2>3
<1>6. req' = [req EXCEPT ![r] = q]
  BY DEF Forward
<1>7. logged' = [logged EXCEPT ![r] = logged[r]] /\ logged[r] \in SUBSET Key
  BY DEF Forward, IInv, TypeOK
<1>8. UNCHANGED <<current, belief, up, elections, crashes>>
  BY DEF Forward, raftVars
<1> HIDE DEF q
<1> QED
  BY <1>5, <1>6, <1>7, <1>8, OneRequest

\* A key leaves todo only when its command is committed, but for a join.
LEMMA StoreOpStep ==
    ASSUME IInv, NEW r \in Req, NEW k \in Key, StoreOp(r, k)
    PROVE  IInv'
<1>1. PICK commits \in BOOLEAN, ok \in BOOLEAN :
        /\ ok => commits \/ req[r].kind = "join"
        /\ logged' = [logged EXCEPT ![r] = IF commits THEN @ \cup {k} ELSE @]
        /\ req' = [req EXCEPT ![r] =
                     IF ok THEN [req[r] EXCEPT !.todo = @ \ {k}]
                     ELSE Ended(req[r], IF ChangesMembers(req[r]) THEN "refused"
                                        ELSE "failed")]
  BY DEF StoreOp
<1> DEFINE d == IF commits THEN logged[r] \cup {k} ELSE logged[r]
           a == IF ChangesMembers(req[r]) THEN "refused" ELSE "failed"
           q == IF ok THEN [req[r] EXCEPT !.todo = @ \ {k}] ELSE Ended(req[r], a)
<1>2. req[r] \in ReqState /\ PhaseOK(req[r], logged[r]) /\ logged[r] \in SUBSET Key
  BY DEF IInv, TypeOK, ReqState
<1>3. req[r].phase = "serving" /\ k \in req[r].todo
  BY DEF StoreOp
<1>4. /\ req[r].kind # "join" => req[r].keys \ req[r].todo \subseteq logged[r]
      /\ logged[r] \subseteq req[r].keys /\ req[r].todo \subseteq req[r].keys
      /\ req[r].answer \in Early /\ req[r].at \in Node
  BY <1>2, <1>3 DEF PhaseOK
<1>5. d \in SUBSET Key /\ d \subseteq req[r].keys
  BY <1>2, <1>3, <1>4
<1>6. q \in ReqState /\ PhaseOK(q, d)
  <2>1. CASE ok
    <3>1. req[r].kind # "join" => d = logged[r] \cup {k}
      BY <2>1, <1>1
    <3>2. q = [req[r] EXCEPT !.todo = req[r].todo \ {k}]
      BY <2>1
    <3>3. /\ q \in ReqState /\ q.phase = "serving" /\ q.todo = req[r].todo \ {k}
          /\ q.keys = req[r].keys /\ q.answer = req[r].answer /\ q.at = req[r].at
          /\ q.kind = req[r].kind
      BY <1>2, <1>3, <3>2 DEF ReqState
    <3>4. req[r].kind # "join" => req[r].keys \ (req[r].todo \ {k}) \subseteq d
      BY <1>4, <3>1
    <3> HIDE DEF q, d
    <3> QED
      BY <1>4, <1>5, <3>3, <3>4 DEF PhaseOK
  <2>2. CASE ~ok
    <3>1. q = Ended(req[r], a) /\ a \in Answer
      BY <2>2 DEF Answer
    <3> HIDE DEF a, q
    <3>2. /\ q \in ReqState /\ q.phase = "ended" /\ q.kind = req[r].kind
          /\ q.answer = IF req[r].answer = None THEN a ELSE req[r].answer
      BY <1>2, <3>1, EndedState
    <3>3. q.answer # "ok" /\ (q.answer = "refused" => ChangesMembers(q))
      BY <1>4, <3>2 DEF Early, a, ChangesMembers
    <3> HIDE DEF d
    <3> QED
      BY <3>2, <3>3 DEF PhaseOK
  <2> QED
    BY <2>1, <2>2
<1>7. req' = [req EXCEPT ![r] = q] /\ logged' = [logged EXCEPT ![r] = d]
  BY <1>1
<1>8. UNCHANGED <<current, belief, up, elections, crashes>>
  BY DEF StoreOp, raftVars
<1> HIDE DEF q, d
<1> QED
  BY <1>5, <1>6, <1>7, <1>8, OneRequest

\* Nothing left to do means that every key is in the log, but for a join.
LEMMA ServedStep ==
    ASSUME IInv, NEW r \in Req, Served(r)
    PROVE  IInv'
<1> DEFINE q == Ended(req[r], "ok")
<1>1. req[r] \in ReqState /\ PhaseOK(req[r], logged[r])
  BY DEF IInv, TypeOK, ReqState
<1>2. req[r].phase = "serving" /\ req[r].todo = {}
  BY DEF Served
<1>3. /\ req[r].kind # "join" => logged[r] = req[r].keys
      /\ req[r].answer \in Early
  BY <1>1, <1>2 DEF PhaseOK
<1>4. "ok" \in Answer
  BY DEF Answer
<1>5. /\ q \in ReqState /\ q.phase = "ended" /\ q.keys = req[r].keys
      /\ q.kind = req[r].kind
      /\ q.answer = IF req[r].answer = None THEN "ok" ELSE req[r].answer
  BY <1>1, <1>4, EndedState
<1>6. req' = [req EXCEPT ![r] = q]
  BY DEF Served
<1>7. logged' = [logged EXCEPT ![r] = logged[r]] /\ logged[r] \in SUBSET Key
  BY DEF Served, IInv, TypeOK
<1>8. UNCHANGED <<current, belief, up, elections, crashes>>
  BY DEF Served, raftVars
<1> HIDE DEF q
<1>9. q.answer # "refused"
  BY <1>3, <1>5 DEF Early
<1>10. PhaseOK(q, logged[r])
  BY <1>3, <1>5, <1>9 DEF PhaseOK
<1> QED
  BY <1>5, <1>6, <1>7, <1>8, <1>10, OneRequest

\* The proxy gives up and the handler goes on.
LEMMA ProxyTimeoutStep ==
    ASSUME IInv, NEW r \in Req, ProxyTimeout(r)
    PROVE  IInv'
<1> DEFINE q == [req[r] EXCEPT !.answer = "gateway"]
<1>1. req[r] \in ReqState /\ PhaseOK(req[r], logged[r])
  BY DEF IInv, TypeOK, ReqState
<1>2. req[r].phase \in {"arrived", "serving"}
  BY DEF ProxyTimeout, Active
<1>3. q \in ReqState /\ PhaseOK(q, logged[r])
  BY <1>1, <1>2 DEF ReqState, PhaseOK, Untouched, Early, Answer
<1>4. req' = [req EXCEPT ![r] = q]
  BY DEF ProxyTimeout
<1>5. logged' = [logged EXCEPT ![r] = logged[r]] /\ logged[r] \in SUBSET Key
  BY DEF ProxyTimeout, IInv, TypeOK
<1>6. UNCHANGED <<current, belief, up, elections, crashes>>
  BY DEF ProxyTimeout, raftVars
<1> HIDE DEF q
<1> QED
  BY <1>3, <1>4, <1>5, <1>6, OneRequest

-----------------------------------------------------------------------------
(* The steps of raft and of the processes. *)

\* What raft does reaches no request.
LEMMA RaftStep ==
    ASSUME IInv, NEW n \in Node,
           Elect(n) \/ Hear(n) \/ LoseContact(n) \/ Restart(n)
    PROVE  IInv'
<1>1. UNCHANGED <<req, logged>>
  BY DEF Elect, Hear, LoseContact, Restart
<1>2. TypeOK'
  <2>1. CASE Elect(n)
    BY <2>1 DEF IInv, TypeOK, Elect
  <2>2. CASE Hear(n)
    BY <2>2 DEF IInv, TypeOK, Hear
  <2>3. CASE LoseContact(n)
    BY <2>3 DEF IInv, TypeOK, LoseContact
  <2>4. CASE Restart(n)
    BY <2>4 DEF IInv, TypeOK, Restart, raftVars
  <2> QED
    BY <2>1, <2>2, <2>3, <2>4
<1> QED
  BY <1>1, <1>2 DEF IInv

\* A crash ends the handlers on the node and answers for its proxies, with
\* neither "ok" nor "refused".
LEMMA CrashStep ==
    ASSUME IInv, NEW n \in Node, Crash(n)
    PROVE  IInv'
<1>1. req \in [Req -> ReqState]
  BY DEF IInv, TypeOK, ReqState
<1> DEFINE a(r) == IF req[r].entry = n THEN "broken" ELSE "gateway"
           q(r) == IF ~Active(r) \/ n \notin {req[r].at, req[r].entry} THEN req[r]
                   ELSE IF req[r].at # n
                        THEN [req[r] EXCEPT !.answer = IF @ = None THEN "broken" ELSE @]
                   ELSE Ended(req[r], a(r))
<1>2. req' = [r \in Req |-> q(r)] /\ UNCHANGED <<logged, elections>>
  BY DEF Crash
<1>3. ASSUME NEW r \in Req PROVE q(r) \in ReqState /\ PhaseOK(q(r), logged[r])
  <2>1. req[r] \in ReqState /\ PhaseOK(req[r], logged[r])
    BY <1>1 DEF IInv
  <2>2. CASE ~Active(r) \/ n \notin {req[r].at, req[r].entry}
    BY <2>1, <2>2
  <2>3. CASE Active(r) /\ n \in {req[r].at, req[r].entry} /\ req[r].at # n
    <3>1. req[r].phase \in {"arrived", "serving"}
      BY <2>3 DEF Active
    <3> DEFINE b == IF req[r].answer = None THEN "broken" ELSE req[r].answer
    <3>2. b \in Early \ {None} /\ b \in Answer
      BY <2>1, <3>1, NoneAssumption DEF PhaseOK, Early, Answer
    <3>3. q(r) = [req[r] EXCEPT !.answer = b]
      BY <2>3
    <3> HIDE DEF b, q
    <3> QED
      BY <2>1, <3>1, <3>2, <3>3 DEF ReqState, PhaseOK, Untouched
  <2>4. CASE Active(r) /\ req[r].at = n
    <3>1. a(r) \in Answer \ {"ok", "refused"}
      BY DEF Answer
    <3>2. q(r) = Ended(req[r], a(r)) /\ req[r].phase \in {"arrived", "serving"}
      BY <2>4 DEF Active
    <3> HIDE DEF a, q
    <3> QED
      BY <2>1, <3>1, <3>2, EndedQuietly
  <2> QED
    BY <2>2, <2>3, <2>4
<1> HIDE DEF q
<1>4. req' \in [Req -> ReqState]
  BY <1>2, <1>3
<1>5. TypeOK'
  <2>1. belief' \in [Node -> Node \cup {None}] /\ up' \in [Node -> BOOLEAN]
    BY DEF Crash, IInv, TypeOK
  <2>2. current' \in Node \cup {None} /\ crashes' \in Nat
    BY DEF Crash, IInv, TypeOK
  <2> QED
    BY <1>2, <1>4, <2>1, <2>2 DEF IInv, TypeOK, ReqState
<1>6. \A r \in Req : PhaseOK(req'[r], logged'[r])
  BY <1>2, <1>3
<1> QED
  BY <1>5, <1>6 DEF IInv

-----------------------------------------------------------------------------
(* The theorems. *)

\* No request has been sent in the beginning.
LEMMA InitIInv == Init => IInv
<1> SUFFICES ASSUME Init PROVE IInv
  OBVIOUS
<1>1. Idle \in ReqState
  BY DEF Idle, ReqState, Kind
<1>2. PhaseOK(Idle, {})
  BY DEF Idle, PhaseOK, Untouched
<1>3. req \in [Req -> ReqState]
  BY <1>1 DEF Init
<1>4. TypeOK
  BY <1>3 DEF Init, TypeOK, ReqState
<1>5. \A r \in Req : req[r] = Idle /\ logged[r] = {}
  BY DEF Init
<1> QED
  BY <1>2, <1>4, <1>5 DEF IInv

\* Every step keeps the invariant.
LEMMA NextIInv == IInv /\ [Next]_vars => IInv'
<1> SUFFICES ASSUME IInv, [Next]_vars PROVE IInv'
  OBVIOUS
<1>1. CASE \E r \in Req, n \in Node, kind \in Kind, keys \in SUBSET Key :
              Request(r, n, kind, keys)
  BY <1>1, RequestStep
<1>2. CASE \E r \in Req : Handle(r) \/ ProxyTimeout(r)
  BY <1>2, ServeHereStep, ForwardStep, StoreOpStep, ServedStep, ProxyTimeoutStep
     DEF Handle
<1>3. CASE \E n \in Node :
              Elect(n) \/ Hear(n) \/ LoseContact(n) \/ Crash(n) \/ Restart(n)
  BY <1>3, RaftStep, CrashStep
<1>4. CASE UNCHANGED vars
  BY <1>4 DEF vars, IInv, TypeOK
<1> QED
  BY <1>1, <1>2, <1>3, <1>4 DEF Next

\* The invariant holds throughout.
LEMMA AlwaysIInv == Spec => []IInv
BY InitIInv, NextIInv, PTL DEF Spec

\* The types; in particular the header that a proxy sets keeps every request
\* from being forwarded a second time, for any number of nodes whose beliefs
\* about the leader disagree.
THEOREM ServiceTypes == Spec => []TypeOK
<1>1. IInv => TypeOK
  BY DEF IInv
<1> QED
  BY <1>1, AlwaysIInv, PTL

\* A client of a POST, a DELETE of a key or a removal that is told "ok" has had
\* every part of its request committed, however the leadership moves and nodes die
\* meanwhile.
THEOREM OkIsLogged == Spec => []OkMeansAllLogged
<1>1. IInv => OkMeansAllLogged
  <2> SUFFICES ASSUME IInv, NEW r \in Req, req[r].answer = "ok",
                      req[r].kind # "join"
               PROVE  logged[r] = req[r].keys
    BY DEF OkMeansAllLogged
  <2>1. PhaseOK(req[r], logged[r]) /\ req[r] \in ReqState
    BY DEF IInv, TypeOK, ReqState
  <2>2. "ok" \notin Early /\ "ok" # None
    BY NoneAssumption DEF Early, Answer
  <2> QED
    BY <2>1, <2>2 DEF PhaseOK, ReqState
<1> QED
  BY <1>1, AlwaysIInv, PTL

\* A write to keys that is refused has not reached the log, and its handler has
\* ended.
THEOREM RefusedIsTrue == Spec => []RefusedMeansUntouched
<1>1. IInv => RefusedMeansUntouched
  <2> SUFFICES ASSUME IInv, NEW r \in Req, req[r].answer = "refused",
                      ~ChangesMembers(req[r])
               PROVE  req[r].phase = "ended" /\ logged[r] = {}
    BY DEF RefusedMeansUntouched
  <2>1. PhaseOK(req[r], logged[r]) /\ req[r] \in ReqState
    BY DEF IInv, TypeOK, ReqState
  <2>2. "refused" \notin Early /\ "refused" # None
    BY NoneAssumption DEF Early, Answer
  <2> QED
    BY <2>1, <2>2 DEF PhaseOK, ReqState
<1> QED
  BY <1>1, AlwaysIInv, PTL

=============================================================================
