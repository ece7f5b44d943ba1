---------------------------- MODULE LeaderSignal ----------------------------
(***************************************************************************)
(* How a node learns that it gained or lost the leadership, and what the   *)
(* program does with it.  raft sends a flag on its LeaderCh, which has no  *)
(* buffer and never blocks the sender; listenLeaderCh hands the flag on to *)
(* Service.LeaderCh, which has room for one, and throws it away when there *)
(* is none; leaderChanging in cmd/hraftd starts the Ticker on true and     *)
(* stops it on false.                                                      *)
(*                                                                         *)
(* A signal is the number of the change of leadership it reports.  A node  *)
(* starts as a follower, so odd changes are gains and even ones losses.    *)
(***************************************************************************)
EXTENDS Integers, Sequences, FiniteSets, Functions

CONSTANTS
    MaxChange,  \* bound on the changes of leadership
    MaxTick     \* bound on the ticks that all goroutines take together

ASSUME ChangeAssumption == MaxChange \in Nat /\ MaxTick \in Nat

VARIABLES
    changes,    \* changes of leadership so far
    listener,   \* where listenLeaderCh is: "off", "recv", "send" or "print"
    held,       \* the signal listenLeaderCh has received, 0 when none
    buf,        \* Service.LeaderCh, a channel with room for one signal
    seen,       \* the last signal leaderChanging received, 0 when none
    lost,       \* history: signals thrown away on the way
    closed,     \* Ticker.stop is closed
    panicked,   \* the process died closing Ticker.stop again
    ticker,     \* ticker[w]: the w-th goroutine that runs Ticker.start
    ticks       \* ticks[w]: ticks it has taken

vars == <<changes, listener, held, buf, seen, lost, closed, panicked, ticker,
          ticks>>

Signal == 1 .. MaxChange
Gain(s) == s % 2 = 1
IsLeader == Gain(changes)

\* Goroutines are numbered in the order in which StartAsync starts them, one for each
\* gain at most.
Worker == 1 .. (MaxChange + 1) \div 2
Live(w) == ticker[w] \in {"exec", "select"}

-----------------------------------------------------------------------------
(* raft and listenLeaderCh. *)

\* raft notifies without blocking: the flag gets through only to a listener
\* that waits on the channel at that moment.
ChangeLeadership ==
    /\ ~panicked /\ changes < MaxChange
    /\ changes' = changes + 1
    /\ IF listener = "recv"
       THEN held' = changes' /\ listener' = "send" /\ lost' = lost
       ELSE lost' = lost \cup {changes'} /\ UNCHANGED <<held, listener>>
    /\ UNCHANGED <<buf, seen, closed, panicked, ticker, ticks>>

\* StartRaft starts the listener, long after Open has started raft.
StartRaft ==
    /\ ~panicked /\ listener = "off"
    /\ listener' = "recv"
    /\ UNCHANGED <<changes, held, buf, seen, lost, closed, panicked, ticker,
                   ticks>>

\* Mutant: the old signal is put back behind the new one when there is no room.
SendReorders ==
    /\ ~panicked /\ listener = "send"
    /\ buf' = IF buf = <<>> THEN <<held>> ELSE <<held, Head(buf)>>
    /\ lost' = lost
    /\ held' = 0 /\ listener' = "print"
    /\ UNCHANGED <<changes, seen, closed, panicked, ticker, ticks>>

\* Mutant: a gain is handed on twice when there is room.
SendTwice ==
    /\ ~panicked /\ listener = "send"
    /\ buf' = IF buf = <<>> THEN <<held, held>> ELSE buf
    /\ lost' = IF buf = <<>> THEN lost ELSE lost \cup {held}
    /\ held' = 0 /\ listener' = "print"
    /\ UNCHANGED <<changes, seen, closed, panicked, ticker, ticks>>

\* Mutant: the test of the flag at the end of the loop stands before the select.
SendSkipsLosses ==
    /\ ~panicked /\ listener = "send"
    /\ IF ~Gain(held)
       THEN UNCHANGED <<buf, lost>>
       ELSE IF buf = <<>>
            THEN buf' = <<held>> /\ lost' = lost
            ELSE buf' = buf /\ lost' = lost \cup {held}
    /\ held' = 0 /\ listener' = "print"
    /\ UNCHANGED <<changes, seen, closed, panicked, ticker, ticks>>

\* The select with a default: a full channel keeps the old signal and the new
\* one is gone.
Send ==
    /\ ~panicked /\ listener = "send"
    /\ IF buf = <<>>
       THEN buf' = <<held>> /\ lost' = lost
       ELSE buf' = buf /\ lost' = lost \cup {held}
    /\ held' = 0 /\ listener' = "print"
    /\ UNCHANGED <<changes, seen, closed, panicked, ticker, ticks>>

\* The log line, during which the listener does not receive.
Printed ==
    /\ ~panicked /\ listener = "print"
    /\ listener' = "recv"
    /\ UNCHANGED <<changes, held, buf, seen, lost, closed, panicked, ticker,
                   ticks>>

-----------------------------------------------------------------------------
(* leaderChanging and the ticker. *)

\* Ticker.StartAsync: one more goroutine, which runs the functions at once.
StartAsync ==
    LET w == CHOOSE w \in Worker :
                ticker[w] = "new" /\ \A x \in 1 .. (w - 1) : ticker[x] # "new"
    IN  /\ ticker' = [ticker EXCEPT ![w] = "exec"]
        /\ UNCHANGED <<closed, panicked>>

\* Ticker.StopAsync: close of a closed channel panics.
StopAsync ==
    /\ IF closed THEN panicked' = TRUE /\ closed' = closed
                 ELSE closed' = TRUE /\ panicked' = panicked
    /\ UNCHANGED ticker

\* One round of the loop over Service.LeaderCh.
Receive ==
    /\ ~panicked /\ buf # <<>>
    /\ seen' = Head(buf)
    /\ buf' = Tail(buf)
    /\ IF Gain(Head(buf)) THEN StartAsync ELSE StopAsync
    /\ UNCHANGED <<changes, listener, held, lost, ticks>>

\* execFns ends; the jobs it distributes go out over a client without timeout.
ExecFns(w) ==
    /\ ~panicked /\ ticker[w] = "exec"
    /\ ticker' = [ticker EXCEPT ![w] = "select"]
    /\ UNCHANGED <<changes, listener, held, buf, seen, lost, closed, panicked,
                   ticks>>

\* The ticks are within their bound.
MayTick == FoldFunction(+, 0, ticks) < MaxTick

\* The select takes a tick.
TakeTick(w) ==
    /\ ~panicked /\ ticker[w] = "select" /\ MayTick
    /\ ticker' = [ticker EXCEPT ![w] = "exec"]
    /\ ticks' = [ticks EXCEPT ![w] = @ + 1]
    /\ UNCHANGED <<changes, listener, held, buf, seen, lost, closed, panicked>>

\* Mutant: the stop flag is sent, so that one goroutine takes it from the rest.
TakeStopOnce(w) ==
    /\ ~panicked /\ ticker[w] = "select" /\ closed
    /\ \A x \in Worker : ticker[x] # "done"
    /\ ticker' = [ticker EXCEPT ![w] = "done"]
    /\ UNCHANGED <<changes, listener, held, buf, seen, lost, closed, panicked,
                   ticks>>

\* The select takes the closed channel.
TakeStop(w) ==
    /\ ~panicked /\ ticker[w] = "select" /\ closed
    /\ ticker' = [ticker EXCEPT ![w] = "done"]
    /\ UNCHANGED <<changes, listener, held, buf, seen, lost, closed, panicked,
                   ticks>>

-----------------------------------------------------------------------------
Init ==
    /\ changes = 0
    /\ listener = "off"
    /\ held = 0
    /\ buf = <<>>
    /\ seen = 0
    /\ lost = {}
    /\ closed = FALSE
    /\ panicked = FALSE
    /\ ticker = [w \in Worker |-> "new"]
    /\ ticks = [w \in Worker |-> 0]

Next ==
    \/ ChangeLeadership
    \/ StartRaft
    \/ Send
    \/ Printed
    \/ Receive
    \/ \E w \in Worker : ExecFns(w) \/ TakeTick(w) \/ TakeStop(w)

Spec == Init /\ [][Next]_vars

-----------------------------------------------------------------------------
(* Properties. *)

\* Types; the channel never holds more than the one signal it has room for.
TypeOK ==
    /\ changes \in 0 .. MaxChange
    /\ listener \in {"off", "recv", "send", "print"}
    /\ held \in 0 .. MaxChange
    /\ buf \in Seq(Signal) /\ Len(buf) <= 1
    /\ seen \in 0 .. MaxChange
    /\ lost \subseteq Signal
    /\ closed \in BOOLEAN /\ panicked \in BOOLEAN
    /\ ticker \in [Worker -> {"new", "exec", "select", "done"}]
    /\ ticks \in [Worker -> Nat]

\* Signals are handed on in the order of the changes they report, none twice:
\* what leaderChanging acted on is older than what waits in the channel, and
\* that is older than what the listener holds.
SignalsInOrder ==
    LET held1 == IF held = 0 THEN <<>> ELSE <<held>>
        way   == <<seen>> \o buf \o held1 \o <<changes + 1>>
    IN  \A i \in 1 .. (Len(way) - 1) : way[i] < way[i + 1]

\* When nothing is on the way, the program acts on the current leadership unless
\* the last change itself was thrown away by one of the two channels.
StaleOnlyIfLost ==
    held = 0 /\ buf = <<>> /\ changes \notin lost => seen = changes

\* Two tickers run at once only when the first one is stopped and still has to end,
\* or when a loss of leadership was thrown away between two gains.
ExtraTickersNeedLostLoss ==
    Cardinality({w \in Worker : Live(w)})
        <= 1 + (IF closed THEN 1 ELSE 0) + Cardinality({s \in lost : ~Gain(s)})

\* The ticker can be stopped whenever the leadership is lost.
NoPanic == ~panicked

=============================================================================
