------------------------ MODULE EntryGateProperties -------------------------
(***************************************************************************)
(* What the approval path and the blocks on new entries have to guarantee. *)
(***************************************************************************)
EXTENDS EntryGate

\* A CONFIRM that was pressed while the owner's pause, a recorded unknown order,
\* a recorded unprotected position or a protected position at the limit was
\* there does not reach the market unless that has gone in the meantime: the
\* gate reads all of them after the lock (executionOperationalUnsafe).
SteadyBlockHolds ==
    \A h \in Handlers :
        pc[h] = "buy" =>
            /\ ~since[h].paused /\ ~since[h].unknown /\ ~since[h].unprotected
            /\ Cardinality(since[h].held) < MaxOpenPositions

\* However often a proposal is confirmed, delivered again or prepared anew, the
\* executor is called once for it: the execution lock lives as long as a signal
\* is fresh enough to be bought (SIGNAL_TTL_SEC, MAX_SIGNAL_AGE_MS).
ExecutorCalledOnce == \A s \in Signals : calls[s] <= 1

\* When the owner reads "BUY failed" with a definite reason of the executor,
\* nothing is left in the market; every doubt is recorded in live:unknown-orders
\* first (executeConfirmedBuy).
RefusalIsFlat ==
    \A h \in Handlers : pc[h] = "noPosition" => trade[on[h]] \notin Exposed

\* An entry order the executor lost from sight stops every later entry: once its
\* handler is over, live:unknown-orders holds it (executeConfirmedBuy 739-750).
\* Checked without faults and without /go-no-go: a store call that throws loses
\* the row, and the page overwrites it.
LostFromSightBlocks ==
    \A s \in Signals :
        trade[s] \in {"ORDERED", "FILLED"} =>
            unknown \/ \E h \in Handlers : on[h] = s /\ pc[h] \in {"executing", "flag"}

\* While a position stays without protection, new entries are blocked again and
\* again, whatever the watchdog and the go/no-go page clear: every run of the
\* reconciler reports the loss once more, or records that it could not read.
LossIsReflagged ==
    \A s \in Signals :
        <>[](trade[s] = "BARE") => []<>(unprotected \/ unknown)

-----------------------------------------------------------------------------
(* The invariant behind ExecutorCalledOnce.  A handler is on its way to the *)
(* executor from the execution lock to the call; while the signal is fresh  *)
(* one handler at most is on its way, the lock stands for it and for a call *)
(* that was made; a handler that is late finds the signal stale.            *)

OnItsWay(h, s) == on[h] = s /\ pc[h] \in {"gate", "gateExchange", "preflight", "intent"}
AboutToCall(h, s) == on[h] = s /\ pc[h] = "intent"

NewIsUntouched ==
    \A s \in Signals : offer[s] = "new" =>
        /\ s \notin prepared /\ s \notin lock /\ calls[s] = 0
        /\ \A h \in Handlers : pc[h] # "idle" => on[h] # s

LockStandsForIt ==
    \A s \in Signals : offer[s] = "live" /\ s \notin lock =>
        calls[s] = 0 /\ \A h \in Handlers : ~OnItsWay(h, s)

OneOnItsWay ==
    \A s \in Signals : offer[s] = "live" =>
        \A h \in Handlers : OnItsWay(h, s) =>
            calls[s] = 0 /\ \A g \in Handlers : OnItsWay(g, s) => g = h

OneCaller ==
    \A s \in Signals : \A h \in Handlers : AboutToCall(h, s) =>
        calls[s] = 0 /\ \A g \in Handlers : AboutToCall(g, s) => g = h

\* ExecutorCalledOnce made inductive: see EntryGateProofs.
ConfirmedOnce ==
    /\ NewIsUntouched
    /\ LockStandsForIt
    /\ OneOnItsWay
    /\ OneCaller
    /\ ExecutorCalledOnce

-----------------------------------------------------------------------------
(* The invariant behind RefusalIsFlat: one handler at most is past the call *)
(* for a signal, the trade begins with the call, and a handler that is      *)
(* about to buy or to refuse knows its trade.                               *)

AtExecutor(h, s) ==
    on[h] = s /\ pc[h] \in {"preEntry", "buy", "executing", "flag", "noPosition", "bought", "closed"}

TradeFollowsCall == \A s \in Signals : trade[s] = "NONE" <=> calls[s] = 0

OneAtExecutor ==
    \A s \in Signals : \A h \in Handlers : AtExecutor(h, s) =>
        calls[s] # 0 /\ \A g \in Handlers : AtExecutor(g, s) => g = h

AnswersFit ==
    \A h \in Handlers :
        /\ pc[h] \in {"preEntry", "buy"} => trade[on[h]] = "CLAIMED"
        /\ pc[h] = "noPosition" => trade[on[h]] = "CLOSED"

\* RefusalIsFlat made inductive: see EntryGateProofs.
AnsweredOnce == TradeFollowsCall /\ OneAtExecutor /\ AnswersFit

-----------------------------------------------------------------------------
(* The invariant behind SteadyBlockHolds: what lasts since the CONFIRM was  *)
(* pressed was not there, or not enough of it, when the gate looked.        *)

PastState == {"gateExchange", "preflight", "intent", "preEntry", "buy"}
PastExchange == {"preflight", "intent", "preEntry", "buy"}

\* SteadyBlockHolds made inductive: see EntryGateProofs.
GateHasLooked ==
    \A h \in Handlers :
        /\ pc[h] \in PastState =>
              ~since[h].paused /\ ~since[h].unknown /\ ~since[h].unprotected
        /\ pc[h] \in PastExchange => Cardinality(since[h].held) < MaxOpenPositions

-----------------------------------------------------------------------------
(* What docs, comments and messages claim, and the code does not keep.     *)

\* "maximum open positions: 1" (README.md:81, live-cutover-policy.js:6).
Positions == {s \in Signals : trade[s] \in {"FILLED", "PROTECTED", "BARE"}}
AtMostMaxOpen == Cardinality(Positions) <= MaxOpenPositions

\* "Protection lost | BLOCK" (docs/PRODUCTION_INCIDENT_RUNBOOK.md:13), "New
\* entries are blocked" (buy-gateway-stable.js:1201): a CONFIRM pressed after
\* the owner was warned, with the position still bare, does not buy.
LostProtectionBlocks ==
    \A h \in Handlers : pc[h] = "buy" => since[h].bare = {}

\* "New entries are blocked immediately" (buy-gateway-stable.js:842).
PauseIsImmediate ==
    [][\A s \in Signals : trade[s] # "ORDERED" /\ trade'[s] = "ORDERED" => ~paused]_gateVars
=============================================================================
