------------------------ MODULE LiveTradeProperties -------------------------
(***************************************************************************)
(* What the live executor and the live reconciler have to guarantee.       *)
(***************************************************************************)
EXTENDS LiveTrade, FiniteSets

Submitted(k, i) == net[k][i] # "none"
Ended(e) == pc[e] = "done" /\ Ready(e)
-----------------------------------------------------------------------------
(* Orders.                                                                 *)

\* An intent's entry order is submitted at most once, however many invocations
\* work on the intent, whatever answers are lost and wherever a worker dies:
\* claimIntent lets one call through, and placeBuy never resends.
SingleEntry == \A i \in Intents : posts[i] <= 1

\* An order that may be at the exchange can be found again from the durable row:
\* before the entry leaves, the row has left APPROVED, and before the OCO leaves
\* its client ids are in the row (the write-ahead order of placeBuy and
\* placeOco), so that a crash at any point leaves a trace.
OrderIsOnRecord ==
    \A i \in Intents :
        /\ Submitted("buy", i) =>
             trade[i].state \notin {"NONE", "SIGNAL_CREATED", "APPROVED"}
        /\ Submitted("oco", i) => "protectionIds" \in trade[i].flags

\* Nothing is sold while the entry order can still fill: settleEntryOrder ends
\* with a terminal or a cancelled order before a sale of its quantity is sent.
SaleFollowsFinalEntry ==
    \A i \in Intents :
        Submitted("oco", i) \/ Submitted("emg", i) => buy[i].status \in TerminalEntry

\* A call that answers "done" (ok:true) or "no position" leaves no quantity that
\* no protective list was ever placed for; every other outcome asks for a
\* reconciliation.
AnswerIsHonest ==
    \A e \in Executors :
        Ended(e) /\ ex[e].ret \in {"OK", "NO_POSITION"} /\ held[on[e]] > 0
            => oco[on[e]] # "ABSENT"

\* A row says PROTECTED only if the exchange took the OCO list, also after an
\* OCO submission whose answer was lost.
ProtectedIsReal ==
    \A i \in Intents : trade[i].state = "PROTECTED" => oco[i] # "ABSENT"

\* A row marked emergencyClosed has nothing left to sell (emergencyClose).
EmergencyIsFlat ==
    \A i \in Intents : "emergencyClosed" \in trade[i].flags => held[i] = 0

-----------------------------------------------------------------------------
(* Exits.                                                                  *)

\* The reconciler closes a row only when the position is gone: nothing is held
\* and no list is working, although its four reads saw four different moments.
ExitedIsFlat ==
    \A i \in Intents :
        trade[i].state = "EXITED" => held[i] = 0 /\ oco[i] # "EXECUTING"

\* An intent's result enters the daily risk row at most once, also with two
\* reconcilers in the same exit and after a failed attempt.
PnlAtMostOnce == \A i \in Intents : daily[i] <= 1

\* A row that was closed from a matched exit order has its result in the daily
\* risk row: the row is put first and EXITED is written after it.
ExitIsCounted ==
    \A i \in Intents : trade[i].exit \in {"exact", "inexact"} => daily[i] = 1

\* The position's own OCO exit is booked from its fills, never taken for a
\* "Manual/external position change" without a result.
OwnExitIsPriced ==
    \A i \in Intents : trade[i].exit = "external" => oco[i] \notin {"TP", "SL"}

\* writeTradeState's TRADE_ALREADY_EXITED: EXITED is the last state of a row.
ExitedIsFinal ==
    [][\A i \in Intents : trade[i].state = "EXITED" => trade'[i].state = "EXITED"]_vars

-----------------------------------------------------------------------------
(* Recovery.                                                               *)

\* An entry order that settleEntryOrder has read in a final state with a fill is
\* recorded as a position.
KnownFillIsRecorded ==
    \A e \in Executors :
        Ended(e) /\ on[e] # NoIntent /\ ex[e].seen.status \in TerminalEntry
                 /\ ex[e].seen.qty > 0
            => trade[on[e]].state \in Reconcilable

-----------------------------------------------------------------------------
(* Ownership: the invariant behind SingleEntry.  An executor owns the       *)
(* intent it claimed, no two own the same, a claimed row never becomes free *)
(* again, and the owner submits once.                                       *)

BeforeEntry == {"reconcile", "buyQuery", "buySend"}

OwnersDiffer ==
    \A e, f \in Executors : on[e] = on[f] /\ on[e] # NoIntent => e = f

IdleOwnsNothing ==
    \A e \in Executors : pc[e] = "idle" => on[e] = NoIntent /\ Ready(e)

OwnedIsClaimed ==
    \A p \in Executors : on[p] # NoIntent => trade[on[p]].state # "NONE"

WritesAreStates ==
    \A p \in Procs : ~Ready(p) => /\ w[p].row.state # "NONE"
                                  /\ trade[w[p].intent].state # "NONE"

UnclaimedIsUnsent ==
    \A i \in Intents : trade[i].state = "NONE" => posts[i] = 0

OwnerSendsOnce ==
    \A e \in Executors : pc[e] \in BeforeEntry => on[e] # NoIntent /\ posts[on[e]] = 0

\* SingleEntry made inductive: see LiveTradeProofs.
Ownership ==
    /\ OwnersDiffer
    /\ IdleOwnsNothing
    /\ OwnedIsClaimed
    /\ WritesAreStates
    /\ UnclaimedIsUnsent
    /\ OwnerSendsOnce
    /\ SingleEntry

-----------------------------------------------------------------------------
(* Counting: the invariant behind PnlAtMostOnce.  The whole daily row is    *)
(* read and put, so that a run that books one exit puts back what it has    *)
(* read of all others: no copy may hold more than one count of anything,    *)
(* nor any count of an exit that is still to be put.                        *)

Booking(r, i) == on[r] = i /\ pc[r] \in {"dailyGet", "dailyPut"}

\* Neither the row nor a copy of it counts intent i.
Uncounted(i) == daily[i] = 0 /\ \A r \in Reconcilers : rc[r].daily[i] = 0

CopiesCountOnce == \A r \in Reconcilers, i \in Intents : rc[r].daily[i] <= 1

UnclaimedIsUncounted ==
    \A i \in Intents \ pnlApplied :
        Uncounted(i) /\ \A r \in Reconcilers : ~Booking(r, i)

OneBooksUncounted ==
    \A r \in Reconcilers, i \in Intents : Booking(r, i) =>
        Uncounted(i) /\ \A q \in Reconcilers : Booking(q, i) => q = r

\* PnlAtMostOnce made inductive: see LiveTradeProofs.
Counting ==
    /\ PnlAtMostOnce
    /\ CopiesCountOnce
    /\ UnclaimedIsUncounted
    /\ OneBooksUncounted

-----------------------------------------------------------------------------
(* Refinement: without a reconciler the executors implement TradeLifecycle. *)

Lifecycle == INSTANCE TradeLifecycle WITH
    state   <- [i \in Intents |-> trade[i].state],
    entries <- posts,
    sales   <- [i \in Intents |-> {k \in {"oco", "emg"} : Submitted(k, i)}],
    guarded <- [i \in Intents |-> oco[i] # "ABSENT"]

\* Whatever crashes and lost answers do, the executors' rows and orders follow
\* the abstract lifecycle.
FollowsLifecycle == Lifecycle!Spec

-----------------------------------------------------------------------------
(* Liveness.                                                               *)

\* The runtime runs a worker that is not dead, the store answers, the cron
\* starts the reconciler again, and a request or an order does not stay with
\* the exchange for ever.  A fault is never owed to anyone.
Fairness ==
    /\ \A e \in Executors : WF_vars(ExecutorStep(e))
    /\ \A r \in Reconcilers : WF_vars(ReconcilerStep(r))
    /\ \A p \in Procs : WF_vars(WriteStep(p) \/ WriteRefused(p))
    /\ \A i \in Intents : WF_vars(Environment(i))

FairSpec == Spec /\ Fairness

\* Every call of the executor comes to an end: the waits are bounded and no
\* branch of placeBuy, placeOco or emergencyClose loops.
EveryCallEnds ==
    \A e \in Executors :
        pc[e] # "idle" ~> pc[e] \in {"done", "crashed"} /\ Ready(e)

\* The state a successful call leaves: a full lot, bought and protected.
ProtectedRow ==
    [state |-> "PROTECTED", flags |-> {"protectionIds"}, exit |-> "none"]

SeqOf(s) == CHOOSE f \in [1..Cardinality(s) -> s] : \A x \in s : \E k \in DOMAIN f : f[k] = x

InitProtected ==
    /\ trade = [i \in Intents |-> ProtectedRow]
    /\ index = SeqOf(Intents)
    /\ w = [p \in Procs |-> NoCall]
    /\ buy = [i \in Intents |-> [status |-> "FILLED", qty |-> Lot]]
    /\ oco = [i \in Intents |-> "EXECUTING"]
    /\ emg = [i \in Intents |-> "ABSENT"]
    /\ held = [i \in Intents |-> Lot]
    /\ net = [k \in Kinds |-> [i \in Intents |-> IF k = "emg" THEN "none" ELSE "ok"]]
    /\ posts = [i \in Intents |-> 1]
    /\ pc = [p \in Procs |-> "idle"]
    /\ on = [p \in Procs |-> NoIntent]
    /\ ex = [e \in Executors |-> FreshExecutor]
    /\ rc = [r \in Reconcilers |-> FreshReconciler]
    /\ finalized = {} /\ pnlApplied = {}
    /\ daily = [i \in Intents |-> 0]
    /\ faults = 0

\* The reconcilers alone, after the executors' calls are over.
ProtectedSpec == InitProtected /\ [][Next]_vars /\ Fairness

\* A position whose OCO was executed is eventually booked as EXITED.
ExitIsBooked ==
    \A i \in Intents : oco[i] \in {"TP", "SL"} ~> trade[i].state = "EXITED"
=============================================================================
