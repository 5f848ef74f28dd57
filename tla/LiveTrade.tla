----------------------------- MODULE LiveTrade ------------------------------
(***************************************************************************)
(* The live executor and the live reconciler of                            *)
(* src/src/supabase-live-client.js, running side by side over one store    *)
(* and one exchange.                                                       *)
(*                                                                         *)
(* An executor is one invocation of manualBuyAndProtectViaSupabase: it     *)
(* claims the intent, buys at market, waits until the entry is final, and  *)
(* protects the filled quantity with an OCO list or sells it back.  A      *)
(* reconciler is the cron's supabaseReconcileActiveTrades: it walks the    *)
(* active index and books the exit of every position that was closed.      *)
(*                                                                         *)
(* Every call that leaves the worker is a step of its own.  A call whose   *)
(* outcome is not known, a store call that throws and a worker that dies   *)
(* each use up one of MaxFaults faults.                                    *)
(***************************************************************************)
EXTENDS TradeStore, SpotExchange

CONSTANTS
    Executors,      \* invocations of the executor
    Reconcilers,    \* concurrent runs of the reconciler
    SettleAttempts, \* the attempts of settleEntryOrder (6 in the code and in the runs)
    MaxFaults       \* bound: faults of one behaviour

ASSUME LiveAssumption ==
    /\ Procs = Executors \cup Reconcilers
    /\ Executors \cap Reconcilers = {}
    /\ SettleAttempts \in Nat \ {0}
    /\ MaxFaults \in Nat

VARIABLES
    pc,         \* process -> where it goes on once its write is over
    on,         \* process -> the intent it works on
    ex,         \* executor -> the locals of its call
    rc,         \* reconciler -> the locals of its run
    finalized,  \* intents whose exit-finalize lock is claimed
    pnlApplied, \* intents whose daily-pnl-applied key is claimed
    daily,      \* risk:daily-live: how often it counts each intent's PnL
    faults

locals == <<pc, on, ex, rc>>
books == <<finalized, pnlApplied, daily>>
vars == <<storeVars, exchangeVars, locals, books, faults>>

ExecutorPcs ==
    {"idle", "reconcile", "buyQuery", "buySend", "buyWait", "buyRequery",
     "settle", "cancel", "finalQuery", "filled", "normalize",
     "ocoQuery", "ocoSend", "ocoWait", "ocoRequery",
     "emgQuery", "emgSend", "emgWait", "emgRequery", "done", "crashed"}

ReconcilerPcs ==
    {"idle", "next", "row", "reads", "trades", "lock", "pnlClaim",
     "dailyGet", "dailyPut"}

\* What the caller of the executor is told.  RECONCILE is every answer that
\* carries reconciliationRequired, NO_POSITION every one that says no position
\* was opened.
Returns == {"none", "OK", "NO_POSITION", "RECONCILE", "DUPLICATE", "THROWN"}

Snapshots ==
    [list : {"unread", "ABSENT", "EXECUTING", "ALL_DONE"},
     tp   : {"unread", "ABSENT", "NEW", "FILLED", "CANCELED"},
     sl   : {"unread", "ABSENT", "NEW", "FILLED", "CANCELED"},
     base : {"unread", "dust", "held"}]

Unread == [list |-> "unread", tp |-> "unread", sl |-> "unread", base |-> "unread"]
\* A row without client ids has nothing to query but the balance.
UnreadNoIds == [list |-> "ABSENT", tp |-> "ABSENT", sl |-> "ABSENT", base |-> "unread"]

ExecutorLocals ==
    [seen  : Orders,                \* the entry order as last read
     polls : 0..SettleAttempts,     \* the counter of settleEntryOrder
     sent  : {"none", "reject", "unknown", "other"},    \* the OCO POST's answer
     ret   : Returns]

ReconcilerLocals ==
    [todo  : Seq(Intents),          \* index entries still to visit
     row   : Rows,                  \* the row read for the current one
     snap  : Snapshots,             \* the parallel reads so far
     pnl   : Exits,                 \* quality of the realised PnL
     daily : [Intents -> Nat]]      \* risk:daily-live as read

FreshExecutor == [seen |-> NoOrder, polls |-> 0, sent |-> "none", ret |-> "none"]
FreshReconciler ==
    [todo |-> <<>>, row |-> NoRow, snap |-> Unread, pnl |-> "none",
     daily |-> [i \in Intents |-> 0]]

LocalsTypeOK ==
    /\ pc \in [Procs -> ExecutorPcs \cup ReconcilerPcs]
    /\ \A e \in Executors : pc[e] \in ExecutorPcs
    /\ \A r \in Reconcilers : pc[r] \in ReconcilerPcs
    /\ on \in [Procs -> Intents \cup {NoIntent}]
    /\ ex \in [Executors -> ExecutorLocals]
    /\ rc \in [Reconcilers -> ReconcilerLocals]

BooksTypeOK ==
    /\ finalized \subseteq Intents
    /\ pnlApplied \subseteq Intents
    /\ daily \in [Intents -> Nat]
    /\ faults \in 0..MaxFaults

\* Type correctness of the whole system.
TypeOK == StoreTypeOK /\ ExchangeTypeOK /\ LocalsTypeOK /\ BooksTypeOK

Init ==
    /\ StoreInit
    /\ ExchangeInit
    /\ pc = [p \in Procs |-> "idle"]
    /\ on = [p \in Procs |-> NoIntent]
    /\ ex = [e \in Executors |-> FreshExecutor]
    /\ rc = [r \in Reconcilers |-> FreshReconciler]
    /\ finalized = {} /\ pnlApplied = {}
    /\ daily = [i \in Intents |-> 0]
    /\ faults = 0

-----------------------------------------------------------------------------
(* Idioms shared by the actions.                                           *)

At(p, l) == pc[p] = l /\ Ready(p)
Goto(p, l) == pc' = [pc EXCEPT ![p] = l]
Fault == faults < MaxFaults /\ faults' = faults + 1
NoFault == UNCHANGED faults

NoWrite == UNCHANGED storeVars
Write(p, state, flags) ==
    /\ BeginWrite(p, on[p], state, flags, "none")
    /\ UNCHANGED <<trade, index>>

\* An executor's step leaves the reconcilers' locals and the books alone.
ExecutorFrame == UNCHANGED <<on, rc, books>>

Local(e, new) == ex' = [ex EXCEPT ![e] = new]
Return(e, ret) == Goto(e, "done") /\ ex' = [ex EXCEPT ![e].ret = ret]
\* End the call with a last write.
Finish(e, state, flags, ret) == Write(e, state, flags) /\ Return(e, ret)
Position == {"unprotectedPosition"}

-----------------------------------------------------------------------------
(* The executor: from the claim to the entry order.                        *)

ClaimIntent(e, i) ==
    /\ At(e, "idle")
    /\ ClaimRow(i)
    /\ on' = [on EXCEPT ![e] = i]
    /\ BeginWrite(e, i, "APPROVED", {}, "none")
    /\ Goto(e, "reconcile")
    /\ UNCHANGED <<exchangeVars, ex, rc, books, faults>>

\* classifyDuplicateIntent
InFlightStates ==
    {"ENTRY_SUBMITTING", "ENTRY_ACCEPTED", "PARTIALLY_FILLED", "FILLED",
     "PROTECTION_PENDING", "PROTECTED"}

DuplicateIntent(e, i) ==
    /\ At(e, "idle")
    /\ trade[i].state # "NONE"
    /\ Return(e, IF trade[i].state \in InFlightStates THEN "RECONCILE" ELSE "DUPLICATE")
    /\ NoWrite /\ UNCHANGED exchangeVars /\ ExecutorFrame /\ NoFault

\* supabaseReadOnlyReconcile: an entry order must never be open before a buy.
EntryOpen == \E i \in Intents : buy[i].status \in OpenEntry

PassGate(e) ==
    /\ At(e, "reconcile")
    /\ ~EntryOpen
    /\ Goto(e, "buyQuery")
    /\ NoWrite /\ UNCHANGED <<exchangeVars, ex>> /\ ExecutorFrame /\ NoFault

\* A read that failed, a restricted account, an order nobody knows, or an open
\* entry blocks; every one but the last can happen in any state.
BlockAtGate(e) ==
    /\ At(e, "reconcile")
    /\ Finish(e, "FAILED_SAFE", {}, "RECONCILE")
    /\ UNCHANGED exchangeVars /\ ExecutorFrame /\ NoFault

\* No permission, too little balance, a filter: preTradeMarketBuy refuses.
RefusePreTrade(e) ==
    /\ At(e, "reconcile")
    /\ ~EntryOpen
    /\ Finish(e, "FAILED_SAFE", {}, "NO_POSITION")
    /\ UNCHANGED exchangeVars /\ ExecutorFrame /\ NoFault

\* A bug OrderIsOnRecord must catch: the order leaves before the row is written.
BuyQueryUnrecorded(e) ==
    /\ At(e, "buyQuery")
    /\ buy[on[e]].status = "ABSENT"
    /\ Goto(e, "buySend")
    /\ NoWrite /\ UNCHANGED <<exchangeVars, ex>> /\ ExecutorFrame /\ NoFault

\* placeBuy looks for its own order before it sends one.
BuyQuery(e) ==
    /\ At(e, "buyQuery")
    /\ \/ /\ buy[on[e]].status # "ABSENT"
          /\ Local(e, [ex[e] EXCEPT !.seen = buy[on[e]], !.polls = 0])
          /\ Goto(e, "settle") /\ NoWrite /\ NoFault
       \/ /\ buy[on[e]].status = "ABSENT"
          /\ Write(e, "ENTRY_SUBMITTING", {})
          /\ Goto(e, "buySend") /\ UNCHANGED ex /\ NoFault
       \/ Fault /\ Return(e, "RECONCILE") /\ NoWrite
    /\ UNCHANGED exchangeVars /\ ExecutorFrame

\* relay() may fail before anything leaves the worker.
BuySend(e) ==
    /\ At(e, "buySend")
    /\ \/ Send("buy", on[e]) /\ Goto(e, "buyWait") /\ UNCHANGED ex /\ NoFault
       \/ Fault /\ Return(e, "RECONCILE") /\ UNCHANGED exchangeVars
    /\ NoWrite /\ ExecutorFrame

BuyAccepted(e) ==
    /\ At(e, "buyWait")
    /\ net["buy"][on[e]] = "ok"
    /\ Local(e, [ex[e] EXCEPT !.seen = buy[on[e]], !.polls = 0])
    /\ Write(e, "ENTRY_ACCEPTED", {})
    /\ Goto(e, "settle")
    /\ UNCHANGED exchangeVars /\ ExecutorFrame /\ NoFault

BuyRejected(e) ==
    /\ At(e, "buyWait")
    /\ net["buy"][on[e]] = "reject"
    /\ Finish(e, "FAILED_SAFE", {}, "NO_POSITION")
    /\ UNCHANGED exchangeVars /\ ExecutorFrame /\ NoFault

\* A bug AnswerIsHonest must catch: a timeout is taken for a rejection.
BuyUnknownIsReject(e) ==
    /\ At(e, "buyWait")
    /\ Fault
    /\ GiveUp("buy", on[e])
    /\ Finish(e, "FAILED_SAFE", {}, "NO_POSITION")
    /\ ExecutorFrame

\* A timeout or 5xx is queried; a body that is none of ok, unknown and a
\* definite reject is reported at once.
BuyUnknown(e) ==
    /\ At(e, "buyWait")
    /\ Fault
    /\ GiveUp("buy", on[e])
    /\ \/ Goto(e, "buyRequery") /\ UNCHANGED ex
       \/ Return(e, "RECONCILE")
    /\ NoWrite /\ ExecutorFrame

\* A bug SingleEntry must catch: an order that does not show up is sent again.
BuyRequeryResends(e) ==
    /\ At(e, "buyRequery")
    /\ \/ /\ buy[on[e]].status # "ABSENT"
          /\ Local(e, [ex[e] EXCEPT !.seen = buy[on[e]], !.polls = 0])
          /\ Goto(e, "settle")
       \/ buy[on[e]].status = "ABSENT" /\ Goto(e, "buySend") /\ UNCHANGED ex
    /\ NoWrite /\ UNCHANGED exchangeVars /\ ExecutorFrame /\ NoFault

\* queryWithRetries after an unknown submission: BUY_SUBMISSION_UNKNOWN unless
\* the order shows up.
BuyRequery(e) ==
    /\ At(e, "buyRequery")
    /\ \/ /\ buy[on[e]].status # "ABSENT"
          /\ Local(e, [ex[e] EXCEPT !.seen = buy[on[e]], !.polls = 0])
          /\ Goto(e, "settle") /\ NoFault
       \/ buy[on[e]].status = "ABSENT" /\ Return(e, "RECONCILE") /\ NoFault
       \/ Fault /\ Return(e, "RECONCILE")
    /\ NoWrite /\ UNCHANGED exchangeVars /\ ExecutorFrame

-----------------------------------------------------------------------------
(* The executor: settleEntryOrder.                                         *)

\* A final entry order: go on with what it filled, or end without a position.
Settled(e, order) ==
    IF order.qty > 0
    THEN /\ Write(e, IF order.status = "FILLED" THEN "FILLED" ELSE "PARTIALLY_FILLED", {})
         /\ Goto(e, "filled")
         /\ Local(e, [ex[e] EXCEPT !.seen = order])
    ELSE Finish(e, "FAILED_SAFE", {}, "NO_POSITION")

\* A bug SaleFollowsFinalEntry must catch: the first fill counts as the last.
SettleFirstFill(e) ==
    /\ At(e, "settle")
    /\ ex[e].seen.status \in TerminalEntry \cup {"PARTIALLY_FILLED"}
    /\ Settled(e, ex[e].seen)
    /\ UNCHANGED exchangeVars /\ ExecutorFrame /\ NoFault

SettleFinal(e) ==
    /\ At(e, "settle")
    /\ ex[e].polls < SettleAttempts
    /\ ex[e].seen.status \in TerminalEntry
    /\ Settled(e, ex[e].seen)
    /\ UNCHANGED exchangeVars /\ ExecutorFrame /\ NoFault

\* One turn of the loop: the first turn only sleeps, the later ones query, and
\* from the third turn on a partial fill ends the waiting.
SettlePoll(e) ==
    /\ At(e, "settle")
    /\ ex[e].polls < SettleAttempts
    /\ ex[e].seen.status \notin TerminalEntry
    /\ \/ /\ LET order == IF ex[e].polls = 0 THEN ex[e].seen ELSE buy[on[e]]
             IN  /\ Local(e, [ex[e] EXCEPT !.seen = order, !.polls = @ + 1])
                 /\ Goto(e, IF order.status = "PARTIALLY_FILLED" /\ ex[e].polls >= 2
                            THEN "cancel" ELSE "settle")
          /\ NoFault
       \/ ex[e].polls > 0 /\ Fault /\ Return(e, "RECONCILE")
    /\ NoWrite /\ UNCHANGED exchangeVars /\ ExecutorFrame

\* The attempts are used up: the order read last is looked at only to decide
\* whether it is still open.
SettleExhausted(e) ==
    /\ At(e, "settle")
    /\ ex[e].polls = SettleAttempts
    /\ IF ex[e].seen.status \in OpenEntry
       THEN Goto(e, "cancel") /\ UNCHANGED ex
       ELSE Return(e, "RECONCILE")
    /\ NoWrite /\ UNCHANGED exchangeVars /\ ExecutorFrame /\ NoFault

\* cancelUnresolvedEntry: accepted and not-found both go on to the last query.
CancelRest(e) ==
    /\ At(e, "cancel")
    /\ \/ CancelEntry(on[e]) /\ Goto(e, "finalQuery") /\ UNCHANGED ex /\ NoFault
       \/ /\ Fault /\ Return(e, "RECONCILE")
          /\ CancelEntry(on[e]) \/ UNCHANGED exchangeVars
    /\ NoWrite /\ ExecutorFrame

FinalQuery(e) ==
    /\ At(e, "finalQuery")
    /\ \/ Settled(e, buy[on[e]]) /\ NoFault
       \/ Fault /\ Return(e, "RECONCILE") /\ NoWrite
    /\ UNCHANGED exchangeVars /\ ExecutorFrame

\* buySummary: the fill is written again with its net quantity, unless the
\* response carried no quantities.
Filled(e) ==
    /\ At(e, "filled")
    /\ \/ /\ Write(e, IF ex[e].seen.status = "FILLED" THEN "FILLED" ELSE "PARTIALLY_FILLED", {})
          /\ Goto(e, "normalize") /\ UNCHANGED ex /\ NoFault
       \/ Fault /\ Finish(e, "FAILED_SAFE", Position, "RECONCILE")
    /\ UNCHANGED exchangeVars /\ ExecutorFrame
-----------------------------------------------------------------------------
(* The executor: placeOco.                                                 *)

\* normalizeSpotProtection fits the OCO to the exchange filters, or fails.
Normalize(e) ==
    /\ At(e, "normalize")
    /\ \/ Write(e, "PROTECTION_PENDING", {"protectionIds"}) /\ Goto(e, "ocoQuery")
       \/ Write(e, "PROTECTION_PENDING", Position) /\ Goto(e, "emgQuery")
    /\ UNCHANGED <<exchangeVars, ex>> /\ ExecutorFrame /\ NoFault

OcoFound(e) ==
    /\ At(e, "ocoQuery") \/ At(e, "ocoRequery")
    /\ oco[on[e]] # "ABSENT"
    /\ Finish(e, "PROTECTED", {}, "OK")
    /\ UNCHANGED exchangeVars /\ ExecutorFrame /\ NoFault

OcoQuery(e) ==
    /\ At(e, "ocoQuery")
    /\ \/ /\ oco[on[e]] = "ABSENT"
          /\ Goto(e, "ocoSend") /\ NoWrite /\ UNCHANGED ex /\ NoFault
       \/ Fault /\ Finish(e, "PROTECTION_PENDING", {}, "RECONCILE")
    /\ UNCHANGED exchangeVars /\ ExecutorFrame

OcoSend(e) ==
    /\ At(e, "ocoSend")
    /\ \/ Send("oco", on[e]) /\ Goto(e, "ocoWait") /\ UNCHANGED ex /\ NoFault
       \/ /\ Fault /\ Goto(e, "ocoRequery")
          /\ Local(e, [ex[e] EXCEPT !.sent = "other"])
          /\ UNCHANGED exchangeVars
    /\ NoWrite /\ ExecutorFrame

OcoAccepted(e) ==
    /\ At(e, "ocoWait")
    /\ net["oco"][on[e]] = "ok"
    /\ Finish(e, "PROTECTED", {}, "OK")
    /\ UNCHANGED exchangeVars /\ ExecutorFrame /\ NoFault

OcoNotAccepted(e) ==
    /\ At(e, "ocoWait")
    /\ \/ /\ net["oco"][on[e]] = "reject"
          /\ Local(e, [ex[e] EXCEPT !.sent = "reject"])
          /\ UNCHANGED exchangeVars /\ NoFault
       \/ /\ Fault /\ GiveUp("oco", on[e])
          /\ \E answer \in {"unknown", "other"} :
                Local(e, [ex[e] EXCEPT !.sent = answer])
    /\ Goto(e, "ocoRequery")
    /\ NoWrite /\ ExecutorFrame

\* A bug ProtectedIsReal must catch: a failed read counts as a placed list.
OcoRequeryTrusts(e) ==
    /\ At(e, "ocoRequery")
    /\ \/ /\ oco[on[e]] = "ABSENT"
          /\ Goto(e, "emgQuery") /\ NoWrite /\ UNCHANGED ex /\ NoFault
       \/ Fault /\ Finish(e, "PROTECTED", {}, "OK")
    /\ UNCHANGED exchangeVars /\ ExecutorFrame

\* A bug EveryCallEnds must catch: the list is sent again until it is there.
OcoRequeryRetries(e) ==
    /\ At(e, "ocoRequery")
    /\ oco[on[e]] = "ABSENT"
    /\ Goto(e, "ocoSend")
    /\ NoWrite /\ UNCHANGED <<exchangeVars, ex>> /\ ExecutorFrame /\ NoFault

\* The list is not there: a definite reject, or its absence confirmed by every
\* retry, makes it safe to close; anything else is left for reconciliation.
OcoRequery(e) ==
    /\ At(e, "ocoRequery")
    /\ \/ /\ oco[on[e]] = "ABSENT"
          /\ Goto(e, "emgQuery") /\ NoWrite /\ UNCHANGED ex /\ NoFault
       \/ /\ Fault
          /\ IF ex[e].sent = "reject"
             THEN Goto(e, "emgQuery") /\ NoWrite /\ UNCHANGED ex
             ELSE Finish(e, "PROTECTION_PENDING", {}, "RECONCILE")
    /\ UNCHANGED exchangeVars /\ ExecutorFrame

-----------------------------------------------------------------------------
(* The executor: emergencyClose.                                           *)

Closed(e) == Finish(e, "FAILED_SAFE", {"emergencyClosed"}, "OK")
LeftOpen(e) == Finish(e, "FAILED_SAFE", Position, "RECONCILE")

\* A sale that exists is trusted only when it is FILLED.  After a failed
\* normalisation (no OCO was sent) a partial fill may be too small to sell.
EmgQuery(e) ==
    /\ At(e, "emgQuery")
    /\ \/ emg[on[e]] = "FILLED" /\ Closed(e) /\ NoFault
       \/ emg[on[e]] = "EXPIRED" /\ LeftOpen(e) /\ NoFault
       \/ /\ emg[on[e]] = "ABSENT"
          /\ Goto(e, "emgSend") /\ NoWrite /\ UNCHANGED ex /\ NoFault
       \/ ex[e].sent = "none" /\ ex[e].seen.qty < Lot /\ LeftOpen(e) /\ NoFault
       \/ Fault /\ LeftOpen(e)
    /\ UNCHANGED exchangeVars /\ ExecutorFrame

EmgSend(e) ==
    /\ At(e, "emgSend")
    /\ \/ Send("emg", on[e]) /\ Goto(e, "emgWait") /\ NoFault
       \/ Fault /\ Goto(e, "emgRequery") /\ UNCHANGED exchangeVars
    /\ NoWrite /\ UNCHANGED ex /\ ExecutorFrame

\* An accepted sale counts as closed whatever status the response carries.
EmgAccepted(e) ==
    /\ At(e, "emgWait")
    /\ net["emg"][on[e]] = "ok"
    /\ Closed(e)
    /\ UNCHANGED exchangeVars /\ ExecutorFrame /\ NoFault

EmgNotAccepted(e) ==
    /\ At(e, "emgWait")
    /\ \/ net["emg"][on[e]] = "reject" /\ UNCHANGED exchangeVars /\ NoFault
       \/ Fault /\ GiveUp("emg", on[e])
    /\ Goto(e, "emgRequery")
    /\ NoWrite /\ UNCHANGED ex /\ ExecutorFrame

\* A bug EmergencyIsFlat must catch: any sale that exists, or none, is enough.
EmgRequeryHopes(e) ==
    /\ At(e, "emgRequery")
    /\ Closed(e)
    /\ UNCHANGED exchangeVars /\ ExecutorFrame /\ NoFault

EmgRequery(e) ==
    /\ At(e, "emgRequery")
    /\ \/ emg[on[e]] = "FILLED" /\ Closed(e) /\ NoFault
       \/ emg[on[e]] # "FILLED" /\ LeftOpen(e) /\ NoFault
       \/ Fault /\ LeftOpen(e)
    /\ UNCHANGED exchangeVars /\ ExecutorFrame

ExecutorStep(e) ==
    \/ \E i \in Intents : ClaimIntent(e, i) \/ DuplicateIntent(e, i)
    \/ PassGate(e) \/ BlockAtGate(e) \/ RefusePreTrade(e)
    \/ BuyQuery(e) \/ BuySend(e) \/ BuyAccepted(e) \/ BuyRejected(e)
    \/ BuyUnknown(e) \/ BuyRequery(e)
    \/ SettleFinal(e) \/ SettlePoll(e) \/ SettleExhausted(e)
    \/ CancelRest(e) \/ FinalQuery(e) \/ Filled(e) \/ Normalize(e)
    \/ OcoFound(e) \/ OcoQuery(e) \/ OcoSend(e) \/ OcoAccepted(e)
    \/ OcoNotAccepted(e) \/ OcoRequery(e)
    \/ EmgQuery(e) \/ EmgSend(e) \/ EmgAccepted(e) \/ EmgNotAccepted(e)
    \/ EmgRequery(e)

-----------------------------------------------------------------------------
(* The reconciler: supabaseReconcileActiveTrades.                          *)

\* A reconciler's step leaves the exchange and the executors' locals alone.
ReconcilerFrame == UNCHANGED <<exchangeVars, ex>>

StartRun(r) ==
    /\ At(r, "idle")
    /\ index # <<>>
    /\ rc' = [rc EXCEPT ![r].todo = index]
    /\ Goto(r, "next")
    /\ NoWrite /\ UNCHANGED <<on, books>> /\ ReconcilerFrame /\ NoFault

NextIntent(r) ==
    /\ At(r, "next")
    /\ LET todo == rc[r].todo IN
       IF todo = <<>>
       THEN /\ Goto(r, "idle")
            /\ on' = [on EXCEPT ![r] = NoIntent]
            /\ rc' = [rc EXCEPT ![r] = FreshReconciler]
       ELSE /\ Goto(r, "row")
            /\ on' = [on EXCEPT ![r] = Head(todo)]
            /\ rc' = [rc EXCEPT ![r] = [FreshReconciler EXCEPT !.todo = Tail(todo)]]
    /\ NoWrite /\ UNCHANGED books /\ ReconcilerFrame /\ NoFault

\* A bug ExitIsBooked must catch: one state is missing from the list.
ReconcilableButProtected ==
    {"PROTECTION_PENDING", "FILLED", "PARTIALLY_FILLED", "FAILED_SAFE"}

\* supabaseReconcileTradeByIntent looks at these states only.
Reconcilable ==
    {"PROTECTED", "PROTECTION_PENDING", "FILLED", "PARTIALLY_FILLED", "FAILED_SAFE"}

ReadRow(r) ==
    /\ At(r, "row")
    /\ LET row == trade[on[r]] IN
       IF row.state \in Reconcilable
       THEN /\ rc' = [rc EXCEPT ![r].row = row,
                                ![r].snap = IF "protectionIds" \in row.flags
                                            THEN Unread ELSE UnreadNoIds]
            /\ Goto(r, "reads")
       ELSE UNCHANGED rc /\ Goto(r, "next")
    /\ NoWrite /\ UNCHANGED <<on, books>> /\ ReconcilerFrame /\ NoFault

\* The four reads of Promise.all, in any order.
ReadOne(r, seen, snap) ==
    /\ At(r, "reads")
    /\ seen = "unread"
    /\ rc' = [rc EXCEPT ![r].snap = snap]
    /\ NoWrite /\ UNCHANGED <<pc, on, books>> /\ ReconcilerFrame /\ NoFault

ReadExchange(r) ==
    LET snap == rc[r].snap IN
    \/ ReadOne(r, snap.list, [snap EXCEPT !.list = ListStatus(on[r])])
    \/ ReadOne(r, snap.tp, [snap EXCEPT !.tp = LegStatus(on[r], "TP")])
    \/ ReadOne(r, snap.sl, [snap EXCEPT !.sl = LegStatus(on[r], "SL")])
    \/ ReadOne(r, snap.base, [snap EXCEPT !.base = BaseBalance(on[r])])

\* EXIT_RECONCILIATION_UNKNOWN
ReadFails(r) ==
    /\ At(r, "reads")
    /\ Fault
    /\ Goto(r, "next")
    /\ NoWrite /\ UNCHANGED <<on, rc, books>> /\ ReconcilerFrame

AllRead(r) == \A f \in DOMAIN rc[r].snap : rc[r].snap[f] # "unread"

Matched(snap) == "FILLED" \in {snap.tp, snap.sl}

\* A bug OwnExitIsPriced must catch: a leg read before it filled counts as gone.
NotMatched(snap) == snap.list = "ALL_DONE" /\ ~Matched(snap)

ProtectionGone(snap) ==
    snap.list = "ALL_DONE" /\ {snap.tp, snap.sl} \subseteq {"ABSENT", "CANCELED"}

\* A bug ExitedIsFlat must catch: the balance is not looked at.
PositionAssumedGone(snap) == snap.base \in {"dust", "held"}

\* baseTotal < trackedQty*0.2
PositionGone(snap) == snap.base = "dust"

Decide(r) ==
    LET row  == rc[r].row
        snap == rc[r].snap
        flagged == row.state = "FAILED_SAFE" /\ "unprotectedPosition" \in row.flags
        External == BeginWrite(r, on[r], "EXITED", {}, "external")
        Lost == BeginWrite(r, on[r], "FAILED_SAFE", Position, "none")
    IN
    /\ At(r, "reads")
    /\ AllRead(r)
    /\ \/ /\ snap.list = "EXECUTING"
          /\ Goto(r, "next") /\ UNCHANGED w
       \/ /\ snap.list # "EXECUTING" /\ flagged
          /\ Goto(r, "next")
          /\ IF PositionGone(snap) THEN External ELSE UNCHANGED w
       \/ /\ snap.list # "EXECUTING" /\ ~flagged /\ Matched(snap)
          /\ Goto(r, "trades") /\ UNCHANGED w
       \/ /\ snap.list # "EXECUTING" /\ ~flagged /\ ~Matched(snap)
          /\ Goto(r, "next")
          /\ IF ~ProtectionGone(snap) THEN UNCHANGED w
             ELSE IF PositionGone(snap) THEN External ELSE Lost
    /\ UNCHANGED <<trade, index, on, rc, books>> /\ ReconcilerFrame /\ NoFault

\* tradesForOrder twice; a failed read counts as a list without trades.
ReadTrades(r) ==
    /\ At(r, "trades")
    /\ \/ rc' = [rc EXCEPT ![r].pnl = "exact"] /\ NoFault
       \/ rc' = [rc EXCEPT ![r].pnl = "inexact"] /\ Fault
    /\ Goto(r, "lock")
    /\ NoWrite /\ UNCHANGED <<on, books>> /\ ReconcilerFrame

\* A bug PnlAtMostOnce and ExitIsCounted must catch: every claim succeeds.
ClaimableAgain(keys, i) == keys \subseteq Intents /\ i \in Intents

\* claimStateKey succeeds once per key.
Claimable(keys, i) == i \notin keys

ClaimFinalize(r) ==
    /\ At(r, "lock")
    /\ Goto(r, IF Claimable(finalized, on[r]) THEN "pnlClaim" ELSE "next")
    /\ finalized' = finalized \cup {on[r]}
    /\ NoWrite /\ UNCHANGED <<on, rc, pnlApplied, daily>> /\ ReconcilerFrame /\ NoFault

WriteExit(r) ==
    /\ BeginWrite(r, on[r], "EXITED", {}, rc[r].pnl)
    /\ UNCHANGED <<trade, index>>
    /\ Goto(r, "next")

\* applyDailyRealizedPnlOnce: a claim, then a get and a put of the daily row.
ClaimPnl(r) ==
    /\ At(r, "pnlClaim")
    /\ IF Claimable(pnlApplied, on[r])
       THEN Goto(r, "dailyGet") /\ NoWrite /\ pnlApplied' = pnlApplied \cup {on[r]}
       ELSE WriteExit(r) /\ UNCHANGED pnlApplied
    /\ UNCHANGED <<on, rc, finalized, daily>> /\ ReconcilerFrame /\ NoFault

DailyGet(r) ==
    /\ At(r, "dailyGet")
    /\ rc' = [rc EXCEPT ![r].daily = daily]
    /\ Goto(r, "dailyPut")
    /\ NoWrite /\ UNCHANGED <<on, books>> /\ ReconcilerFrame /\ NoFault

DailyPut(r) ==
    /\ At(r, "dailyPut")
    /\ daily' = [rc[r].daily EXCEPT ![on[r]] = @ + 1]
    /\ WriteExit(r)
    /\ UNCHANGED <<on, rc, finalized, pnlApplied>> /\ ReconcilerFrame /\ NoFault

ReconcilerStep(r) ==
    \/ StartRun(r) \/ NextIntent(r) \/ ReadRow(r)
    \/ ReadExchange(r) \/ ReadFails(r) \/ Decide(r)
    \/ ReadTrades(r) \/ ClaimFinalize(r) \/ ClaimPnl(r)
    \/ DailyGet(r) \/ DailyPut(r)

-----------------------------------------------------------------------------
(* Steps every process shares, and the whole system.                       *)

WriteStep(p) ==
    StoreStep(p) /\ UNCHANGED <<exchangeVars, locals, books, faults>>

\* Leave the running call: the executor's caller gets the exception, the
\* reconciler's whole run is over.
Unwind(p, last, ret) ==
    /\ DropWrite(p)
    /\ pc' = [pc EXCEPT ![p] = IF p \in Executors THEN last ELSE "idle"]
    /\ on' = [on EXCEPT ![p] = IF p \in Executors THEN @ ELSE NoIntent]
    /\ ex' = [x \in Executors |-> IF x = p THEN [ex[x] EXCEPT !.ret = ret] ELSE ex[x]]
    /\ rc' = [r \in Reconcilers |-> IF r = p THEN FreshReconciler ELSE rc[r]]
    /\ UNCHANGED <<exchangeVars, books>>

\* TRADE_ALREADY_EXITED or TRADE_FAILED_SAFE_LOCKED
WriteRefused(p) ==
    /\ w[p].step = "get"
    /\ Refused(trade[w[p].intent], w[p].row.state)
    /\ Unwind(p, "done", "THROWN")
    /\ NoFault

\* The worker dies, or a store call fails: nothing in the executor catches it.
Crash(p) ==
    /\ pc[p] \notin {"idle", "done", "crashed"} \/ ~Ready(p)
    /\ Fault
    /\ Unwind(p, "crashed", "none")

Environment(i) == ExchangeStep(i) /\ UNCHANGED <<storeVars, locals, books, faults>>

Next ==
    \/ \E e \in Executors : ExecutorStep(e)
    \/ \E r \in Reconcilers : ReconcilerStep(r)
    \/ \E p \in Procs : WriteStep(p) \/ WriteRefused(p) \/ Crash(p)
    \/ \E i \in Intents : Environment(i)

Spec == Init /\ [][Next]_vars
=============================================================================
