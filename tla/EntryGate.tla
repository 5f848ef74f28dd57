------------------------------ MODULE EntryGate ------------------------------
(***************************************************************************)
(* From a proposal to a buy: the Telegram approval of                      *)
(* src/src/buy-gateway-stable.js, the cron that offers proposals and       *)
(* reconciles open trades, and the supervisor's watchdog and /go-no-go     *)
(* page, which clear the blocks the gate looks at.                         *)
(*                                                                         *)
(* A handler is one CONFIRM callback.  The executor it calls is module     *)
(* LiveTrade; here it is one call with the answers that module has.  Every *)
(* await that another invocation can interleave with separates two steps.  *)
(* Keys expire by their TTL: the order in which they may expire is kept,   *)
(* the time itself is not.                                                 *)
(***************************************************************************)
EXTENDS Naturals, FiniteSets

CONSTANTS
    Signals,            \* ids of proposals, one symbol each
    Handlers,           \* CONFIRM callbacks, duplicates and redeliveries included
    MaxOpenPositions,   \* policy.maxOpenPositions (at most 1 in the code)
    MaxGateFaults,      \* bound: failed reads, store calls that throw, dead workers
    PageOpened          \* whether somebody opens /go-no-go

ASSUME EntryGateAssumption ==
    /\ IsFiniteSet(Signals)
    /\ MaxOpenPositions \in Nat
    /\ MaxGateFaults \in Nat
    /\ PageOpened \in BOOLEAN

VARIABLES
    offer,          \* signal -> "new", "live" or "over": expired, or never offered
    prepared,       \* signals with an unexpired prepared:<id>
    lock,           \* signals with an unexpired execution-lock:<id>
    paused,         \* live:admin-pause
    unknown,        \* live:unknown-orders is not empty
    unprotected,    \* live:unprotected-positions is not empty
    trade,          \* signal -> its trade, as the executor and Binance leave it
    pc,             \* handler -> its next step
    on,             \* handler -> the signal it confirms
    lost,           \* losses a run of the reconciler found and did not report yet
    page,           \* the running /go-no-go request
    gateFaults,
    warned,         \* bare positions the owner was told of (notify:protection-lost)
    since,          \* history: what held ever since a handler's CONFIRM was pressed
    calls           \* history: how often the executor was called for a signal

keys == <<offer, prepared, lock>>
blocks == <<paused, unknown, unprotected>>
gateVars == <<keys, blocks, trade, pc, on, lost, page, gateFaults, warned,
              since, calls>>

Offers == {"new", "live", "over"}
Trades == {"NONE", "CLAIMED", "ORDERED", "FILLED", "PROTECTED", "BARE", "CLOSED"}
Exposed == {"ORDERED", "FILLED", "PROTECTED", "BARE"}

\* "noPosition", "bought" and "closed" are the answers of the executor that the
\* owner is about to be told.
HandlerPcs == {"idle", "lock", "gate", "gateExchange", "preflight", "intent",
               "preEntry", "buy", "executing", "flag", "noPosition", "bought", "closed"}

NoSignal == "none"
\* What a /go-no-go request read: all clean, an open entry order, or nothing.
Pages == {"idle", "clean", "entry", "failed"}

Conditions == [paused : BOOLEAN, unknown : BOOLEAN, unprotected : BOOLEAN,
               held : SUBSET Signals, bare : SUBSET Signals]

\* Type correctness of the gate.
GateTypeOK ==
    /\ offer \in [Signals -> Offers]
    /\ prepared \subseteq Signals /\ lock \subseteq Signals
    /\ paused \in BOOLEAN /\ unknown \in BOOLEAN /\ unprotected \in BOOLEAN
    /\ trade \in [Signals -> Trades]
    /\ pc \in [Handlers -> HandlerPcs]
    /\ on \in [Handlers -> Signals \cup {NoSignal}]
    /\ lost \subseteq Signals /\ page \in Pages
    /\ gateFaults \in 0..MaxGateFaults
    /\ since \in [Handlers -> Conditions]
    /\ calls \in [Signals -> Nat]
    /\ warned \subseteq Signals

Held == {s \in Signals : trade[s] = "PROTECTED"}
WarnedBare == {s \in warned : trade[s] = "BARE"}
Now == [paused |-> paused, unknown |-> unknown, unprotected |-> unprotected,
        held |-> Held, bare |-> WarnedBare]
Calm == [paused |-> FALSE, unknown |-> FALSE, unprotected |-> FALSE,
         held |-> {}, bare |-> {}]

GateInit ==
    /\ offer = [s \in Signals |-> "new"]
    /\ prepared = {} /\ lock = {}
    /\ paused = FALSE /\ unknown = FALSE /\ unprotected = FALSE
    /\ trade = [s \in Signals |-> "NONE"]
    /\ pc = [h \in Handlers |-> "idle"]
    /\ on = [h \in Handlers |-> NoSignal]
    /\ lost = {} /\ page = "idle"
    /\ gateFaults = 0
    /\ since = [h \in Handlers |-> Calm]
    /\ calls = [s \in Signals |-> 0]
    /\ warned = {}

GateFault == gateFaults < MaxGateFaults /\ gateFaults' = gateFaults + 1
NoGateFault == UNCHANGED gateFaults

\* History: what has held in every state since a CONFIRM was pressed.
BeforeBuy == {"lock", "gate", "gateExchange", "preflight", "intent", "preEntry", "buy"}
Observe ==
    since' = [h \in Handlers |->
        IF pc'[h] \notin BeforeBuy THEN Calm
        ELSE IF pc[h] = "idle" THEN Now'
        ELSE [paused |-> since[h].paused /\ paused',
              unknown |-> since[h].unknown /\ unknown',
              unprotected |-> since[h].unprotected /\ unprotected',
              held |-> since[h].held \cap Held',
              bare |-> since[h].bare \cap WarnedBare']]

-----------------------------------------------------------------------------
(* The gate, shared by CONFIRM, the offer and every other entry path.      *)

\* A bug SteadyBlockHolds must catch: the pause is not looked at.
StateBlocksUnlessPaused == unknown \/ unprotected

\* executionOperational, the eight parallel store reads.  The kill switch, the
\* daily loss cap and a store read that throws may refuse in any state.
StateBlocks == paused \/ unknown \/ unprotected

\* The live read of executionReadOnlyReconcile: it counts complete OCO lists,
\* and is not ok while an entry order is open.  A position without a list has
\* no open order: nothing here sees it.
EntryOrderOpen == \E s \in Signals : trade[s] = "ORDERED"
CapacityOk == Cardinality(Held) < MaxOpenPositions
ExchangeBlocks == EntryOrderOpen \/ ~CapacityOk

-----------------------------------------------------------------------------
(* CONFIRM, handleTelegramWebhook.                                         *)

\* A handler's step leaves what belongs to the other actors alone.
Step(h, l) == pc' = [pc EXCEPT ![h] = l] /\ UNCHANGED on
End(h) == pc' = [pc EXCEPT ![h] = "idle"] /\ on' = [on EXCEPT ![h] = NoSignal]
Others == UNCHANGED <<offer, paused, unprotected, lost, page, warned>> /\ Observe
Quiet == UNCHANGED <<prepared, lock, unknown, calls>> /\ Others

\* The prepared offer is read; without one the owner is told "Expired".
Confirm(h, s) ==
    /\ pc[h] = "idle" /\ s \in prepared
    /\ on' = [on EXCEPT ![h] = s]
    /\ pc' = [pc EXCEPT ![h] = "lock"]
    /\ UNCHANGED trade /\ Quiet /\ NoGateFault

\* The execution lock: one CONFIRM at a time goes on, another one is told
\* "Already confirmed".
ClaimLock(h) ==
    /\ pc[h] = "lock"
    /\ lock' = lock \cup {on[h]}
    /\ IF on[h] \in lock THEN End(h) ELSE Step(h, "gate")
    /\ UNCHANGED <<trade, prepared, unknown, calls>> /\ Others /\ NoGateFault

GateState(h) ==
    /\ pc[h] = "gate"
    /\ End(h) \/ (~StateBlocks /\ Step(h, "gateExchange"))
    /\ UNCHANGED trade /\ Quiet /\ NoGateFault

GateExchange(h) ==
    /\ pc[h] = "gateExchange"
    /\ End(h) \/ (~ExchangeBlocks /\ Step(h, "preflight"))
    /\ UNCHANGED trade /\ Quiet /\ NoGateFault

\* A bug ExecutorCalledOnce must catch: the age of the signal is not checked.
PreflightAnyAge(h) ==
    /\ pc[h] = "preflight"
    /\ End(h) \/ Step(h, "intent")
    /\ UNCHANGED trade /\ Quiet /\ NoGateFault

\* Route, age of the signal, geometry, pair, price, balance and size; all but
\* the age may refuse in any state.
Preflight(h) ==
    /\ pc[h] = "preflight"
    /\ End(h) \/ (offer[on[h]] = "live" /\ Step(h, "intent"))
    /\ UNCHANGED trade /\ Quiet /\ NoGateFault

\* The executor is called, and claims the intent.  An intent that is claimed
\* already asks for a reconciliation only while its trade is in flight.
CallExecutor(h) ==
    /\ pc[h] = "intent"
    /\ calls' = [calls EXCEPT ![on[h]] = @ + 1]
    /\ IF trade[on[h]] = "NONE"
       THEN trade' = [trade EXCEPT ![on[h]] = "CLAIMED"] /\ Step(h, "preEntry")
       ELSE /\ UNCHANGED trade
            /\ Step(h, IF trade[on[h]] \in Exposed \ {"BARE"} THEN "flag" ELSE "noPosition")
    /\ UNCHANGED <<prepared, lock, unknown>> /\ Others /\ NoGateFault

\* The executor's own reconciliation before the entry, and preTradeMarketBuy.
PreEntry(h) ==
    /\ pc[h] = "preEntry"
    /\ \/ ~EntryOrderOpen /\ Step(h, "buy") /\ UNCHANGED trade
       \/ /\ Step(h, "flag") \/ (~EntryOrderOpen /\ Step(h, "noPosition"))
          /\ trade' = [trade EXCEPT ![on[h]] = "CLOSED"]
    /\ Quiet /\ NoGateFault

Buy(h) ==
    /\ pc[h] = "buy"
    /\ trade' = [trade EXCEPT ![on[h]] = "ORDERED"]
    /\ Step(h, "executing")
    /\ Quiet /\ NoGateFault

\* A bug RefusalIsFlat must catch: an answer that asks for a reconciliation is
\* taken for "no position".
ExecutorAnswersLoosely(h) ==
    /\ pc[h] = "executing"
    /\ Step(h, "noPosition") /\ UNCHANGED trade
    /\ Quiet /\ NoGateFault

\* The answers of manualBuyAndProtectViaSupabase: protected, closed at once,
\* left without protection, lost from sight, no position.
ExecutorAnswers(h) ==
    /\ pc[h] = "executing"
    /\ \/ /\ trade[on[h]] = "FILLED"
          /\ \/ trade' = [trade EXCEPT ![on[h]] = "PROTECTED"] /\ Step(h, "bought")
             \/ trade' = [trade EXCEPT ![on[h]] = "CLOSED"] /\ Step(h, "closed")
             \/ trade' = [trade EXCEPT ![on[h]] = "BARE"] /\ Step(h, "flag")
       \/ /\ trade[on[h]] \in {"ORDERED", "FILLED"}
          /\ Step(h, "flag") /\ UNCHANGED trade
       \/ trade[on[h]] = "CLOSED" /\ Step(h, "noPosition") /\ UNCHANGED trade
    /\ Quiet /\ NoGateFault

\* A bug LostFromSightBlocks must catch: the owner is told, nothing is recorded.
FlagUnknownUnrecorded(h) ==
    /\ pc[h] = "flag"
    /\ End(h)
    /\ UNCHANGED trade /\ Quiet /\ NoGateFault

\* reconciliationRequired: a row is appended to live:unknown-orders, and the
\* owner is told "BUY failed" with RECONCILIATION_REQUIRED.
FlagUnknown(h) ==
    /\ pc[h] = "flag"
    /\ unknown' = TRUE
    /\ End(h)
    /\ UNCHANGED <<trade, prepared, lock, calls>> /\ Others /\ NoGateFault

\* A success is stored and withdraws the offer; after "BUY failed" the lock and
\* the offer stay.
Tell(h) ==
    /\ pc[h] \in {"bought", "closed", "noPosition"}
    /\ prepared' = IF pc[h] = "noPosition" THEN prepared ELSE prepared \ {on[h]}
    /\ End(h)
    /\ UNCHANGED <<trade, lock, unknown, calls>> /\ Others /\ NoGateFault

\* A store or Telegram call throws, or the worker dies, wherever the handler is.
\* Inside the try block the owner is told "BUY failed", whatever was done.
Throws(h) ==
    /\ pc[h] # "idle"
    /\ GateFault
    /\ End(h)
    /\ UNCHANGED trade /\ Quiet

HandlerStep(h) ==
    \/ ClaimLock(h) \/ GateState(h) \/ GateExchange(h) \/ Preflight(h)
    \/ CallExecutor(h) \/ PreEntry(h) \/ Buy(h) \/ ExecutorAnswers(h)
    \/ FlagUnknown(h) \/ Tell(h)

-----------------------------------------------------------------------------
(* The gateway's scheduled(): reconcile the open trades, offer the latest   *)
(* candidate.                                                               *)

CronFrame ==
    UNCHANGED <<lock, paused, trade, pc, on, page, calls>> /\ Observe
CronQuiet == UNCHANGED <<offer, prepared>>

\* One run of the live reconciler: every run finds a bare position again.
CronReconcile ==
    /\ lost = {}
    /\ lost' = {s \in Signals : trade[s] = "BARE"}
    /\ UNCHANGED <<unknown, unprotected, warned>> /\ CronQuiet /\ CronFrame /\ NoGateFault

\* A failed read of an active trade is put into live:unknown-orders.
CronUnread ==
    /\ lost = {}
    /\ \E s \in Signals : trade[s] \in {"FILLED", "PROTECTED", "BARE"}
    /\ GateFault
    /\ unknown' = TRUE
    /\ UNCHANGED <<lost, unprotected, warned>> /\ CronQuiet /\ CronFrame

\* A bug LossIsReflagged must catch: only the first report of a loss blocks.
CronReportOnce ==
    /\ lost # {}
    /\ unprotected' = (unprotected \/ lost \ warned # {})
    /\ warned' = warned \cup lost
    /\ lost' = {}
    /\ UNCHANGED unknown /\ CronQuiet /\ CronFrame /\ NoGateFault

\* The block first, then "New entries are blocked" to the owner, once.
CronReport ==
    /\ lost # {}
    /\ unprotected' = TRUE
    /\ warned' = warned \cup {s \in lost : trade[s] = "BARE"}
    /\ lost' = {}
    /\ UNCHANGED unknown /\ CronQuiet /\ CronFrame /\ NoGateFault

\* reconcileActiveLiveTrades(env).catch(() => {}): nothing is reported.
CronThrows ==
    /\ lost # {}
    /\ GateFault
    /\ lost' = {}
    /\ UNCHANGED <<unknown, unprotected, warned>> /\ CronQuiet /\ CronFrame

\* offerLatestCandidateForManualApproval: the prompt lock of the candidate is
\* claimed before the gate is asked, and is not given back when the gate refuses
\* or the size is below the minimum.
OfferRefused(s) ==
    /\ offer[s] = "new"
    /\ offer' = [offer EXCEPT ![s] = "over"]
    /\ UNCHANGED <<prepared, unknown, unprotected, warned, lost>> /\ CronFrame /\ NoGateFault

\* handleFastSignalIngest: the proposal with its CONFIRM button.  The gate is
\* asked again by CONFIRM, so that here its reads are one step.  An id is offered
\* once: a request repeated with the same id would renew the signal and its key
\* past the execution lock, and the executor's claim alone would stop a second
\* call.
OfferMade(s) ==
    /\ offer[s] = "new"
    /\ ~StateBlocks /\ ~ExchangeBlocks
    /\ offer' = [offer EXCEPT ![s] = "live"]
    /\ prepared' = prepared \cup {s}
    /\ UNCHANGED <<unknown, unprotected, warned, lost>> /\ CronFrame /\ NoGateFault

CronStep == CronReconcile \/ CronReport

-----------------------------------------------------------------------------
(* The other callbacks and messages of the owner.                          *)

OwnerFrame == UNCHANGED <<offer, lock, unknown, unprotected, trade, pc, on,
                          lost, page, warned, calls, gateFaults>> /\ Observe

\* PREP needs the live signal, and renews the offer.
Prepare(s) ==
    /\ offer[s] = "live"
    /\ prepared' = prepared \cup {s}
    /\ UNCHANGED paused /\ OwnerFrame

Cancel(s) ==
    /\ s \in prepared
    /\ prepared' = prepared \ {s}
    /\ UNCHANGED paused /\ OwnerFrame

\* PAUSE LIVE TRADING.
Pause ==
    /\ paused' = TRUE
    /\ UNCHANGED prepared /\ OwnerFrame

\* RESUME LIMITED LIVE.
Resume ==
    /\ paused /\ ~unknown /\ ~unprotected
    /\ paused' = FALSE
    /\ UNCHANGED prepared /\ OwnerFrame

-----------------------------------------------------------------------------
(* The supervisor.                                                         *)

SupervisorFrame == UNCHANGED <<keys, paused, trade, pc, on, lost, warned, calls>> /\ Observe

\* The watchdog of the supervisor's scheduled(), which does not wait for the
\* gateway's: it clears the block unless orphanBotOrders is positive, and
\* executionReadOnlyReconcile has no such field.
Watchdog ==
    /\ unprotected' = FALSE
    /\ UNCHANGED <<unknown, page>> /\ SupervisorFrame /\ NoGateFault

\* GET /go-no-go reads Binance, then puts both blocks.
PageRead ==
    /\ PageOpened /\ page = "idle"
    /\ \/ page' = (IF EntryOrderOpen THEN "entry" ELSE "clean") /\ NoGateFault
       \/ page' = "failed" /\ GateFault
    /\ UNCHANGED <<unknown, unprotected>> /\ SupervisorFrame

PagePut ==
    /\ page # "idle"
    /\ unknown' = (page = "failed")
    /\ unprotected' = (page # "clean")
    /\ page' = "idle"
    /\ SupervisorFrame /\ NoGateFault

-----------------------------------------------------------------------------
(* Time, Binance and the owner's own trading.                              *)

WorldFrame == UNCHANGED <<blocks, pc, on, lost, page, calls, gateFaults>> /\ Observe

PreparedExpires(s) ==
    /\ s \in prepared
    /\ prepared' = prepared \ {s}
    /\ UNCHANGED <<offer, lock, trade, warned>> /\ WorldFrame

SignalExpires(s) ==
    /\ offer[s] = "live"
    /\ offer' = [offer EXCEPT ![s] = "over"]
    /\ UNCHANGED <<prepared, lock, trade, warned>> /\ WorldFrame

\* A bug ExecutorCalledOnce must catch: a lock that outlives nothing.
LockExpiresEarly(s) ==
    /\ s \in lock
    /\ lock' = lock \ {s}
    /\ UNCHANGED <<offer, prepared, trade, warned>> /\ WorldFrame

\* The lock and the signal have the same TTL and the signal was put first.
LockExpires(s) ==
    /\ s \in lock /\ offer[s] = "over"
    /\ lock' = lock \ {s}
    /\ UNCHANGED <<offer, prepared, trade, warned>> /\ WorldFrame

Moves(s, from, to) ==
    /\ trade[s] = from /\ trade' = [trade EXCEPT ![s] = to]
    /\ warned' = IF to = "CLOSED" THEN warned \ {s} ELSE warned
    /\ UNCHANGED keys /\ WorldFrame

EntryFills(s) == Moves(s, "ORDERED", "FILLED")
EntryFails(s) == Moves(s, "ORDERED", "CLOSED")
ListExecutes(s) == Moves(s, "PROTECTED", "CLOSED")
ListCancelled(s) == Moves(s, "PROTECTED", "BARE")
OwnerSells(s) == Moves(s, "BARE", "CLOSED")

World(s) ==
    \/ PreparedExpires(s) \/ SignalExpires(s) \/ LockExpires(s)
    \/ EntryFills(s) \/ EntryFails(s) \/ ListExecutes(s) \/ ListCancelled(s)
    \/ OwnerSells(s)

-----------------------------------------------------------------------------
GateNext ==
    \/ \E h \in Handlers :
          HandlerStep(h) \/ Throws(h) \/ (\E s \in Signals : Confirm(h, s))
    \/ CronStep \/ CronUnread \/ CronThrows
    \/ \E s \in Signals : OfferRefused(s) \/ OfferMade(s) \/ Prepare(s) \/ Cancel(s) \/ World(s)
    \/ Pause \/ Resume
    \/ Watchdog \/ PageRead \/ PagePut

GateSpec == GateInit /\ [][GateNext]_gateVars
\* The platform runs scheduled() every minute and a run goes on.
GateFairSpec == GateSpec /\ WF_gateVars(CronStep)
=============================================================================
