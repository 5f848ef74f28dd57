--------------------------- MODULE EntryGateProofs ----------------------------
(***************************************************************************)
(* Proofs about the approval path: for any number of proposals and of      *)
(* CONFIRM handlers, any limit of open positions and any number of faults. *)
(***************************************************************************)
EXTENDS EntryGateProperties, FiniteSetTheorems, TLAPS

-----------------------------------------------------------------------------
(* Type correctness.                                                       *)

\* A handler that is busy works on a proposal.
BusyOnSignal == \A h \in Handlers : pc[h] # "idle" => on[h] \in Signals

GateTypeInv == GateTypeOK /\ BusyOnSignal

\* GateTypeOK without the history: what the actions themselves have to keep.
ActorTypes ==
    /\ offer \in [Signals -> Offers]
    /\ prepared \subseteq Signals /\ lock \subseteq Signals
    /\ paused \in BOOLEAN /\ unknown \in BOOLEAN /\ unprotected \in BOOLEAN
    /\ trade \in [Signals -> Trades]
    /\ pc \in [Handlers -> HandlerPcs]
    /\ on \in [Handlers -> Signals \cup {NoSignal}]
    /\ lost \subseteq Signals /\ page \in Pages
    /\ gateFaults \in 0..MaxGateFaults
    /\ calls \in [Signals -> Nat]
    /\ warned \subseteq Signals

\* What an action does without the history.
Moved == ActorTypes' /\ BusyOnSignal' /\ Observe

\* The history stays well typed over any well-typed step.
LEMMA ObserveType ==
    ASSUME GateTypeOK, Moved
    PROVE  GateTypeInv'
<1>1. Calm \in Conditions BY DEF Calm, Conditions
<1>2. Now' \in Conditions
  BY DEF Now, Conditions, Held, WarnedBare, Moved, ActorTypes
<1>3. ASSUME NEW h \in Handlers
      PROVE  [paused |-> since[h].paused /\ paused',
              unknown |-> since[h].unknown /\ unknown',
              unprotected |-> since[h].unprotected /\ unprotected',
              held |-> since[h].held \cap Held',
              bare |-> since[h].bare \cap WarnedBare'] \in Conditions
  <2>1. since[h] \in Conditions BY DEF GateTypeOK
  <2>2. since[h].held \cap Held' \in SUBSET Signals
    BY <2>1 DEF Conditions
  <2>3. since[h].bare \cap WarnedBare' \in SUBSET Signals
    BY <2>1 DEF Conditions
  <2>4. /\ (since[h].paused /\ paused') \in BOOLEAN
        /\ (since[h].unknown /\ unknown') \in BOOLEAN
        /\ (since[h].unprotected /\ unprotected') \in BOOLEAN
    OBVIOUS
  <2> QED BY <2>2, <2>3, <2>4 DEF Conditions
<1>4. since' \in [Handlers -> Conditions]
  BY <1>1, <1>2, <1>3 DEF Moved, Observe
<1> QED BY <1>4 DEF Moved, ActorTypes, GateTypeOK, GateTypeInv

\* The two ways a handler's step ends.
LEMMA StepTypes ==
    ASSUME GateTypeInv, NEW h \in Handlers, pc[h] # "idle",
           (\E l \in HandlerPcs : Step(h, l)) \/ End(h)
    PROVE  /\ pc' \in [Handlers -> HandlerPcs]
           /\ on' \in [Handlers -> Signals \cup {NoSignal}]
           /\ BusyOnSignal'
BY DEF GateTypeInv, GateTypeOK, BusyOnSignal, Step, End, HandlerPcs

\* A step of a handler.
LEMMA HandlerTypes ==
    ASSUME GateTypeInv, EntryGateAssumption, NEW h \in Handlers, HandlerStep(h)
    PROVE  Moved
<1> USE DEF Quiet, Others, NoGateFault
<1>1. pc[h] # "idle" /\ on[h] \in Signals
  BY DEF HandlerStep, ClaimLock, GateState, GateExchange, Preflight, CallExecutor,
         PreEntry, Buy, ExecutorAnswers, FlagUnknown, Tell, GateTypeInv, BusyOnSignal
<1>2. (\E l \in HandlerPcs : Step(h, l)) \/ End(h)
  BY DEF HandlerStep, ClaimLock, GateState, GateExchange, Preflight, CallExecutor,
         PreEntry, Buy, ExecutorAnswers, FlagUnknown, Tell, HandlerPcs
<1>3. /\ pc' \in [Handlers -> HandlerPcs]
      /\ on' \in [Handlers -> Signals \cup {NoSignal}]
      /\ BusyOnSignal'
  BY <1>1, <1>2, StepTypes
<1> USE DEF GateTypeInv, GateTypeOK, Moved, ActorTypes
<1>4. CASE ClaimLock(h) BY <1>1, <1>3, <1>4 DEF ClaimLock
<1>5. CASE GateState(h) BY <1>3, <1>5 DEF GateState
<1>6. CASE GateExchange(h) BY <1>3, <1>6 DEF GateExchange
<1>7. CASE Preflight(h) BY <1>3, <1>7 DEF Preflight
<1>8. CASE CallExecutor(h) BY <1>1, <1>3, <1>8 DEF CallExecutor, Trades
<1>9. CASE PreEntry(h) BY <1>1, <1>3, <1>9 DEF PreEntry, Trades
<1>10. CASE Buy(h) BY <1>1, <1>3, <1>10 DEF Buy, Trades
<1>11. CASE ExecutorAnswers(h) BY <1>1, <1>3, <1>11 DEF ExecutorAnswers, Trades
<1>12. CASE FlagUnknown(h) BY <1>3, <1>12 DEF FlagUnknown
<1>13. CASE Tell(h) BY <1>3, <1>13 DEF Tell
<1> QED BY <1>4, <1>5, <1>6, <1>7, <1>8, <1>9, <1>10, <1>11, <1>12, <1>13 DEF HandlerStep

\* A press of CONFIRM, and a handler that dies.
LEMMA ConfirmTypes ==
    ASSUME GateTypeInv, EntryGateAssumption, NEW h \in Handlers,
           Throws(h) \/ (\E s \in Signals : Confirm(h, s))
    PROVE  Moved
<1> USE DEF GateTypeInv, GateTypeOK, BusyOnSignal, Moved, ActorTypes, Quiet, Others
<1>1. CASE Throws(h)
  BY <1>1 DEF Throws, End, HandlerPcs, GateFault, EntryGateAssumption
<1>2. CASE \E s \in Signals : Confirm(h, s)
  BY <1>2 DEF Confirm, HandlerPcs, NoGateFault
<1> QED BY <1>1, <1>2

\* The gateway's cron.
LEMMA CronTypes ==
    ASSUME GateTypeInv, EntryGateAssumption,
           \/ CronStep \/ CronUnread \/ CronThrows
           \/ \E s \in Signals : OfferRefused(s) \/ OfferMade(s)
    PROVE  Moved
<1> USE DEF GateTypeInv, GateTypeOK, BusyOnSignal, Moved, ActorTypes, CronFrame, CronQuiet,
            NoGateFault, GateFault, EntryGateAssumption
<1>1. CASE CronStep BY <1>1 DEF CronStep, CronReconcile, CronReport
<1>2. CASE CronUnread BY <1>2 DEF CronUnread
<1>3. CASE CronThrows BY <1>3 DEF CronThrows
<1>4. CASE \E s \in Signals : OfferRefused(s) \/ OfferMade(s)
  BY <1>4 DEF OfferRefused, OfferMade, Offers
<1> QED BY <1>1, <1>2, <1>3, <1>4

\* The owner's messages and the supervisor.
LEMMA OwnerTypes ==
    ASSUME GateTypeInv, EntryGateAssumption,
           \/ Pause \/ Resume \/ Watchdog \/ PageRead \/ PagePut
           \/ \E s \in Signals : Prepare(s) \/ Cancel(s)
    PROVE  Moved
<1> USE DEF GateTypeInv, GateTypeOK, BusyOnSignal, Moved, ActorTypes, OwnerFrame,
            SupervisorFrame, keys, NoGateFault, GateFault, EntryGateAssumption
<1>1. CASE Pause \/ Resume BY <1>1 DEF Pause, Resume
<1>2. CASE Watchdog BY <1>2 DEF Watchdog
<1>3. CASE PageRead BY <1>3 DEF PageRead, Pages
<1>4. CASE PagePut BY <1>4 DEF PagePut, Pages
<1>5. CASE \E s \in Signals : Prepare(s) \/ Cancel(s) BY <1>5 DEF Prepare, Cancel
<1> QED BY <1>1, <1>2, <1>3, <1>4, <1>5

\* Time and Binance.
LEMMA WorldTypes ==
    ASSUME GateTypeInv, NEW s \in Signals, World(s)
    PROVE  Moved
<1> USE DEF GateTypeInv, GateTypeOK, BusyOnSignal, Moved, ActorTypes, WorldFrame, blocks, keys
<1>1. CASE PreparedExpires(s) \/ SignalExpires(s) \/ LockExpires(s)
  BY <1>1 DEF PreparedExpires, SignalExpires, LockExpires, Offers
<1>2. CASE EntryFills(s) \/ EntryFails(s) \/ ListExecutes(s) \/ ListCancelled(s) \/ OwnerSells(s)
  BY <1>2 DEF EntryFills, EntryFails, ListExecutes, ListCancelled, OwnerSells, Moves, Trades
<1> QED BY <1>1, <1>2 DEF World

\* The state of the gate stays in its types, whatever handlers, cron, owner,
\* supervisor and Binance do and whoever dies.
THEOREM GateTypes == GateSpec => []GateTypeInv
<1>1. GateInit => GateTypeInv
  <2> SUFFICES ASSUME GateInit PROVE GateTypeInv OBVIOUS
  <2>1. Calm \in Conditions BY DEF Calm, Conditions
  <2>2. since \in [Handlers -> Conditions]
    BY <2>1 DEF GateInit
  <2>3. gateFaults \in 0..MaxGateFaults
    BY EntryGateAssumption DEF GateInit, EntryGateAssumption
  <2>4. /\ offer \in [Signals -> Offers] /\ trade \in [Signals -> Trades]
        /\ pc \in [Handlers -> HandlerPcs] /\ on \in [Handlers -> Signals \cup {NoSignal}]
        /\ calls \in [Signals -> Nat] /\ page \in Pages
    BY DEF GateInit, Offers, Trades, HandlerPcs, Pages
  <2>5. GateTypeOK
    BY <2>2, <2>3, <2>4 DEF GateInit, GateTypeOK
  <2> QED BY <2>5 DEF GateInit, GateTypeInv, BusyOnSignal
<1>2. GateTypeInv /\ [GateNext]_gateVars => GateTypeInv'
  <2> SUFFICES ASSUME GateTypeInv, [GateNext]_gateVars PROVE GateTypeInv' OBVIOUS
  <2>1. CASE UNCHANGED gateVars
    BY <2>1 DEF gateVars, keys, blocks, GateTypeInv, GateTypeOK, BusyOnSignal
  <2>2. CASE GateNext
    <3>1. Moved
      BY <2>2, EntryGateAssumption, HandlerTypes, ConfirmTypes, CronTypes, OwnerTypes, WorldTypes
         DEF GateNext
    <3> QED BY <3>1, ObserveType DEF GateTypeInv
  <2> QED BY <2>1, <2>2
<1> QED BY <1>1, <1>2, PTL DEF GateSpec

\* The type invariant the runs check.
THEOREM GateTypeCorrect == GateSpec => []GateTypeOK
<1>1. GateTypeInv => GateTypeOK BY DEF GateTypeInv
<1> QED BY <1>1, GateTypes, PTL

-----------------------------------------------------------------------------
(* The executor is called once for a proposal.                             *)

OnceInv == GateTypeInv /\ ConfirmedOnce

\* Steps that bring nobody closer to the executor: calls, locks and proposals
\* stay, or a proposal that is not new is withdrawn, renewed or grows old.
Aside ==
    /\ UNCHANGED <<pc, on, calls>>
    /\ \A s \in Signals : s \in prepared' => s \in prepared \/ offer'[s] # "new"
    /\ \A s \in Signals : offer'[s] # offer[s] => offer'[s] = "over" \/ offer[s] = "new"
    /\ \A s \in Signals : offer[s] = "over" => offer'[s] = "over"
    /\ lock' \subseteq lock
    /\ \A s \in lock : offer[s] # "over" => s \in lock'
    /\ \A s \in Signals : offer'[s] = "new" => offer[s] = "new"

LEMMA AsideKeepsOnce ==
    ASSUME OnceInv, Aside
    PROVE  ConfirmedOnce'
<1> USE DEF OnceInv, ConfirmedOnce, Aside, GateTypeInv, GateTypeOK
<1>1. NewIsUntouched' BY DEF NewIsUntouched
<1>2. LockStandsForIt'
  <2> SUFFICES ASSUME NEW s \in Signals, offer'[s] = "live", s \notin lock'
               PROVE  calls[s] = 0 /\ \A h \in Handlers : ~OnItsWay(h, s)
    BY DEF LockStandsForIt, OnItsWay
  <2>1. CASE offer[s] = "live" BY <2>1 DEF LockStandsForIt
  <2>2. CASE offer[s] = "new" BY <2>2 DEF NewIsUntouched, OnItsWay
  <2> QED BY <2>1, <2>2 DEF Offers
<1>3. OneOnItsWay'
  <2> SUFFICES ASSUME NEW s \in Signals, offer'[s] = "live", NEW h \in Handlers, OnItsWay(h, s)
               PROVE  calls[s] = 0 /\ \A g \in Handlers : OnItsWay(g, s) => g = h
    BY DEF OneOnItsWay, OnItsWay
  <2>1. offer[s] = "live" BY DEF NewIsUntouched, OnItsWay, Offers
  <2> QED BY <2>1 DEF OneOnItsWay
<1>4. OneCaller' BY DEF OneCaller, AboutToCall
<1>5. ExecutorCalledOnce' BY DEF ExecutorCalledOnce
<1> QED BY <1>1, <1>2, <1>3, <1>4, <1>5

\* The cron, the owner, the supervisor, time and Binance stand aside.
LEMMA OthersStandAside ==
    ASSUME OnceInv,
           \/ CronStep \/ CronUnread \/ CronThrows
           \/ Pause \/ Resume \/ Watchdog \/ PageRead \/ PagePut
           \/ \E s \in Signals : OfferRefused(s) \/ OfferMade(s) \/ Prepare(s) \/ Cancel(s) \/ World(s)
    PROVE  Aside
<1> USE DEF Aside, OnceInv, GateTypeInv, GateTypeOK
<1>1. CASE CronStep \/ CronUnread \/ CronThrows
  BY <1>1 DEF CronStep, CronReconcile, CronReport, CronUnread, CronThrows, CronFrame, CronQuiet
<1>2. CASE Pause \/ Resume
  BY <1>2 DEF Pause, Resume, OwnerFrame
<1>3. CASE Watchdog \/ PageRead \/ PagePut
  BY <1>3 DEF Watchdog, PageRead, PagePut, SupervisorFrame, keys
<1>4. CASE \E s \in Signals : OfferRefused(s)
  BY <1>4 DEF OfferRefused, CronFrame
<1>5. CASE \E s \in Signals : OfferMade(s)
  BY <1>5 DEF OfferMade, CronFrame
<1>6. CASE \E s \in Signals : Prepare(s) \/ Cancel(s)
  BY <1>6 DEF Prepare, Cancel, OwnerFrame
<1>7. CASE \E s \in Signals : World(s)
  <2> SUFFICES ASSUME NEW s \in Signals, World(s) PROVE Aside BY <1>7
  <2>1. CASE PreparedExpires(s) \/ SignalExpires(s) \/ LockExpires(s)
    BY <2>1 DEF PreparedExpires, SignalExpires, LockExpires, WorldFrame
  <2>2. CASE EntryFills(s) \/ EntryFails(s) \/ ListExecutes(s) \/ ListCancelled(s) \/ OwnerSells(s)
    BY <2>2 DEF EntryFills, EntryFails, ListExecutes, ListCancelled, OwnerSells, Moves, WorldFrame, keys
  <2> QED BY <2>1, <2>2 DEF World
<1> QED BY <1>1, <1>2, <1>3, <1>4, <1>5, <1>6, <1>7

\* Steps of a handler that is not on its way, or gives up: it is not on its way
\* afterwards, nothing else of the order changes.
GivesWay(h) ==
    /\ UNCHANGED <<offer, calls, lock>>
    /\ prepared' \subseteq prepared
    /\ pc[h] # "idle"
    /\ \E l \in HandlerPcs : pc' = [pc EXCEPT ![h] = l]
    /\ on' = on \/ End(h)
    /\ pc'[h] \notin {"gate", "gateExchange", "preflight", "intent"}

\* Steps towards the executor.
Advances(h, from, to) ==
    /\ UNCHANGED <<offer, calls, lock, prepared>>
    /\ pc[h] = from /\ Step(h, to)

LEMMA GivingWayKeepsOnce ==
    ASSUME OnceInv, NEW h \in Handlers, GivesWay(h)
    PROVE  ConfirmedOnce'
<1> USE DEF OnceInv, ConfirmedOnce, GivesWay, GateTypeInv, GateTypeOK
<1>1. \A g \in Handlers, s \in Signals :
        /\ OnItsWay(g, s)' => OnItsWay(g, s)
        /\ AboutToCall(g, s)' => AboutToCall(g, s)
        /\ pc'[g] # "idle" /\ on'[g] = s => pc[g] # "idle" /\ on[g] = s
  BY DEF OnItsWay, AboutToCall, End
<1>2. NewIsUntouched' BY <1>1 DEF NewIsUntouched
<1>3. LockStandsForIt' BY <1>1 DEF LockStandsForIt
<1>4. OneOnItsWay' BY <1>1 DEF OneOnItsWay
<1>5. OneCaller' BY <1>1 DEF OneCaller
<1>6. ExecutorCalledOnce' BY DEF ExecutorCalledOnce
<1> QED BY <1>2, <1>3, <1>4, <1>5, <1>6

\* A step from the lock to the preflight checks.
LEMMA AdvanceKeepsOnce ==
    ASSUME OnceInv, NEW h \in Handlers,
           \/ Advances(h, "gate", "gateExchange")
           \/ Advances(h, "gateExchange", "preflight")
    PROVE  ConfirmedOnce'
<1> USE DEF OnceInv, ConfirmedOnce, Advances, Step, GateTypeInv, GateTypeOK
<1>1. \A g \in Handlers, s \in Signals :
        /\ OnItsWay(g, s)' => OnItsWay(g, s)
        /\ AboutToCall(g, s)' => AboutToCall(g, s)
        /\ pc'[g] # "idle" /\ on'[g] = s => pc[g] # "idle" /\ on[g] = s
  BY DEF OnItsWay, AboutToCall
<1>2. NewIsUntouched' BY <1>1 DEF NewIsUntouched
<1>3. LockStandsForIt' BY <1>1 DEF LockStandsForIt
<1>4. OneOnItsWay' BY <1>1 DEF OneOnItsWay
<1>5. OneCaller' BY <1>1 DEF OneCaller
<1>6. ExecutorCalledOnce' BY DEF ExecutorCalledOnce
<1> QED BY <1>2, <1>3, <1>4, <1>5, <1>6

\* A press of CONFIRM: the proposal was prepared, so it is not new.
LEMMA ConfirmKeepsOnce ==
    ASSUME OnceInv, NEW h \in Handlers, NEW s \in Signals, Confirm(h, s)
    PROVE  ConfirmedOnce'
<1> USE DEF OnceInv, ConfirmedOnce, Confirm, Quiet, Others, GateTypeInv, GateTypeOK
<1>1. offer[s] # "new" BY DEF NewIsUntouched
<1>2. \A g \in Handlers, x \in Signals :
        /\ OnItsWay(g, x)' => OnItsWay(g, x)
        /\ AboutToCall(g, x)' => AboutToCall(g, x)
        /\ pc'[g] # "idle" /\ on'[g] = x => x = s \/ (pc[g] # "idle" /\ on[g] = x)
  BY DEF OnItsWay, AboutToCall
<1>3. NewIsUntouched' BY <1>1, <1>2 DEF NewIsUntouched
<1>4. LockStandsForIt' BY <1>2 DEF LockStandsForIt
<1>5. OneOnItsWay' BY <1>2 DEF OneOnItsWay
<1>6. OneCaller' BY <1>2 DEF OneCaller
<1>7. ExecutorCalledOnce' BY DEF ExecutorCalledOnce
<1> QED BY <1>3, <1>4, <1>5, <1>6, <1>7

\* The lock is taken: while the signal is fresh nobody else is on its way,
\* because the lock was free.
LEMMA LockKeepsOnce ==
    ASSUME OnceInv, NEW h \in Handlers, ClaimLock(h), on[h] \notin lock
    PROVE  ConfirmedOnce'
<1> DEFINE s == on[h]
<1> USE DEF OnceInv, ConfirmedOnce, ClaimLock, Step, Others, GateTypeInv, GateTypeOK
<1>1. s \in Signals BY DEF BusyOnSignal
<1>2. offer[s] # "new" BY <1>1 DEF NewIsUntouched
<1>3. lock' = lock \cup {s} /\ UNCHANGED <<offer, prepared, on, calls>> OBVIOUS
<1>4. \A g \in Handlers, x \in Signals :
        /\ OnItsWay(g, x)' => OnItsWay(g, x) \/ (g = h /\ x = s)
        /\ AboutToCall(g, x)' => AboutToCall(g, x)
        /\ pc'[g] # "idle" /\ on'[g] = x => pc[g] # "idle" /\ on[g] = x
  BY DEF OnItsWay, AboutToCall
<1>5. offer[s] = "live" => calls[s] = 0 /\ \A g \in Handlers : ~OnItsWay(g, s)
  BY <1>1 DEF LockStandsForIt
<1> HIDE DEF s
<1>6. NewIsUntouched' BY <1>2, <1>3, <1>4 DEF NewIsUntouched
<1>7. LockStandsForIt' BY <1>3, <1>4 DEF LockStandsForIt
<1>8. OneOnItsWay' BY <1>3, <1>4, <1>5 DEF OneOnItsWay
<1>9. OneCaller' BY <1>3, <1>4 DEF OneCaller
<1>10. ExecutorCalledOnce' BY <1>3 DEF ExecutorCalledOnce
<1> QED BY <1>6, <1>7, <1>8, <1>9, <1>10

\* The signal is still fresh: the handler is the only one, and no call was made.
LEMMA PreflightKeepsOnce ==
    ASSUME OnceInv, NEW h \in Handlers,
           Advances(h, "preflight", "intent"), offer[on[h]] = "live"
    PROVE  ConfirmedOnce'
<1> DEFINE s == on[h]
<1> USE DEF OnceInv, ConfirmedOnce, Advances, Step, GateTypeInv, GateTypeOK
<1>1. s \in Signals BY DEF BusyOnSignal
<1>2. calls[s] = 0 /\ \A g \in Handlers : OnItsWay(g, s) => g = h
  BY <1>1 DEF OneOnItsWay, OnItsWay
<1>3. \A g \in Handlers, x \in Signals :
        /\ OnItsWay(g, x)' => OnItsWay(g, x)
        /\ AboutToCall(g, x)' => AboutToCall(g, x) \/ (g = h /\ x = s)
        /\ AboutToCall(g, x) => OnItsWay(g, x)
        /\ pc'[g] # "idle" /\ on'[g] = x => pc[g] # "idle" /\ on[g] = x
  BY DEF OnItsWay, AboutToCall
<1> HIDE DEF s
<1>4. NewIsUntouched' BY <1>3 DEF NewIsUntouched
<1>5. LockStandsForIt' BY <1>3 DEF LockStandsForIt
<1>6. OneOnItsWay' BY <1>3 DEF OneOnItsWay
<1>7. OneCaller' BY <1>2, <1>3 DEF OneCaller
<1>8. ExecutorCalledOnce' BY DEF ExecutorCalledOnce
<1> QED BY <1>4, <1>5, <1>6, <1>7, <1>8

\* The call: it is the first, and nobody else is about to make one.
LEMMA CallKeepsOnce ==
    ASSUME OnceInv, NEW h \in Handlers, CallExecutor(h)
    PROVE  ConfirmedOnce'
<1> DEFINE s == on[h]
<1> USE DEF OnceInv, ConfirmedOnce, CallExecutor, Step, Others, GateTypeInv, GateTypeOK
<1>1. s \in Signals BY DEF BusyOnSignal
<1>2. offer[s] # "new" BY <1>1 DEF NewIsUntouched
<1>3. calls[s] = 0 /\ \A g \in Handlers : AboutToCall(g, s) => g = h
  BY <1>1 DEF OneCaller, AboutToCall
<1>4. OnItsWay(h, s) BY <1>1 DEF OnItsWay
<1>5. /\ UNCHANGED <<offer, prepared, lock, on>>
      /\ calls' = [calls EXCEPT ![s] = 1]
  BY <1>1, <1>3
<1>6. \A g \in Handlers, x \in Signals :
        /\ OnItsWay(g, x)' => OnItsWay(g, x) /\ g # h
        /\ AboutToCall(g, x)' => AboutToCall(g, x) /\ g # h
        /\ pc'[g] # "idle" /\ on'[g] = x => pc[g] # "idle" /\ on[g] = x
  BY DEF OnItsWay, AboutToCall
<1> HIDE DEF s
<1>7. NewIsUntouched' BY <1>1, <1>2, <1>5, <1>6 DEF NewIsUntouched
<1>8. LockStandsForIt' BY <1>1, <1>4, <1>5, <1>6 DEF LockStandsForIt
<1>9. OneOnItsWay' BY <1>1, <1>4, <1>5, <1>6 DEF OneOnItsWay
<1>10. OneCaller' BY <1>1, <1>3, <1>5, <1>6 DEF OneCaller
<1>11. ExecutorCalledOnce' BY <1>1, <1>5 DEF ExecutorCalledOnce
<1> QED BY <1>7, <1>8, <1>9, <1>10, <1>11

\* Every other step of a handler gives way.
LEMMA HandlerGivesWay ==
    ASSUME OnceInv, NEW h \in Handlers,
           \/ Throws(h)
           \/ PreEntry(h) \/ Buy(h) \/ ExecutorAnswers(h) \/ FlagUnknown(h) \/ Tell(h)
           \/ (ClaimLock(h) \/ GateState(h) \/ GateExchange(h) \/ Preflight(h)) /\ End(h) /\ lock' = lock
    PROVE  GivesWay(h)
<1> USE DEF GivesWay, Quiet, Others, HandlerPcs, Step, End, OnceInv, GateTypeInv, GateTypeOK
<1>1. CASE Throws(h) BY <1>1 DEF Throws
<1>2. CASE PreEntry(h) BY <1>2 DEF PreEntry
<1>3. CASE Buy(h) BY <1>3 DEF Buy
<1>4. CASE ExecutorAnswers(h) BY <1>4 DEF ExecutorAnswers
<1>5. CASE FlagUnknown(h) BY <1>5 DEF FlagUnknown
<1>6. CASE Tell(h) BY <1>6 DEF Tell
<1>7. CASE (ClaimLock(h) \/ GateState(h) \/ GateExchange(h) \/ Preflight(h)) /\ End(h) /\ lock' = lock
  BY <1>7 DEF ClaimLock, GateState, GateExchange, Preflight
<1> QED BY <1>1, <1>2, <1>3, <1>4, <1>5, <1>6, <1>7

LEMMA HandlerKeepsOnce ==
    ASSUME OnceInv, NEW h \in Handlers, HandlerStep(h)
    PROVE  ConfirmedOnce'
<1>1. CASE ClaimLock(h)
  <2>1. CASE on[h] \in lock
    <3>1. End(h) /\ lock' = lock BY <1>1, <2>1 DEF ClaimLock
    <3> QED BY <1>1, <3>1, HandlerGivesWay, GivingWayKeepsOnce
  <2>2. CASE on[h] \notin lock BY <1>1, <2>2, LockKeepsOnce
  <2> QED BY <2>1, <2>2
<1>2. CASE GateState(h) \/ GateExchange(h) \/ Preflight(h)
  <2>1. CASE End(h)
    <3>1. lock' = lock
      BY <1>2 DEF GateState, GateExchange, Preflight, Quiet
    <3> QED BY <1>2, <2>1, <3>1, HandlerGivesWay, GivingWayKeepsOnce
  <2>2. CASE ~End(h)
    <3>1. \/ Advances(h, "gate", "gateExchange")
          \/ Advances(h, "gateExchange", "preflight")
          \/ Advances(h, "preflight", "intent") /\ offer[on[h]] = "live"
      BY <1>2, <2>2 DEF GateState, GateExchange, Preflight, Advances, Quiet, Others
    <3> QED BY <3>1, AdvanceKeepsOnce, PreflightKeepsOnce
  <2> QED BY <2>1, <2>2
<1>3. CASE CallExecutor(h) BY <1>3, CallKeepsOnce
<1>4. CASE PreEntry(h) \/ Buy(h) \/ ExecutorAnswers(h) \/ FlagUnknown(h) \/ Tell(h)
  BY <1>4, HandlerGivesWay, GivingWayKeepsOnce
<1> QED BY <1>1, <1>2, <1>3, <1>4 DEF HandlerStep

\* While a signal is fresh its lock, its one handler and its one call stand for
\* each other, for any number of proposals, handlers, faults and expiries.
THEOREM GateConfirmsOnce == GateSpec => []ConfirmedOnce
<1>1. GateInit => ConfirmedOnce
  <2> SUFFICES ASSUME GateInit PROVE ConfirmedOnce OBVIOUS
  <2>1. \A h \in Handlers, s \in Signals : ~OnItsWay(h, s) /\ ~AboutToCall(h, s)
    BY DEF GateInit, OnItsWay, AboutToCall
  <2>2. NewIsUntouched BY DEF GateInit, NewIsUntouched
  <2>3. LockStandsForIt /\ OneOnItsWay /\ OneCaller
    BY <2>1 DEF GateInit, LockStandsForIt, OneOnItsWay, OneCaller
  <2>4. ExecutorCalledOnce BY DEF GateInit, ExecutorCalledOnce
  <2> QED BY <2>2, <2>3, <2>4 DEF ConfirmedOnce
<1>2. GateTypeInv /\ ConfirmedOnce /\ [GateNext]_gateVars => ConfirmedOnce'
  <2> SUFFICES ASSUME OnceInv, [GateNext]_gateVars PROVE ConfirmedOnce'
    BY DEF OnceInv
  <2>1. CASE UNCHANGED gateVars
    <3>1. Aside BY <2>1 DEF Aside, gateVars, keys
    <3> QED BY <3>1, AsideKeepsOnce
  <2>2. CASE \E h \in Handlers : HandlerStep(h) BY <2>2, HandlerKeepsOnce
  <2>3. CASE \E h \in Handlers : Throws(h) BY <2>3, HandlerGivesWay, GivingWayKeepsOnce
  <2>4. CASE \E h \in Handlers : \E s \in Signals : Confirm(h, s) BY <2>4, ConfirmKeepsOnce
  <2>5. CASE \/ CronStep \/ CronUnread \/ CronThrows
             \/ Pause \/ Resume \/ Watchdog \/ PageRead \/ PagePut
             \/ \E s \in Signals : OfferRefused(s) \/ OfferMade(s) \/ Prepare(s) \/ Cancel(s) \/ World(s)
    BY <2>5, OthersStandAside, AsideKeepsOnce
  <2> QED BY <2>1, <2>2, <2>3, <2>4, <2>5 DEF GateNext
<1> QED BY <1>1, <1>2, GateTypes, PTL DEF GateSpec

\* However often a proposal is confirmed, delivered again or prepared anew, the
\* executor is called once for it.
THEOREM GateCallsOnce == GateSpec => []ExecutorCalledOnce
<1>1. ConfirmedOnce => ExecutorCalledOnce BY DEF ConfirmedOnce
<1> QED BY <1>1, GateConfirmsOnce, PTL

-----------------------------------------------------------------------------
(* A refusal is flat.                                                      *)

AnswerInv == OnceInv /\ AnsweredOnce

\* Steps that leave the executor's callers and the calls alone, and every trade
\* that has not begun, is only claimed or is over.
KeepsAnswers ==
    /\ UNCHANGED calls
    /\ \A s \in Signals : trade'[s] # trade[s] =>
          trade[s] \notin {"NONE", "CLAIMED", "CLOSED"} /\ trade'[s] # "NONE"
    /\ \A h \in Handlers, s \in Signals : AtExecutor(h, s)' => AtExecutor(h, s)
    /\ \A h \in Handlers : pc'[h] \in {"preEntry", "buy", "noPosition"} =>
          pc'[h] = pc[h] /\ on'[h] = on[h]

LEMMA KeepsAnswersOnce ==
    ASSUME AnswerInv, KeepsAnswers, BusyOnSignal'
    PROVE  AnsweredOnce'
<1> USE DEF AnswerInv, OnceInv, GateTypeInv, GateTypeOK, AnsweredOnce, KeepsAnswers
<1>1. TradeFollowsCall' BY DEF TradeFollowsCall
<1>2. OneAtExecutor' BY DEF OneAtExecutor
<1>3. AnswersFit' BY DEF AnswersFit, BusyOnSignal
<1> QED BY <1>1, <1>2, <1>3

\* A step of a handler at the executor: only its own trade changes, and no
\* other handler is at the executor for it.
OwnTrade(h) ==
    /\ UNCHANGED <<calls, on>>
    /\ AtExecutor(h, on[h]) /\ on[h] \in Signals
    /\ \E l \in HandlerPcs : pc' = [pc EXCEPT ![h] = l]
    /\ \A s \in Signals : s # on[h] => trade'[s] = trade[s]
    /\ trade'[on[h]] # "NONE"
    /\ pc'[h] \in {"preEntry", "buy"} => trade'[on[h]] = "CLAIMED"
    /\ pc'[h] = "noPosition" => trade'[on[h]] = "CLOSED"
    /\ AtExecutor(h, on[h])'

LEMMA OwnTradeKeepsAnswers ==
    ASSUME AnswerInv, NEW h \in Handlers, OwnTrade(h), BusyOnSignal'
    PROVE  AnsweredOnce'
<1> USE DEF AnswerInv, OnceInv, GateTypeInv, GateTypeOK, AnsweredOnce, OwnTrade
<1>1. \A g \in Handlers, s \in Signals : AtExecutor(g, s)' => AtExecutor(g, s)
  BY DEF AtExecutor
<1>2. TradeFollowsCall' BY DEF TradeFollowsCall, OneAtExecutor
<1>3. OneAtExecutor' BY <1>1 DEF OneAtExecutor
<1>4. AnswersFit'
  <2> SUFFICES ASSUME NEW g \in Handlers
               PROVE  /\ pc'[g] \in {"preEntry", "buy"} => trade'[on[g]] = "CLAIMED"
                      /\ pc'[g] = "noPosition" => trade'[on[g]] = "CLOSED"
    BY DEF AnswersFit
  <2>1. CASE g = h BY <2>1
  <2>2. CASE g # h /\ pc[g] \in {"preEntry", "buy", "noPosition"}
    <3>1. on[g] \in Signals BY <2>2 DEF BusyOnSignal
    <3>2. AtExecutor(g, on[g]) BY <2>2 DEF AtExecutor
    <3>3. on[g] # on[h] BY <2>2, <3>1, <3>2 DEF OneAtExecutor
    <3>4. pc'[g] = pc[g] /\ trade'[on[g]] = trade[on[g]] BY <2>2, <3>1, <3>3
    <3> QED BY <2>2, <3>4 DEF AnswersFit
  <2>3. CASE g # h /\ pc[g] \notin {"preEntry", "buy", "noPosition"}
    BY <2>3
  <2> QED BY <2>1, <2>2, <2>3
<1> QED BY <1>2, <1>3, <1>4

\* The call finds a trade that has not begun.
LEMMA CallKeepsAnswers ==
    ASSUME AnswerInv, NEW h \in Handlers, CallExecutor(h)
    PROVE  AnsweredOnce'
<1> DEFINE s == on[h]
<1> USE DEF AnswerInv, OnceInv, ConfirmedOnce, GateTypeInv, GateTypeOK, AnsweredOnce,
            CallExecutor, Step, Others
<1>1. s \in Signals BY DEF BusyOnSignal
<1>2. calls[s] = 0 BY <1>1 DEF OneCaller, AboutToCall
<1>3. trade[s] = "NONE" BY <1>1, <1>2 DEF TradeFollowsCall
<1>4. /\ calls' = [calls EXCEPT ![s] = 1] /\ trade' = [trade EXCEPT ![s] = "CLAIMED"]
      /\ pc' = [pc EXCEPT ![h] = "preEntry"] /\ UNCHANGED on
  BY <1>1, <1>2, <1>3
<1>5. \A g \in Handlers : ~AtExecutor(g, s) BY <1>1, <1>2 DEF OneAtExecutor
<1>6. \A g \in Handlers, x \in Signals : AtExecutor(g, x)' => AtExecutor(g, x) \/ (g = h /\ x = s)
  BY <1>4 DEF AtExecutor
<1>7. TradeFollowsCall' BY <1>1, <1>4 DEF TradeFollowsCall
<1>8. OneAtExecutor' BY <1>1, <1>4, <1>5, <1>6 DEF OneAtExecutor
<1>9. AnswersFit'
  <2> SUFFICES ASSUME NEW g \in Handlers, pc'[g] \in {"preEntry", "buy", "noPosition"}
               PROVE  trade'[on'[g]] = IF pc'[g] = "noPosition" THEN "CLOSED" ELSE "CLAIMED"
    BY DEF AnswersFit
  <2>1. CASE g = h BY <1>1, <1>4, <2>1
  <2>2. CASE g # h
    <3>1. pc[g] = pc'[g] /\ on'[g] = on[g] /\ on[g] \in Signals
      BY <1>4, <2>2 DEF BusyOnSignal
    <3>2. AtExecutor(g, on[g]) BY <3>1 DEF AtExecutor
    <3>3. on[g] # s BY <1>5, <3>2
    <3> QED BY <1>4, <3>1, <3>3 DEF AnswersFit
  <2> QED BY <2>1, <2>2
<1> QED BY <1>7, <1>8, <1>9

\* The other steps of a handler.
LEMMA HandlerKeepsAnswers ==
    ASSUME AnswerInv, NEW h \in Handlers, HandlerStep(h), BusyOnSignal'
    PROVE  AnsweredOnce'
<1> USE DEF AnswerInv, OnceInv, GateTypeInv, GateTypeOK, AnsweredOnce, Quiet, Others, HandlerPcs
<1>1. on[h] \in Signals
  BY DEF HandlerStep, ClaimLock, GateState, GateExchange, Preflight, CallExecutor,
         PreEntry, Buy, ExecutorAnswers, FlagUnknown, Tell, BusyOnSignal
<1>2. CASE ClaimLock(h) \/ GateState(h) \/ GateExchange(h) \/ Preflight(h)
  <2>1. KeepsAnswers
    BY <1>2 DEF ClaimLock, GateState, GateExchange, Preflight, Step, End, KeepsAnswers, AtExecutor
  <2> QED BY <2>1, KeepsAnswersOnce
<1>3. CASE CallExecutor(h) BY <1>3, CallKeepsAnswers
<1>4. CASE PreEntry(h)
  <2>1. trade[on[h]] = "CLAIMED" BY <1>4 DEF PreEntry, AnswersFit
  <2>2. OwnTrade(h) BY <1>1, <1>4, <2>1 DEF PreEntry, Step, OwnTrade, AtExecutor
  <2> QED BY <2>2, OwnTradeKeepsAnswers
<1>5. CASE Buy(h)
  <2>1. OwnTrade(h) BY <1>1, <1>5 DEF Buy, Step, OwnTrade, AtExecutor
  <2> QED BY <2>1, OwnTradeKeepsAnswers
<1>6. CASE ExecutorAnswers(h)
  <2>1. OwnTrade(h) BY <1>1, <1>6 DEF ExecutorAnswers, Step, OwnTrade, AtExecutor
  <2> QED BY <2>1, OwnTradeKeepsAnswers
<1>7. CASE FlagUnknown(h) \/ Tell(h)
  <2>1. KeepsAnswers BY <1>7 DEF FlagUnknown, Tell, End, KeepsAnswers, AtExecutor
  <2> QED BY <2>1, KeepsAnswersOnce
<1> QED BY <1>2, <1>3, <1>4, <1>5, <1>6, <1>7 DEF HandlerStep

\* Everything that is not a handler's step.
LEMMA OthersKeepAnswers ==
    ASSUME AnswerInv, NEW h \in Handlers, BusyOnSignal',
           \/ Throws(h) \/ \E s \in Signals : Confirm(h, s)
    PROVE  AnsweredOnce'
<1>1. KeepsAnswers
  BY DEF Throws, Confirm, End, Quiet, Others, KeepsAnswers, AtExecutor,
         AnswerInv, OnceInv, GateTypeInv, GateTypeOK
<1> QED BY <1>1, KeepsAnswersOnce

LEMMA AsideKeepsAnswers ==
    ASSUME AnswerInv, BusyOnSignal',
           \/ CronStep \/ CronUnread \/ CronThrows
           \/ Pause \/ Resume \/ Watchdog \/ PageRead \/ PagePut
           \/ \E s \in Signals : OfferRefused(s) \/ OfferMade(s) \/ Prepare(s) \/ Cancel(s) \/ World(s)
    PROVE  AnsweredOnce'
<1> USE DEF AnswerInv, OnceInv, GateTypeInv, GateTypeOK
<1>1. UNCHANGED <<pc, on, calls>>
  BY OthersStandAside DEF Aside
<1>2. ASSUME NEW s \in Signals, trade'[s] # trade[s]
      PROVE  trade[s] \notin {"NONE", "CLAIMED", "CLOSED"} /\ trade'[s] # "NONE"
  <2>1. CASE CronStep \/ CronUnread \/ CronThrows
    BY <1>2, <2>1 DEF CronStep, CronReconcile, CronReport, CronUnread, CronThrows, CronFrame
  <2>2. CASE Pause \/ Resume \/ \E x \in Signals : Prepare(x) \/ Cancel(x)
    BY <1>2, <2>2 DEF Pause, Resume, Prepare, Cancel, OwnerFrame
  <2>3. CASE Watchdog \/ PageRead \/ PagePut
    BY <1>2, <2>3 DEF Watchdog, PageRead, PagePut, SupervisorFrame
  <2>4. CASE \E x \in Signals : OfferRefused(x) \/ OfferMade(x)
    BY <1>2, <2>4 DEF OfferRefused, OfferMade, CronFrame
  <2>5. CASE \E x \in Signals : World(x)
    BY <1>2, <2>5 DEF World, PreparedExpires, SignalExpires, LockExpires, EntryFills, EntryFails,
       ListExecutes, ListCancelled, OwnerSells, Moves
  <2> QED BY <2>1, <2>2, <2>3, <2>4, <2>5
<1>3. KeepsAnswers BY <1>1, <1>2 DEF KeepsAnswers, AtExecutor
<1> QED BY <1>3, KeepsAnswersOnce

\* One handler at most is past the call for a signal, and knows its trade.
THEOREM GateAnswersOnce == GateSpec => []AnsweredOnce
<1>1. GateInit => AnsweredOnce
  BY DEF GateInit, AnsweredOnce, TradeFollowsCall, OneAtExecutor, AtExecutor, AnswersFit
<1>2. GateTypeInv /\ ConfirmedOnce /\ AnsweredOnce /\ GateTypeInv' /\ [GateNext]_gateVars
        => AnsweredOnce'
  <2> SUFFICES ASSUME AnswerInv, GateTypeInv', [GateNext]_gateVars PROVE AnsweredOnce'
    BY DEF AnswerInv, OnceInv
  <2> USE DEF GateTypeInv
  <2>1. CASE UNCHANGED gateVars
    <3>1. KeepsAnswers BY <2>1 DEF KeepsAnswers, AtExecutor, gateVars
    <3> QED BY <3>1, KeepsAnswersOnce
  <2>2. CASE \E h \in Handlers : HandlerStep(h) BY <2>2, HandlerKeepsAnswers
  <2>3. CASE \E h \in Handlers : Throws(h) \/ \E s \in Signals : Confirm(h, s)
    BY <2>3, OthersKeepAnswers
  <2>4. CASE \/ CronStep \/ CronUnread \/ CronThrows
             \/ Pause \/ Resume \/ Watchdog \/ PageRead \/ PagePut
             \/ \E s \in Signals : OfferRefused(s) \/ OfferMade(s) \/ Prepare(s) \/ Cancel(s) \/ World(s)
    BY <2>4, AsideKeepsAnswers
  <2> QED BY <2>1, <2>2, <2>3, <2>4 DEF GateNext
<1> QED BY <1>1, <1>2, GateTypes, GateConfirmsOnce, PTL DEF GateSpec

\* When the owner reads "BUY failed" with a definite reason of the executor,
\* nothing is left in the market.
THEOREM GateRefusesFlat == GateSpec => []RefusalIsFlat
<1>1. AnsweredOnce => RefusalIsFlat
  BY DEF AnsweredOnce, AnswersFit, RefusalIsFlat, Exposed
<1> QED BY <1>1, GateAnswersOnce, PTL

-----------------------------------------------------------------------------
(* A block that lasts is kept.                                             *)

\* Nobody gets past the gate's two looks but by a look that found it open.
LooksFirst ==
    /\ \A h \in Handlers : pc'[h] \in PastState =>
          \/ pc[h] \in PastState
          \/ pc[h] # "idle" /\ ~paused' /\ ~unknown' /\ ~unprotected'
    /\ \A h \in Handlers : pc'[h] \in PastExchange =>
          \/ pc[h] \in PastExchange
          \/ pc[h] # "idle" /\ Cardinality(Held') < MaxOpenPositions

\* The fields of what is remembered.
LEMMA ConditionFields ==
    ASSUME NEW a, NEW b, NEW c, NEW d, NEW e, NEW r,
           r = [paused |-> a, unknown |-> b, unprotected |-> c, held |-> d, bare |-> e]
    PROVE  r.paused = a /\ r.unknown = b /\ r.unprotected = c
  OBVIOUS

\* What is remembered of a busy handler only shrinks.
LEMMA RememberedShrinks ==
    ASSUME GateTypeInv, GateTypeInv', Observe, NEW h \in Handlers,
           pc[h] # "idle", pc'[h] \in BeforeBuy
    PROVE  /\ since'[h].paused => since[h].paused /\ paused'
           /\ since'[h].unknown => since[h].unknown /\ unknown'
           /\ since'[h].unprotected => since[h].unprotected /\ unprotected'
           /\ since'[h].held \subseteq since[h].held
           /\ since'[h].held \subseteq Held'
           /\ since[h].held \subseteq Signals /\ Held' \subseteq Signals
<1>1. since'[h] = [paused |-> since[h].paused /\ paused',
                   unknown |-> since[h].unknown /\ unknown',
                   unprotected |-> since[h].unprotected /\ unprotected',
                   held |-> since[h].held \cap Held',
                   bare |-> since[h].bare \cap WarnedBare']
  BY DEF Observe
<1>2. since[h] \in Conditions BY DEF GateTypeInv, GateTypeOK
<1>3. since[h].held \subseteq Signals BY <1>2 DEF Conditions
<1>4. Held' \subseteq Signals BY DEF Held
<1>5. /\ since'[h].paused = (since[h].paused /\ paused')
      /\ since'[h].unknown = (since[h].unknown /\ unknown')
      /\ since'[h].unprotected = (since[h].unprotected /\ unprotected')
  <2> DEFINE a == since[h].paused /\ paused'
             b == since[h].unknown /\ unknown'
             c == since[h].unprotected /\ unprotected'
             d == since[h].held \cap Held'
             e == since[h].bare \cap WarnedBare'
  <2>1. since'[h] = [paused |-> a, unknown |-> b, unprotected |-> c, held |-> d, bare |-> e]
    BY <1>1
  <2> HIDE DEF a, b, c, d, e
  <2>2. since'[h].paused = a /\ since'[h].unknown = b /\ since'[h].unprotected = c
    BY <2>1, ConditionFields
  <2> QED BY <2>2 DEF a, b, c
<1>6. since'[h].held = since[h].held \cap Held' BY <1>1
<1>7. since'[h].held \subseteq since[h].held /\ since'[h].held \subseteq Held' BY <1>6
<1> QED BY <1>3, <1>4, <1>5, <1>7, Zenon

LEMMA LookingKeepsSteady ==
    ASSUME GateTypeInv, GateTypeInv', EntryGateAssumption, Observe, GateHasLooked, LooksFirst
    PROVE  GateHasLooked'
<1> SUFFICES ASSUME NEW h \in Handlers
             PROVE  /\ pc'[h] \in PastState =>
                          ~since'[h].paused /\ ~since'[h].unknown /\ ~since'[h].unprotected
                    /\ pc'[h] \in PastExchange => Cardinality(since'[h].held) < MaxOpenPositions
  BY DEF GateHasLooked
<1>1. ASSUME pc'[h] \in PastState
      PROVE  ~since'[h].paused /\ ~since'[h].unknown /\ ~since'[h].unprotected
  <2>1. pc[h] # "idle" /\ pc'[h] \in BeforeBuy
    BY <1>1 DEF LooksFirst, PastState, BeforeBuy
  <2> QED BY <1>1, <2>1, RememberedShrinks DEF LooksFirst, GateHasLooked
<1>2. ASSUME pc'[h] \in PastExchange
      PROVE  Cardinality(since'[h].held) < MaxOpenPositions
  <2>1. pc[h] # "idle" /\ pc'[h] \in BeforeBuy
    BY <1>2 DEF LooksFirst, PastExchange, BeforeBuy
  <2>2. /\ since'[h].held \subseteq since[h].held /\ since'[h].held \subseteq Held'
        /\ IsFiniteSet(since[h].held) /\ IsFiniteSet(Held')
    BY <2>1, RememberedShrinks, FS_Subset DEF EntryGateAssumption
  <2>3. /\ Cardinality(since'[h].held) \in Nat /\ Cardinality(since[h].held) \in Nat
        /\ Cardinality(Held') \in Nat
        /\ Cardinality(since'[h].held) <= Cardinality(since[h].held)
        /\ Cardinality(since'[h].held) <= Cardinality(Held')
    BY <2>2, FS_Subset, FS_CardinalityType
  <2>4. MaxOpenPositions \in Nat BY DEF EntryGateAssumption
  <2>5. Cardinality(since[h].held) < MaxOpenPositions \/ Cardinality(Held') < MaxOpenPositions
    BY <1>2 DEF LooksFirst, GateHasLooked
  <2> QED BY <2>3, <2>4, <2>5
<1> QED BY <1>1, <1>2

LEMMA HandlerLooksFirst ==
    ASSUME GateTypeInv, NEW h \in Handlers, HandlerStep(h)
    PROVE  LooksFirst
<1> USE DEF GateTypeInv, GateTypeOK, LooksFirst, PastState, PastExchange, Step, End, Quiet, Others
<1>1. CASE ClaimLock(h) BY <1>1 DEF ClaimLock
<1>2. CASE GateState(h)
  BY <1>2 DEF GateState, StateBlocks
<1>3. CASE GateExchange(h)
  <2>1. Held' = Held BY <1>3 DEF GateExchange, Held
  <2> QED BY <1>3, <2>1 DEF GateExchange, ExchangeBlocks, CapacityOk
<1>4. CASE Preflight(h) BY <1>4 DEF Preflight
<1>5. CASE CallExecutor(h) BY <1>5 DEF CallExecutor
<1>6. CASE PreEntry(h) BY <1>6 DEF PreEntry
<1>7. CASE Buy(h) BY <1>7 DEF Buy
<1>8. CASE ExecutorAnswers(h) BY <1>8 DEF ExecutorAnswers
<1>9. CASE FlagUnknown(h) \/ Tell(h) BY <1>9 DEF FlagUnknown, Tell
<1> QED BY <1>1, <1>2, <1>3, <1>4, <1>5, <1>6, <1>7, <1>8, <1>9 DEF HandlerStep

LEMMA OthersLookFirst ==
    ASSUME GateTypeInv, NEW h \in Handlers, Throws(h) \/ \E s \in Signals : Confirm(h, s)
    PROVE  LooksFirst
BY DEF GateTypeInv, GateTypeOK, LooksFirst, PastState, PastExchange, Throws, Confirm, End, Quiet, Others

\* What lasts since a CONFIRM was pressed was not there when the gate looked.
THEOREM GateLooks == GateSpec => []GateHasLooked
<1>1. GateInit => GateHasLooked
  BY DEF GateInit, GateHasLooked, PastState, PastExchange
<1>2. GateTypeInv /\ GateTypeInv' /\ ConfirmedOnce /\ GateHasLooked /\ [GateNext]_gateVars
        => GateHasLooked'
  <2> SUFFICES ASSUME GateTypeInv, GateTypeInv', ConfirmedOnce, GateHasLooked, [GateNext]_gateVars
               PROVE  GateHasLooked'
    OBVIOUS
  <2>1. CASE UNCHANGED gateVars BY <2>1 DEF gateVars, GateHasLooked
  <2>2. CASE \E h \in Handlers : HandlerStep(h)
    <3>1. Observe BY <2>2, HandlerTypes, EntryGateAssumption DEF Moved
    <3> QED BY <2>2, <3>1, HandlerLooksFirst, LookingKeepsSteady, EntryGateAssumption
  <2>3. CASE \E h \in Handlers : Throws(h) \/ \E s \in Signals : Confirm(h, s)
    <3>1. Observe BY <2>3, ConfirmTypes, EntryGateAssumption DEF Moved
    <3> QED BY <2>3, <3>1, OthersLookFirst, LookingKeepsSteady, EntryGateAssumption
  <2>4. CASE \/ CronStep \/ CronUnread \/ CronThrows
             \/ Pause \/ Resume \/ Watchdog \/ PageRead \/ PagePut
             \/ \E s \in Signals : OfferRefused(s) \/ OfferMade(s) \/ Prepare(s) \/ Cancel(s) \/ World(s)
    <3>1. Observe
      BY <2>4, CronTypes, OwnerTypes, WorldTypes, EntryGateAssumption DEF Moved
    <3>2. UNCHANGED pc BY <2>4, OthersStandAside DEF Aside, OnceInv
    <3>3. LooksFirst BY <3>2 DEF LooksFirst
    <3> QED BY <3>1, <3>3, LookingKeepsSteady, EntryGateAssumption
  <2> QED BY <2>1, <2>2, <2>3, <2>4 DEF GateNext
<1> QED BY <1>1, <1>2, GateTypes, GateConfirmsOnce, PTL DEF GateSpec

\* A CONFIRM pressed under a block that lasts does not reach the market.
THEOREM GateBlocksHold == GateSpec => []SteadyBlockHolds
<1>1. GateHasLooked => SteadyBlockHolds
  BY DEF GateHasLooked, SteadyBlockHolds, PastState, PastExchange
<1> QED BY <1>1, GateLooks, PTL

-----------------------------------------------------------------------------
(* A doubt is recorded.                                                    *)

\* Somebody has the order in sight, or it is in live:unknown-orders.
InSight(s) == \E h \in Handlers : on[h] = s /\ pc[h] \in {"executing", "flag"}

\* Steps that lose no order from sight: a block stays, an order that is out was
\* out before or its handler goes on with it.
KeepsSight ==
    /\ unknown => unknown'
    /\ \A s \in Signals : trade'[s] \in {"ORDERED", "FILLED"} =>
          \/ trade[s] \in {"ORDERED", "FILLED"} /\ (InSight(s) => InSight(s)' \/ unknown')
          \/ InSight(s)'

LEMMA KeepsSightKeepsBlock ==
    ASSUME LostFromSightBlocks, KeepsSight
    PROVE  LostFromSightBlocks'
BY DEF LostFromSightBlocks, KeepsSight, InSight

LEMMA HandlerKeepsSight ==
    ASSUME GateTypeInv, NEW h \in Handlers, HandlerStep(h)
    PROVE  KeepsSight
<1> USE DEF GateTypeInv, GateTypeOK, Quiet, Others, Step, End
<1>1. on[h] \in Signals
  BY DEF HandlerStep, ClaimLock, GateState, GateExchange, Preflight, CallExecutor,
         PreEntry, Buy, ExecutorAnswers, FlagUnknown, Tell, BusyOnSignal
<1>2. CASE ClaimLock(h) \/ GateState(h) \/ GateExchange(h) \/ Preflight(h)
  BY <1>2 DEF ClaimLock, GateState, GateExchange, Preflight, KeepsSight, InSight
<1>3. CASE CallExecutor(h) BY <1>1, <1>3 DEF CallExecutor, KeepsSight, InSight
<1>4. CASE PreEntry(h) BY <1>1, <1>4 DEF PreEntry, KeepsSight, InSight
<1>5. CASE Buy(h) BY <1>1, <1>5 DEF Buy, KeepsSight, InSight
<1>6. CASE ExecutorAnswers(h) BY <1>1, <1>6 DEF ExecutorAnswers, KeepsSight, InSight
<1>7. CASE FlagUnknown(h) BY <1>7 DEF FlagUnknown, KeepsSight, InSight
<1>8. CASE Tell(h) BY <1>8 DEF Tell, KeepsSight, InSight
<1> QED BY <1>2, <1>3, <1>4, <1>5, <1>6, <1>7, <1>8 DEF HandlerStep

LEMMA ConfirmKeepsSight ==
    ASSUME GateTypeInv, NEW h \in Handlers, NEW s \in Signals, Confirm(h, s)
    PROVE  KeepsSight
BY DEF Confirm, GateTypeInv, GateTypeOK, Quiet, Others, KeepsSight, InSight

\* Without faults and without the page nobody clears live:unknown-orders.
LEMMA AsideKeepsSight ==
    ASSUME OnceInv, MaxGateFaults = 0, page = "idle",
           \/ CronStep \/ CronUnread \/ CronThrows
           \/ Pause \/ Resume \/ Watchdog \/ PageRead \/ PagePut
           \/ \E s \in Signals : OfferRefused(s) \/ OfferMade(s) \/ Prepare(s) \/ Cancel(s) \/ World(s)
    PROVE  KeepsSight
<1> USE DEF OnceInv, GateTypeInv, GateTypeOK
<1>1. UNCHANGED <<pc, on>> BY OthersStandAside DEF Aside
<1>2. /\ unknown => unknown'
      /\ \A s \in Signals : trade'[s] \in {"ORDERED", "FILLED"} => trade[s] \in {"ORDERED", "FILLED"}
  <2>1. CASE CronStep \/ CronUnread \/ CronThrows
    BY <2>1 DEF CronStep, CronReconcile, CronReport, CronUnread, CronThrows, CronFrame
  <2>2. CASE Pause \/ Resume \/ \E x \in Signals : Prepare(x) \/ Cancel(x)
    BY <2>2 DEF Pause, Resume, Prepare, Cancel, OwnerFrame
  <2>3. CASE Watchdog \/ PageRead \/ PagePut
    BY <2>3 DEF Watchdog, PageRead, PagePut, SupervisorFrame
  <2>4. CASE \E x \in Signals : OfferRefused(x) \/ OfferMade(x)
    BY <2>4 DEF OfferRefused, OfferMade, CronFrame
  <2>5. CASE \E x \in Signals : World(x)
    BY <2>5 DEF World, WorldFrame, blocks, PreparedExpires, SignalExpires, LockExpires, EntryFills,
       EntryFails, ListExecutes, ListCancelled, OwnerSells, Moves
  <2> QED BY <2>1, <2>2, <2>3, <2>4, <2>5
<1> QED BY <1>1, <1>2 DEF KeepsSight, InSight

\* The page is idle as long as nobody opens it.
LEMMA PageStaysIdle ==
    ASSUME GateTypeInv, ~PageOpened, page = "idle", [GateNext]_gateVars
    PROVE  page' = "idle"
<1>1. CASE UNCHANGED gateVars BY <1>1 DEF gateVars
<1>2. CASE \E h \in Handlers :
             HandlerStep(h) \/ Throws(h) \/ (\E s \in Signals : Confirm(h, s))
  BY <1>2 DEF HandlerStep, ClaimLock, GateState, GateExchange, Preflight, CallExecutor, PreEntry,
     Buy, ExecutorAnswers, FlagUnknown, Tell, Throws, Confirm, Quiet, Others
<1>3. CASE CronStep \/ CronUnread \/ CronThrows
  BY <1>3 DEF CronStep, CronReconcile, CronReport, CronUnread, CronThrows, CronFrame
<1>4. CASE Pause \/ Resume \/ \E x \in Signals : Prepare(x) \/ Cancel(x)
  BY <1>4 DEF Pause, Resume, Prepare, Cancel, OwnerFrame
<1>5. CASE Watchdog \/ PageRead \/ PagePut
  BY <1>5 DEF Watchdog, PageRead, PagePut, SupervisorFrame
<1>6. CASE \E x \in Signals : OfferRefused(x) \/ OfferMade(x)
  BY <1>6 DEF OfferRefused, OfferMade, CronFrame
<1>7. CASE \E x \in Signals : World(x)
  BY <1>7 DEF World, WorldFrame, PreparedExpires, SignalExpires, LockExpires, EntryFills,
     EntryFails, ListExecutes, ListCancelled, OwnerSells, Moves
<1> QED BY <1>1, <1>2, <1>3, <1>4, <1>5, <1>6, <1>7 DEF GateNext

\* Without faults and without the page, an entry order the executor lost from
\* sight stops every later entry.
THEOREM GateRecordsDoubt ==
    ASSUME MaxGateFaults = 0, ~PageOpened
    PROVE  GateSpec => []LostFromSightBlocks
<1> DEFINE SightInv == page = "idle" /\ LostFromSightBlocks
<1>1. GateInit => SightInv BY DEF GateInit, LostFromSightBlocks
<1>2. OnceInv /\ SightInv /\ [GateNext]_gateVars => SightInv'
  <2> SUFFICES ASSUME OnceInv, page = "idle", LostFromSightBlocks, [GateNext]_gateVars
               PROVE  SightInv'
    OBVIOUS
  <2>1. page' = "idle" BY PageStaysIdle DEF OnceInv
  <2>2. LostFromSightBlocks'
    <3>1. CASE UNCHANGED gateVars
      BY <3>1 DEF gateVars, blocks, LostFromSightBlocks
    <3>2. CASE \E h \in Handlers : HandlerStep(h)
      BY <3>2, HandlerKeepsSight, KeepsSightKeepsBlock DEF OnceInv
    <3>3. CASE \E h \in Handlers, s \in Signals : Confirm(h, s)
      BY <3>3, ConfirmKeepsSight, KeepsSightKeepsBlock DEF OnceInv
    <3>4. CASE \E h \in Handlers : Throws(h)
      BY <3>4 DEF OnceInv, Throws, GateFault, GateTypeInv, GateTypeOK
    <3>5. CASE \/ CronStep \/ CronUnread \/ CronThrows
               \/ Pause \/ Resume \/ Watchdog \/ PageRead \/ PagePut
               \/ \E s \in Signals : OfferRefused(s) \/ OfferMade(s) \/ Prepare(s) \/ Cancel(s) \/ World(s)
      BY <3>5, AsideKeepsSight, KeepsSightKeepsBlock
    <3> QED BY <3>1, <3>2, <3>3, <3>4, <3>5 DEF GateNext
  <2> QED BY <2>1, <2>2
<1> QED BY <1>1, <1>2, GateTypes, GateConfirmsOnce, PTL DEF GateSpec, OnceInv
=============================================================================
