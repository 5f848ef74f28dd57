-------------------------- MODULE LiveTradeProofs ---------------------------
(***************************************************************************)
(* Proofs about the live executor and the live reconciler: for any number  *)
(* of intents, executors and reconcilers, any index bound, any number of   *)
(* settle attempts and any number of faults.                               *)
(***************************************************************************)
EXTENDS LiveTradeProperties, FiniteSetTheorems, TLAPS

-----------------------------------------------------------------------------
(* Type correctness.                                                       *)

\* A process inside a call works on an intent.
WorksOnIntent ==
    /\ \A e \in Executors : pc[e] \notin {"idle", "done", "crashed"} => on[e] \in Intents
    /\ \A r \in Reconcilers : pc[r] \notin {"idle", "next"} => on[r] \in Intents

TypeInv == TypeOK /\ WorksOnIntent

\* Taking an intent out of the index leaves an index.
LEMMA WithoutType ==
    ASSUME NEW s \in Seq(Intents), NEW i \in Intents
    PROVE  Without(s, i) \in Seq(Intents)
<1>1. CASE \E k \in 1..Len(s) : s[k] = i
  <2> DEFINE k == CHOOSE k \in 1..Len(s) : s[k] = i
  <2>1. k \in 1..Len(s) BY <1>1
  <2>2. Without(s, i) = [j \in 1..(Len(s) - 1) |-> s[IF j < k THEN j ELSE j + 1]]
    BY <1>1 DEF Without
  <2> HIDE DEF k
  <2>3. Len(s) \in Nat /\ Len(s) - 1 \in Nat BY <2>1
  <2>4. \A j \in 1..(Len(s) - 1) : s[IF j < k THEN j ELSE j + 1] \in Intents
    BY <2>1, <2>3
  <2> QED BY <2>2, <2>3, <2>4
<1>2. CASE ~ \E k \in 1..Len(s) : s[k] = i
  BY <1>2 DEF Without
<1> QED BY <1>1, <1>2

\* So does the bound of the index.
LEMMA NewestType ==
    ASSUME NEW s \in Seq(Intents)
    PROVE  Newest(s) \in Seq(Intents)
<1>1. CASE Len(s) <= IndexCap BY <1>1 DEF Newest
<1>2. CASE ~(Len(s) <= IndexCap)
  <2>1. IndexCap \in Nat \ {0} BY StoreAssumption DEF StoreAssumption
  <2>2. Newest(s) = [j \in 1..IndexCap |-> s[Len(s) - IndexCap + j]]
    BY <1>2 DEF Newest
  <2>3. \A j \in 1..IndexCap : s[Len(s) - IndexCap + j] \in Intents
    BY <1>2, <2>1
  <2> QED BY <2>1, <2>2, <2>3
<1> QED BY <1>1, <1>2

LEMMA ReindexedType ==
    ASSUME NEW s \in Seq(Intents), NEW i \in Intents, NEW row
    PROVE  Reindexed(s, i, row) \in Seq(Intents)
<1>1. Without(s, i) \in Seq(Intents) BY WithoutType
<1>2. Append(Without(s, i), i) \in Seq(Intents) BY <1>1
<1> QED BY <1>1, <1>2, NewestType DEF Reindexed

\* A call of writeTradeState starts with well-typed locals.
LEMMA BeginWriteType ==
    ASSUME StoreTypeOK,
           NEW p \in Procs, NEW i \in Intents, NEW state \in TradeStates,
           NEW flags \in SUBSET Flags, NEW exit \in Exits,
           BeginWrite(p, i, state, flags, exit)
    PROVE  w' \in [Procs -> Calls \cup {NoCall}]
<1>1. [state |-> state, flags |-> flags, exit |-> exit] \in Rows
  BY DEF Rows
<1>2. <<>> \in Seq(Intents) OBVIOUS
<1>3. [step |-> "get", intent |-> i, index |-> <<>>,
       row |-> [state |-> state, flags |-> flags, exit |-> exit]] \in Calls
  BY <1>1, <1>2 DEF Calls
<1> QED BY <1>3 DEF StoreTypeOK, BeginWrite

\* A step of a call keeps the store well typed.
LEMMA StoreStepType ==
    ASSUME StoreTypeOK, NEW p \in Procs, StoreStep(p)
    PROVE  StoreTypeOK'
<1>1. w[p] \in Calls
  <2>1. w[p].step # "none"
    BY DEF StoreStep, WriteGet, WritePut, IndexGet, IndexPut
  <2> QED BY <2>1 DEF StoreTypeOK, NoCall
<1>2. /\ w[p].intent \in Intents
      /\ w[p].row \in Rows
      /\ w[p].index \in Seq(Intents)
  BY <1>1 DEF Calls
<1>3. CASE WriteGet(p)
  <2>1. Merge(trade[w[p].intent], w[p].row) \in Rows
    BY <1>2 DEF StoreTypeOK, Rows, Merge
  <2>2. [w[p] EXCEPT !.step = "put", !.row = Merge(trade[w[p].intent], w[p].row)] \in Calls
    BY <1>1, <2>1 DEF Calls
  <2> QED BY <1>3, <2>2 DEF WriteGet, StoreTypeOK
<1>4. CASE WritePut(p)
  <2>1. [w[p] EXCEPT !.step = "ixget"] \in Calls BY <1>1 DEF Calls
  <2> QED BY <1>2, <1>4, <2>1 DEF WritePut, StoreTypeOK
<1>5. CASE IndexGet(p)
  <2>1. [w[p] EXCEPT !.step = "ixput", !.index = index] \in Calls
    BY <1>1 DEF Calls, StoreTypeOK
  <2> QED BY <1>5, <2>1 DEF IndexGet, StoreTypeOK
<1>6. CASE IndexPut(p)
  <2>1. index' \in Seq(Intents) BY <1>2, <1>6, ReindexedType DEF IndexPut
  <2> QED BY <1>6, <2>1 DEF IndexPut, StoreTypeOK
<1> QED BY <1>3, <1>4, <1>5, <1>6 DEF StoreStep

-----------------------------------------------------------------------------
(* The steps of an executor that owns an intent, abstracted: what each of   *)
(* its actions may do to the store, to the exchange and to its own locals.  *)

StoreMove(e) ==
    \/ UNCHANGED storeVars
    \/ /\ \E s \in TradeStates, f \in SUBSET Flags : BeginWrite(e, on[e], s, f, "none")
       /\ UNCHANGED <<trade, index>>

ExchangeMove(e) ==
    \/ UNCHANGED exchangeVars
    \/ pc[e] = "buySend" /\ Send("buy", on[e])
    \/ \E k \in {"oco", "emg"} : Send(k, on[e])
    \/ \E k \in Kinds : GiveUp(k, on[e])
    \/ CancelEntry(on[e])

OwnerStep(e) ==
    /\ Ready(e)
    /\ pc[e] # "idle"
    /\ on[e] \in Intents
    /\ StoreMove(e)
    /\ ExchangeMove(e)
    /\ \E l \in ExecutorPcs \ {"idle"} :
        /\ pc' = [pc EXCEPT ![e] = l]
        /\ l \in BeforeEntry => pc[e] \in BeforeEntry \ {"buySend"}
    /\ ex' \in [Executors -> ExecutorLocals]
    /\ faults' \in 0..MaxFaults
    /\ UNCHANGED <<on, rc, books>>

LEMMA FaultType ==
    ASSUME TypeOK, Fault \/ NoFault
    PROVE  faults' \in 0..MaxFaults
BY LiveAssumption DEF LiveAssumption, TypeOK, BooksTypeOK, Fault, NoFault

LEMMA LocalsOf ==
    ASSUME TypeOK, NEW e \in Executors
    PROVE  /\ ex[e] \in ExecutorLocals
           /\ ex[e].seen \in Orders
           /\ ex[e].polls \in 0..SettleAttempts
           /\ e \in Procs
           /\ \A ret \in Returns : [ex EXCEPT ![e].ret = ret] \in [Executors -> ExecutorLocals]
           /\ \A x \in ExecutorLocals : [ex EXCEPT ![e] = x] \in [Executors -> ExecutorLocals]
BY LiveAssumption
   DEF LiveAssumption, TypeOK, LocalsTypeOK, ExecutorLocals, Returns

LEMMA SeenIsLocal ==
    ASSUME NEW x \in ExecutorLocals, NEW seen \in Orders, NEW polls \in 0..SettleAttempts
    PROVE  /\ [x EXCEPT !.seen = seen, !.polls = polls] \in ExecutorLocals
           /\ [x EXCEPT !.seen = seen] \in ExecutorLocals
BY DEF ExecutorLocals

\* The marks and states the executor writes are the store's.
LEMMA WriteIsStoreMove ==
    ASSUME NEW e \in Executors, NEW s \in TradeStates, NEW f \in SUBSET Flags,
           Write(e, s, f)
    PROVE  StoreMove(e)
BY DEF Write, StoreMove

LEMMA FinishIsMove ==
    ASSUME TypeOK, NEW e \in Executors,
           NEW s \in TradeStates, NEW f \in SUBSET Flags, NEW ret \in Returns,
           Finish(e, s, f, ret)
    PROVE  /\ StoreMove(e)
           /\ pc' = [pc EXCEPT ![e] = "done"]
           /\ ex' \in [Executors -> ExecutorLocals]
BY LocalsOf, WriteIsStoreMove DEF Finish, Return, Goto

\* The parts of an owner's step, put together.
LEMMA OwnerMove ==
    ASSUME TypeInv, NEW e \in Executors, NEW l \in ExecutorPcs \ {"idle"},
           Ready(e), pc[e] \notin {"idle", "done", "crashed"},
           StoreMove(e), ExchangeMove(e),
           pc' = [pc EXCEPT ![e] = l],
           l \in BeforeEntry => pc[e] \in BeforeEntry \ {"buySend"},
           ex' \in [Executors -> ExecutorLocals],
           Fault \/ NoFault,
           ExecutorFrame
    PROVE  OwnerStep(e)
BY FaultType DEF TypeInv, WorksOnIntent, ExecutorFrame, OwnerStep

LEMMA BuyIsOwnerStep ==
    ASSUME TypeInv, NEW e \in Executors,
           \/ PassGate(e) \/ BlockAtGate(e) \/ RefusePreTrade(e)
           \/ BuyQuery(e) \/ BuySend(e) \/ BuyAccepted(e) \/ BuyRejected(e)
           \/ BuyUnknown(e) \/ BuyRequery(e)
    PROVE  OwnerStep(e)
<1> USE DEF At, Goto, ExecutorFrame, NoWrite, BeforeEntry, ExecutorPcs
<1> DEFINE Marks == {{}, Position}
<1>0. /\ TypeOK
      /\ Marks \subseteq SUBSET Flags
      /\ {"APPROVED", "ENTRY_SUBMITTING", "ENTRY_ACCEPTED", "FAILED_SAFE"} \subseteq TradeStates
      /\ {"RECONCILE", "NO_POSITION", "OK"} \subseteq Returns
  BY DEF TypeInv, Flags, Position, TradeStates, Returns
<1>1. /\ \A e1 \in Executors : pc[e1] \notin {"idle", "done", "crashed"} => on[e1] \in Intents
      /\ \A ret \in Returns : Return(e, ret) =>
            pc' = [pc EXCEPT ![e] = "done"] /\ ex' \in [Executors -> ExecutorLocals]
  BY <1>0, LocalsOf DEF TypeInv, WorksOnIntent, Return
<1>2. \A i \in Intents : [ex[e] EXCEPT !.seen = buy[i], !.polls = 0] \in ExecutorLocals
  <2>1. 0 \in 0..SettleAttempts BY LiveAssumption DEF LiveAssumption
  <2>2. ex[e] \in ExecutorLocals BY <1>0, LocalsOf
  <2>3. \A i \in Intents : buy[i] \in Orders BY <1>0 DEF TypeOK, ExchangeTypeOK
  <2> QED BY <2>1, <2>2, <2>3, SeenIsLocal
<1>3. ex \in [Executors -> ExecutorLocals] BY <1>0 DEF TypeOK, LocalsTypeOK
<1>4. CASE PassGate(e)
  BY <1>0, <1>1, <1>3, <1>4, FaultType DEF PassGate, OwnerStep, StoreMove, ExchangeMove
<1>5. CASE BlockAtGate(e)
  BY <1>0, <1>1, <1>5, FaultType, FinishIsMove DEF BlockAtGate, OwnerStep, ExchangeMove
<1>6. CASE RefusePreTrade(e)
  BY <1>0, <1>1, <1>6, FaultType, FinishIsMove DEF RefusePreTrade, OwnerStep, ExchangeMove
<1>7. CASE BuyQuery(e)
  <2>1. Write(e, "ENTRY_SUBMITTING", {}) => StoreMove(e) BY <1>0, WriteIsStoreMove
  <2>2. on[e] \in Intents /\ pc[e] = "buyQuery"
    BY <1>0, <1>1, <1>7 DEF BuyQuery
  <2>3. StoreMove(e) /\ ex' \in [Executors -> ExecutorLocals]
    BY <1>0, <1>1, <1>2, <1>3, <1>7, <2>1, <2>2, LocalsOf DEF BuyQuery, StoreMove, Local
  <2>4. PICK l \in {"settle", "buySend", "done"} : pc' = [pc EXCEPT ![e] = l]
    BY <1>0, <1>1, <1>7 DEF BuyQuery
  <2>5. ExchangeMove(e) /\ (Fault \/ NoFault) /\ ExecutorFrame /\ Ready(e)
    BY <1>7 DEF BuyQuery, ExchangeMove
  <2> QED BY <1>0, <2>2, <2>3, <2>4, <2>5, OwnerMove
<1>8. CASE BuySend(e)
  BY <1>0, <1>1, <1>3, <1>8, FaultType DEF BuySend, OwnerStep, StoreMove, ExchangeMove
<1>9. CASE BuyAccepted(e)
  <2>1. StoreMove(e) BY <1>0, <1>9, WriteIsStoreMove DEF BuyAccepted
  <2>2. ex' \in [Executors -> ExecutorLocals]
    BY <1>0, <1>1, <1>2, <1>9, LocalsOf DEF BuyAccepted, Local
  <2> QED BY <1>9, <2>1, <2>2, OwnerMove DEF BuyAccepted, ExchangeMove
<1>10. CASE BuyRejected(e)
  BY <1>0, <1>1, <1>10, FaultType, FinishIsMove DEF BuyRejected, OwnerStep, ExchangeMove
<1>11. CASE BuyUnknown(e)
  <2>1. ExchangeMove(e) BY <1>11 DEF BuyUnknown, ExchangeMove, Kinds
  <2> QED BY <1>0, <1>1, <1>3, <1>11, <2>1, FaultType DEF BuyUnknown, OwnerStep, StoreMove
<1>12. CASE BuyRequery(e)
  <2>1. on[e] \in Intents /\ pc[e] = "buyRequery"
    BY <1>1, <1>12 DEF BuyRequery
  <2>2. ex' \in [Executors -> ExecutorLocals]
    BY <1>0, <1>1, <1>2, <1>12, <2>1, LocalsOf DEF BuyRequery, Local
  <2>3. PICK l \in {"settle", "done"} : pc' = [pc EXCEPT ![e] = l]
    BY <1>0, <1>1, <1>12 DEF BuyRequery
  <2> QED BY <1>12, <2>1, <2>2, <2>3, OwnerMove DEF BuyRequery, StoreMove, ExchangeMove
<1> QED BY <1>4, <1>5, <1>6, <1>7, <1>8, <1>9, <1>10, <1>11, <1>12

\* A final entry order is recorded and goes on, or the call ends.
LEMMA SettledIsMove ==
    ASSUME TypeOK, NEW e \in Executors, NEW order \in Orders, Settled(e, order)
    PROVE  /\ StoreMove(e)
           /\ \E l \in {"filled", "done"} : pc' = [pc EXCEPT ![e] = l]
           /\ ex' \in [Executors -> ExecutorLocals]
<1>0. /\ {"FILLED", "PARTIALLY_FILLED", "FAILED_SAFE"} \subseteq TradeStates
      /\ {} \in SUBSET Flags
      /\ "NO_POSITION" \in Returns
  BY DEF TradeStates, Returns
<1>1. CASE order.qty > 0
  <2>1. StoreMove(e) BY <1>0, <1>1, WriteIsStoreMove DEF Settled
  <2>2. 0 \in 0..SettleAttempts BY LiveAssumption DEF LiveAssumption
  <2>3. [ex[e] EXCEPT !.seen = order] \in ExecutorLocals
    BY <2>2, LocalsOf, SeenIsLocal
  <2>4. ex' \in [Executors -> ExecutorLocals]
    BY <1>1, <2>3, LocalsOf DEF Settled, Local
  <2> QED BY <1>1, <2>1, <2>4 DEF Settled, Goto
<1>2. CASE ~(order.qty > 0)
  BY <1>0, <1>2, FinishIsMove DEF Settled
<1> QED BY <1>1, <1>2

LEMMA SettleIsOwnerStep ==
    ASSUME TypeInv, NEW e \in Executors,
           \/ SettleFinal(e) \/ SettlePoll(e) \/ SettleExhausted(e)
           \/ CancelRest(e) \/ FinalQuery(e) \/ Filled(e)
    PROVE  OwnerStep(e)
<1> USE DEF At, Goto, ExecutorFrame, NoWrite, BeforeEntry, ExecutorPcs
<1>0. /\ TypeOK
      /\ {} \in SUBSET Flags /\ Position \in SUBSET Flags
      /\ {"FILLED", "PARTIALLY_FILLED", "FAILED_SAFE"} \subseteq TradeStates
      /\ "RECONCILE" \in Returns
  BY DEF TypeInv, Flags, Position, TradeStates, Returns
<1>1. /\ pc[e] \notin {"idle", "done", "crashed"} => on[e] \in Intents
      /\ \A ret \in Returns : Return(e, ret) =>
            pc' = [pc EXCEPT ![e] = "done"] /\ ex' \in [Executors -> ExecutorLocals]
  BY <1>0, LocalsOf DEF TypeInv, WorksOnIntent, Return
<1>2. /\ ex \in [Executors -> ExecutorLocals]
      /\ ex[e] \in ExecutorLocals
      /\ ex[e].seen \in Orders
      /\ \A i \in Intents : buy[i] \in Orders
  BY <1>0, LocalsOf DEF TypeOK, LocalsTypeOK, ExchangeTypeOK
<1>3. CASE SettleFinal(e)
  <2>1. Settled(e, ex[e].seen) BY <1>3 DEF SettleFinal
  <2>2. StoreMove(e) /\ ex' \in [Executors -> ExecutorLocals]
    BY <1>0, <1>2, <2>1, SettledIsMove
  <2>3. PICK l \in {"filled", "done"} : pc' = [pc EXCEPT ![e] = l]
    BY <1>0, <1>2, <2>1, SettledIsMove
  <2> QED BY <1>3, <2>2, <2>3, OwnerMove DEF SettleFinal, ExchangeMove
<1>4. CASE SettlePoll(e)
  <2>1. pc[e] = "settle" /\ on[e] \in Intents BY <1>1, <1>4 DEF SettlePoll
  <2>2. ex[e].polls + 1 \in 0..SettleAttempts
    BY <1>0, <1>4, LocalsOf, LiveAssumption DEF LiveAssumption, SettlePoll
  <2>3. \A order \in Orders :
          [ex[e] EXCEPT !.seen = order, !.polls = @ + 1] \in ExecutorLocals
    BY <1>2, <2>2, SeenIsLocal
  <2>4. ex' \in [Executors -> ExecutorLocals]
    <3> DEFINE order == IF ex[e].polls = 0 THEN ex[e].seen ELSE buy[on[e]]
    <3>1. order \in Orders BY <1>2, <2>1
    <3>2. \/ Local(e, [ex[e] EXCEPT !.seen = order, !.polls = @ + 1])
          \/ Return(e, "RECONCILE")
      BY <1>4 DEF SettlePoll
    <3> HIDE DEF order
    <3>3. CASE Local(e, [ex[e] EXCEPT !.seen = order, !.polls = @ + 1])
      BY <1>0, <2>3, <3>1, <3>3, LocalsOf DEF Local
    <3> QED BY <1>0, <1>1, <3>2, <3>3
  <2>5. PICK l \in {"settle", "cancel", "done"} : pc' = [pc EXCEPT ![e] = l]
    BY <1>0, <1>1, <1>4 DEF SettlePoll
  <2> QED BY <1>4, <2>1, <2>4, <2>5, OwnerMove DEF SettlePoll, StoreMove, ExchangeMove
<1>5. CASE SettleExhausted(e)
  <2>1. ex' \in [Executors -> ExecutorLocals]
    BY <1>0, <1>1, <1>2, <1>5 DEF SettleExhausted
  <2>2. PICK l \in {"cancel", "done"} : pc' = [pc EXCEPT ![e] = l]
    BY <1>0, <1>1, <1>5 DEF SettleExhausted
  <2> QED BY <1>5, <2>1, <2>2, OwnerMove DEF SettleExhausted, StoreMove, ExchangeMove
<1>6. CASE CancelRest(e)
  <2>1. ex' \in [Executors -> ExecutorLocals]
    BY <1>0, <1>1, <1>2, <1>6 DEF CancelRest
  <2>2. PICK l \in {"finalQuery", "done"} : pc' = [pc EXCEPT ![e] = l]
    BY <1>0, <1>1, <1>6 DEF CancelRest
  <2> QED BY <1>6, <2>1, <2>2, OwnerMove DEF CancelRest, StoreMove, ExchangeMove
<1>7. CASE FinalQuery(e)
  <2>1. pc[e] = "finalQuery" /\ on[e] \in Intents BY <1>1, <1>7 DEF FinalQuery
  <2>2. \/ Settled(e, buy[on[e]])
        \/ Return(e, "RECONCILE") /\ NoWrite
    BY <1>7 DEF FinalQuery
  <2>3. StoreMove(e) /\ ex' \in [Executors -> ExecutorLocals]
    BY <1>0, <1>1, <1>2, <2>1, <2>2, SettledIsMove DEF StoreMove
  <2>4. PICK l \in {"filled", "done"} : pc' = [pc EXCEPT ![e] = l]
    BY <1>0, <1>1, <1>2, <2>1, <2>2, SettledIsMove
  <2> QED BY <1>7, <2>1, <2>3, <2>4, OwnerMove DEF FinalQuery, ExchangeMove
<1>8. CASE Filled(e)
  <2>1. StoreMove(e) /\ ex' \in [Executors -> ExecutorLocals]
    BY <1>0, <1>2, <1>8, WriteIsStoreMove, FinishIsMove DEF Filled
  <2>2. PICK l \in {"normalize", "done"} : pc' = [pc EXCEPT ![e] = l]
    BY <1>0, <1>8, FinishIsMove DEF Filled
  <2> QED BY <1>8, <2>1, <2>2, OwnerMove DEF Filled, ExchangeMove
<1> QED BY <1>3, <1>4, <1>5, <1>6, <1>7, <1>8

LEMMA ProtectIsOwnerStep ==
    ASSUME TypeInv, NEW e \in Executors,
           \/ Normalize(e)
           \/ OcoFound(e) \/ OcoQuery(e) \/ OcoSend(e) \/ OcoAccepted(e)
           \/ OcoNotAccepted(e) \/ OcoRequery(e)
           \/ EmgQuery(e) \/ EmgSend(e) \/ EmgAccepted(e) \/ EmgNotAccepted(e)
           \/ EmgRequery(e)
    PROVE  OwnerStep(e)
<1> USE DEF At, Goto, ExecutorFrame, NoWrite, BeforeEntry, ExecutorPcs
<1>0. /\ TypeOK
      /\ {} \in SUBSET Flags /\ Position \in SUBSET Flags
      /\ {"emergencyClosed"} \in SUBSET Flags /\ {"protectionIds"} \in SUBSET Flags
      /\ {"PROTECTION_PENDING", "PROTECTED", "FAILED_SAFE"} \subseteq TradeStates
      /\ {"RECONCILE", "OK"} \subseteq Returns
  BY DEF TypeInv, Flags, Position, TradeStates, Returns
<1>1. ex \in [Executors -> ExecutorLocals] /\ ex[e] \in ExecutorLocals
  BY <1>0, LocalsOf DEF TypeOK, LocalsTypeOK
<1>2. \A answer \in {"reject", "unknown", "other"} :
        Local(e, [ex[e] EXCEPT !.sent = answer]) => ex' \in [Executors -> ExecutorLocals]
  <2>1. \A answer \in {"reject", "unknown", "other"} :
          [ex[e] EXCEPT !.sent = answer] \in ExecutorLocals
    BY <1>1 DEF ExecutorLocals
  <2> QED BY <1>0, <2>1, LocalsOf DEF Local
<1>3. /\ LeftOpen(e) \/ Closed(e) =>
           /\ StoreMove(e) /\ pc' = [pc EXCEPT ![e] = "done"]
           /\ ex' \in [Executors -> ExecutorLocals]
  BY <1>0, FinishIsMove DEF LeftOpen, Closed
<1>4. CASE Normalize(e)
  <2>1. StoreMove(e) BY <1>0, <1>4, WriteIsStoreMove DEF Normalize
  <2>2. PICK l \in {"ocoQuery", "emgQuery"} : pc' = [pc EXCEPT ![e] = l]
    BY <1>4 DEF Normalize
  <2> QED BY <1>1, <1>4, <2>1, <2>2, OwnerMove DEF Normalize, ExchangeMove
<1>5. CASE OcoFound(e)
  <2>1. Finish(e, "PROTECTED", {}, "OK") BY <1>5 DEF OcoFound
  <2> QED BY <1>0, <1>5, <2>1, FinishIsMove, OwnerMove DEF OcoFound, ExchangeMove
<1>6. CASE OcoQuery(e)
  <2>1. StoreMove(e) /\ ex' \in [Executors -> ExecutorLocals]
    BY <1>0, <1>1, <1>6, FinishIsMove DEF OcoQuery, StoreMove
  <2>2. PICK l \in {"ocoSend", "done"} : pc' = [pc EXCEPT ![e] = l]
    BY <1>0, <1>6, FinishIsMove DEF OcoQuery
  <2> QED BY <1>6, <2>1, <2>2, OwnerMove DEF OcoQuery, ExchangeMove
<1>7. CASE OcoSend(e)
  <2>1. ExchangeMove(e) BY <1>7 DEF OcoSend, ExchangeMove
  <2>2. ex' \in [Executors -> ExecutorLocals] BY <1>1, <1>2, <1>7 DEF OcoSend
  <2>3. PICK l \in {"ocoWait", "ocoRequery"} : pc' = [pc EXCEPT ![e] = l]
    BY <1>7 DEF OcoSend
  <2> QED BY <1>7, <2>1, <2>2, <2>3, OwnerMove DEF OcoSend, StoreMove
<1>8. CASE OcoAccepted(e)
  <2>1. Finish(e, "PROTECTED", {}, "OK") BY <1>8 DEF OcoAccepted
  <2> QED BY <1>0, <1>8, <2>1, FinishIsMove, OwnerMove DEF OcoAccepted, ExchangeMove
<1>9. CASE OcoNotAccepted(e)
  <2>1. ExchangeMove(e) BY <1>9 DEF OcoNotAccepted, ExchangeMove, Kinds
  <2>2. ex' \in [Executors -> ExecutorLocals] BY <1>2, <1>9 DEF OcoNotAccepted
  <2> QED BY <1>9, <2>1, <2>2, OwnerMove DEF OcoNotAccepted, StoreMove
<1>10. CASE OcoRequery(e)
  <2>1. StoreMove(e) /\ ex' \in [Executors -> ExecutorLocals]
    BY <1>0, <1>1, <1>10, FinishIsMove DEF OcoRequery, StoreMove
  <2>2. PICK l \in {"emgQuery", "done"} : pc' = [pc EXCEPT ![e] = l]
    BY <1>0, <1>10, FinishIsMove DEF OcoRequery
  <2> QED BY <1>10, <2>1, <2>2, OwnerMove DEF OcoRequery, ExchangeMove
<1>11. CASE EmgQuery(e)
  <2>1. StoreMove(e) /\ ex' \in [Executors -> ExecutorLocals]
    BY <1>1, <1>3, <1>11 DEF EmgQuery, StoreMove
  <2>2. PICK l \in {"emgSend", "done"} : pc' = [pc EXCEPT ![e] = l]
    BY <1>3, <1>11 DEF EmgQuery
  <2> QED BY <1>11, <2>1, <2>2, OwnerMove DEF EmgQuery, ExchangeMove
<1>12. CASE EmgSend(e)
  <2>1. ExchangeMove(e) BY <1>12 DEF EmgSend, ExchangeMove
  <2>2. PICK l \in {"emgWait", "emgRequery"} : pc' = [pc EXCEPT ![e] = l]
    BY <1>12 DEF EmgSend
  <2> QED BY <1>1, <1>12, <2>1, <2>2, OwnerMove DEF EmgSend, StoreMove
<1>13. CASE EmgAccepted(e)
  BY <1>3, <1>13, OwnerMove DEF EmgAccepted, ExchangeMove
<1>14. CASE EmgNotAccepted(e)
  <2>1. ExchangeMove(e) BY <1>14 DEF EmgNotAccepted, ExchangeMove, Kinds
  <2> QED BY <1>1, <1>14, <2>1, OwnerMove DEF EmgNotAccepted, StoreMove
<1>15. CASE EmgRequery(e)
  <2>1. LeftOpen(e) \/ Closed(e) BY <1>15 DEF EmgRequery
  <2> QED BY <1>3, <1>15, <2>1, OwnerMove DEF EmgRequery, ExchangeMove
<1> QED BY <1>4, <1>5, <1>6, <1>7, <1>8, <1>9, <1>10, <1>11, <1>12, <1>13,
           <1>14, <1>15

\* Every step of an executor but the claim is an owner's step.
LEMMA ExecutorStepIs ==
    ASSUME TypeInv, NEW e \in Executors, ExecutorStep(e)
    PROVE  \/ \E i \in Intents : ClaimIntent(e, i) \/ DuplicateIntent(e, i)
           \/ OwnerStep(e)
BY BuyIsOwnerStep, SettleIsOwnerStep, ProtectIsOwnerStep DEF ExecutorStep

-----------------------------------------------------------------------------
(* The type invariant is inductive.                                        *)

LEMMA StoreMoveType ==
    ASSUME TypeOK, NEW e \in Executors, on[e] \in Intents, StoreMove(e)
    PROVE  StoreTypeOK'
<1>1. StoreTypeOK /\ e \in Procs BY LocalsOf DEF TypeOK
<1>2. CASE UNCHANGED storeVars BY <1>1, <1>2 DEF storeVars, StoreTypeOK
<1>3. CASE /\ \E s \in TradeStates, f \in SUBSET Flags :
                BeginWrite(e, on[e], s, f, "none")
           /\ UNCHANGED <<trade, index>>
  <2>1. "none" \in Exits BY DEF Exits
  <2>2. w' \in [Procs -> Calls \cup {NoCall}] BY <1>1, <1>3, <2>1, BeginWriteType
  <2> QED BY <1>1, <1>3, <2>2 DEF StoreTypeOK
<1> QED BY <1>2, <1>3 DEF StoreMove

LEMMA ExchangeMoveType ==
    ASSUME ExchangeTypeOK, NEW e \in Executors, on[e] \in Intents, ExchangeMove(e)
    PROVE  ExchangeTypeOK'
<1> USE DEF ExchangeTypeOK
<1>1. CASE UNCHANGED exchangeVars BY <1>1 DEF exchangeVars
<1>2. CASE \E k \in Kinds : Send(k, on[e])
  <2>1. PICK k \in Kinds : Send(k, on[e]) BY <1>2
  <2>2. net' \in [Kinds -> [Intents -> {"none", "sent", "ok", "reject", "lost"}]]
    BY <2>1 DEF Send
  <2>3. posts' \in [Intents -> Nat] BY <2>1 DEF Send
  <2> QED BY <2>1, <2>2, <2>3 DEF Send
<1>3. CASE \E k \in Kinds : GiveUp(k, on[e])
  <2>1. PICK k \in Kinds : GiveUp(k, on[e]) BY <1>3
  <2>2. net' \in [Kinds -> [Intents -> {"none", "sent", "ok", "reject", "lost"}]]
    BY <2>1 DEF GiveUp
  <2> QED BY <2>1, <2>2 DEF GiveUp
<1>4. CASE CancelEntry(on[e])
  <2>1. \A i \in Intents : [buy[i] EXCEPT !.status = "CANCELED"] \in Orders
    BY DEF Orders, TerminalEntry
  <2>2. \A i \in Intents : [buy[i] EXCEPT !.status = "CANCELED"].qty = buy[i].qty
    BY DEF Orders
  <2>3. buy' \in [Intents -> Orders] BY <1>4, <2>1 DEF CancelEntry
  <2>4. \A i \in Intents : held'[i] <= buy'[i].qty BY <1>4, <2>2 DEF CancelEntry
  <2> QED BY <1>4, <2>3, <2>4 DEF CancelEntry
<1> QED BY <1>1, <1>2, <1>3, <1>4 DEF ExchangeMove, Kinds

\* The exchange's own steps.
LEMMA EnvironmentType ==
    ASSUME ExchangeTypeOK, NEW i \in Intents, ExchangeStep(i)
    PROVE  ExchangeTypeOK'
<1> USE DEF ExchangeTypeOK, Lot
<1>0. /\ buy[i] \in Orders /\ buy[i].qty \in 0..Lot
      /\ held[i] \in 0..Lot /\ held[i] <= buy[i].qty
  BY DEF Orders
<1>1. \A k \in Kinds, a \in {"ok", "reject"} : Answer(k, i, a) =>
        net' \in [Kinds -> [Intents -> {"none", "sent", "ok", "reject", "lost"}]]
  BY DEF Answer
<1>2. CASE \E k \in Kinds : Reject(k, i) BY <1>1, <1>2 DEF Reject
<1>3. CASE AcceptBuy(i)
  <2>1. [buy[i] EXCEPT !.status = "NEW"] \in Orders
    BY <1>0 DEF Orders, OpenEntry
  <2>2. buy' \in [Intents -> Orders] BY <1>3, <2>1 DEF AcceptBuy
  <2>3. \A j \in Intents : held'[j] <= buy'[j].qty BY <1>0, <1>3 DEF AcceptBuy, Orders
  <2> QED BY <1>1, <1>3, <2>2, <2>3 DEF AcceptBuy, Kinds
<1>4. CASE FillBuy(i)
  <2>1. PICK q \in (buy[i].qty + 1)..Lot :
          /\ buy' = [buy EXCEPT ![i] =
                [status |-> IF q = Lot THEN "FILLED" ELSE "PARTIALLY_FILLED", qty |-> q]]
          /\ held' = [held EXCEPT ![i] = @ + q - buy[i].qty]
    BY <1>4 DEF FillBuy
  <2>2. q \in 0..Lot /\ held[i] + q - buy[i].qty \in 0..Lot
        /\ held[i] + q - buy[i].qty <= q
    BY <1>0
  <2>3. [status |-> IF q = Lot THEN "FILLED" ELSE "PARTIALLY_FILLED", qty |-> q] \in Orders
    BY <2>2 DEF Orders, OpenEntry, TerminalEntry
  <2>4. buy' \in [Intents -> Orders] BY <2>1, <2>3
  <2>5. held' \in [Intents -> 0..Lot] BY <2>1, <2>2
  <2>6. \A j \in Intents : held'[j] <= buy'[j].qty BY <2>1, <2>2
  <2> QED BY <1>4, <2>4, <2>5, <2>6 DEF FillBuy
<1>5. CASE ExpireBuy(i)
  <2>1. [buy[i] EXCEPT !.status = "CANCELED"] \in Orders
    BY <1>0 DEF Orders, TerminalEntry
  <2>2. buy' \in [Intents -> Orders] BY <1>5, <2>1 DEF ExpireBuy
  <2>3. \A j \in Intents : held'[j] <= buy'[j].qty BY <1>0, <1>5 DEF ExpireBuy, Orders
  <2> QED BY <1>5, <2>2, <2>3 DEF ExpireBuy
<1>6. CASE AcceptOco(i) BY <1>1, <1>6 DEF AcceptOco, Kinds
<1>7. CASE ExecuteOco(i) BY <1>0, <1>7 DEF ExecuteOco
<1>8. CASE AcceptEmergency(i) BY <1>0, <1>1, <1>8 DEF AcceptEmergency, Kinds
<1>9. CASE OwnerCancelsOco(i) BY <1>9 DEF OwnerCancelsOco
<1>10. CASE OwnerSells(i) BY <1>0, <1>10 DEF OwnerSells
<1> QED BY <1>2, <1>3, <1>4, <1>5, <1>6, <1>7, <1>8, <1>9, <1>10 DEF ExchangeStep

LEMMA OwnerStepType ==
    ASSUME TypeInv, NEW e \in Executors, OwnerStep(e)
    PROVE  TypeInv'
<1>0. TypeOK /\ WorksOnIntent /\ e \in Procs /\ e \notin Reconcilers
  BY LiveAssumption DEF LiveAssumption, TypeInv
<1>1. StoreTypeOK' BY <1>0, StoreMoveType DEF OwnerStep
<1>2. ExchangeTypeOK' BY <1>0, ExchangeMoveType DEF OwnerStep, TypeOK
<1>3. PICK l \in ExecutorPcs \ {"idle"} : pc' = [pc EXCEPT ![e] = l] BY DEF OwnerStep
<1>4. LocalsTypeOK' BY <1>0, <1>3 DEF OwnerStep, TypeOK, LocalsTypeOK
<1>5. BooksTypeOK' BY <1>0 DEF OwnerStep, TypeOK, BooksTypeOK, books
<1>6. WorksOnIntent'
  BY <1>0, <1>3 DEF OwnerStep, WorksOnIntent, TypeOK, LocalsTypeOK
<1> QED BY <1>1, <1>2, <1>4, <1>5, <1>6 DEF TypeInv, TypeOK

LEMMA ClaimType ==
    ASSUME TypeInv, NEW e \in Executors, NEW i \in Intents,
           ClaimIntent(e, i) \/ DuplicateIntent(e, i)
    PROVE  TypeInv'
<1>0. TypeOK /\ WorksOnIntent /\ e \in Procs /\ e \notin Reconcilers
  BY LiveAssumption DEF LiveAssumption, TypeInv
<1> USE DEF TypeOK
<1>1. CASE ClaimIntent(e, i)
  <2>1. w' \in [Procs -> Calls \cup {NoCall}]
    <3>1. "APPROVED" \in TradeStates /\ {} \in SUBSET Flags /\ "none" \in Exits
      BY DEF TradeStates, Exits
    <3> QED BY <1>0, <1>1, <3>1, BeginWriteType DEF ClaimIntent
  <2>2. [NoRow EXCEPT !.state = "SIGNAL_CREATED"] \in Rows
    BY DEF NoRow, Rows, TradeStates, Exits
  <2>3. StoreTypeOK' BY <1>0, <1>1, <2>1, <2>2 DEF ClaimIntent, ClaimRow, StoreTypeOK
  <2>4. ExchangeTypeOK' BY <1>0, <1>1 DEF ClaimIntent, exchangeVars, ExchangeTypeOK
  <2>5. LocalsTypeOK'
    BY <1>0, <1>1 DEF ClaimIntent, LocalsTypeOK, Goto, ExecutorPcs
  <2>6. BooksTypeOK' BY <1>0, <1>1 DEF ClaimIntent, BooksTypeOK, books
  <2>7. WorksOnIntent' BY <1>0, <1>1 DEF ClaimIntent, WorksOnIntent, LocalsTypeOK, Goto
  <2> QED BY <2>3, <2>4, <2>5, <2>6, <2>7 DEF TypeInv
<1>2. CASE DuplicateIntent(e, i)
  <2>1. ex' \in [Executors -> ExecutorLocals] /\ pc' = [pc EXCEPT ![e] = "done"]
    BY <1>0, <1>2, LocalsOf DEF DuplicateIntent, Return, Goto, Returns
  <2>2. StoreTypeOK' BY <1>0, <1>2 DEF DuplicateIntent, NoWrite, storeVars, StoreTypeOK
  <2>3. ExchangeTypeOK' BY <1>0, <1>2 DEF DuplicateIntent, exchangeVars, ExchangeTypeOK
  <2>4. LocalsTypeOK'
    BY <1>0, <1>2, <2>1 DEF DuplicateIntent, ExecutorFrame, LocalsTypeOK, ExecutorPcs
  <2>5. BooksTypeOK'
    BY <1>0, <1>2 DEF DuplicateIntent, ExecutorFrame, BooksTypeOK, books, NoFault
  <2>6. WorksOnIntent'
    BY <1>0, <1>2, <2>1 DEF DuplicateIntent, ExecutorFrame, WorksOnIntent, LocalsTypeOK
  <2> QED BY <2>2, <2>3, <2>4, <2>5, <2>6 DEF TypeInv
<1> QED BY <1>1, <1>2

-----------------------------------------------------------------------------
(* The steps of a reconciler, abstracted in the same way.                  *)

\* Where a reconciler has read the row it works on and found a trade.
Holding == {"reads", "trades", "lock", "pnlClaim", "dailyGet", "dailyPut"}

RunStep(r) ==
    /\ Ready(r)
    /\ \/ UNCHANGED storeVars
       \/ /\ pc[r] \in Holding /\ on[r] \in Intents
          /\ \E s \in TradeStates, f \in SUBSET Flags, x \in Exits : BeginWrite(r, on[r], s, f, x)
          /\ UNCHANGED <<trade, index>>
    /\ \E l \in ReconcilerPcs :
        /\ pc' = [pc EXCEPT ![r] = l]
        /\ l \notin {"idle", "next"} => on'[r] \in Intents
        /\ l \in Holding => /\ on' = on
                            /\ pc[r] \in Holding \/ trade[on[r]].state # "NONE"
    /\ \E o \in Intents \cup {NoIntent} : on' = [on EXCEPT ![r] = o]
    /\ rc' \in [Reconcilers -> ReconcilerLocals]
    /\ BooksTypeOK'
    /\ UNCHANGED <<exchangeVars, ex>>

LEMMA RunLocals ==
    ASSUME TypeInv, NEW r \in Reconcilers
    PROVE  /\ TypeOK /\ r \in Procs /\ r \notin Executors
           /\ rc[r] \in ReconcilerLocals
           /\ pc[r] \in ReconcilerPcs
           /\ pc[r] \notin {"idle", "next"} => on[r] \in Intents
           /\ on = [on EXCEPT ![r] = on[r]] /\ on[r] \in Intents \cup {NoIntent}
           /\ \A x \in ReconcilerLocals : [rc EXCEPT ![r] = x] \in [Reconcilers -> ReconcilerLocals]
           /\ rc \in [Reconcilers -> ReconcilerLocals]
BY LiveAssumption DEF LiveAssumption, TypeInv, TypeOK, LocalsTypeOK, WorksOnIntent

LEMMA SnapshotsType ==
    /\ Unread \in Snapshots /\ UnreadNoIds \in Snapshots
    /\ NoRow \in Rows
    /\ FreshReconciler \in ReconcilerLocals
<1>1. Unread \in Snapshots /\ UnreadNoIds \in Snapshots
  BY DEF Unread, UnreadNoIds, Snapshots
<1>2. NoRow \in Rows BY DEF NoRow, Rows, Exits
<1>3. <<>> \in Seq(Intents) OBVIOUS
<1>4. [i \in Intents |-> 0] \in [Intents -> Nat] OBVIOUS
<1> QED BY <1>1, <1>2, <1>3, <1>4 DEF FreshReconciler, ReconcilerLocals, Exits

\* Books that a step leaves alone stay well typed.
LEMMA BooksFrame ==
    ASSUME TypeOK, UNCHANGED books, Fault \/ NoFault
    PROVE  BooksTypeOK'
BY FaultType DEF TypeOK, BooksTypeOK, books

LEMMA WalkIsRunStep ==
    ASSUME TypeInv, NEW r \in Reconcilers,
           StartRun(r) \/ NextIntent(r) \/ ReadRow(r)
    PROVE  RunStep(r)
<1> USE DEF At, Goto, ReconcilerFrame, NoWrite, Holding, ReconcilerPcs
<1>1. CASE StartRun(r)
  <2>1. [rc[r] EXCEPT !.todo = index] \in ReconcilerLocals
    BY RunLocals DEF ReconcilerLocals, TypeOK, StoreTypeOK
  <2>2. rc' \in [Reconcilers -> ReconcilerLocals] BY <1>1, <2>1, RunLocals DEF StartRun
  <2>3. on' = [on EXCEPT ![r] = on[r]] BY <1>1, RunLocals DEF StartRun
  <2>4. BooksTypeOK' BY <1>1, RunLocals, BooksFrame DEF StartRun
  <2> QED BY <1>1, <2>2, <2>3, <2>4, RunLocals DEF StartRun, RunStep
<1>2. CASE NextIntent(r)
  <2>1. rc[r].todo \in Seq(Intents) BY RunLocals DEF ReconcilerLocals
  <2>2. BooksTypeOK' BY <1>2, RunLocals, BooksFrame DEF NextIntent
  <2>3. CASE rc[r].todo = <<>>
    BY <1>2, <2>2, <2>3, RunLocals, SnapshotsType DEF NextIntent, RunStep
  <2>4. CASE rc[r].todo # <<>>
    <3>1. Head(rc[r].todo) \in Intents /\ Tail(rc[r].todo) \in Seq(Intents)
      BY <2>1, <2>4
    <3>2. [FreshReconciler EXCEPT !.todo = Tail(rc[r].todo)] \in ReconcilerLocals
      BY <3>1, SnapshotsType DEF ReconcilerLocals
    <3>3. rc' \in [Reconcilers -> ReconcilerLocals]
      BY <1>2, <2>4, <3>2, RunLocals DEF NextIntent
    <3>4. on' = [on EXCEPT ![r] = Head(rc[r].todo)] /\ on'[r] = Head(rc[r].todo)
      BY <1>2, <2>4, RunLocals DEF NextIntent, TypeOK, LocalsTypeOK
    <3> QED BY <1>2, <2>2, <2>4, <3>1, <3>3, <3>4 DEF NextIntent, RunStep
  <2> QED BY <2>3, <2>4
<1>3. CASE ReadRow(r)
  <2>1. pc[r] = "row" /\ on[r] \in Intents BY <1>3, RunLocals DEF ReadRow
  <2>2. BooksTypeOK' BY <1>3, RunLocals, BooksFrame DEF ReadRow
  <2>3. on' = [on EXCEPT ![r] = on[r]] BY <1>3, RunLocals DEF ReadRow
  <2>4. CASE trade[on[r]].state \in Reconcilable
    <3>1. trade[on[r]].state # "NONE" BY <2>4 DEF Reconcilable
    <3>2. trade[on[r]] \in Rows BY <2>1, RunLocals DEF TypeOK, StoreTypeOK
    <3>3. \A snap \in Snapshots :
            [rc[r] EXCEPT !.row = trade[on[r]], !.snap = snap] \in ReconcilerLocals
      BY <3>2, RunLocals DEF ReconcilerLocals
    <3>4. rc' \in [Reconcilers -> ReconcilerLocals]
      BY <1>3, <2>4, <3>3, RunLocals, SnapshotsType DEF ReadRow
    <3> QED BY <1>3, <2>1, <2>2, <2>3, <2>4, <3>1, <3>4 DEF ReadRow, RunStep
  <2>5. CASE trade[on[r]].state \notin Reconcilable
    BY <1>3, <2>1, <2>2, <2>3, <2>5, RunLocals DEF ReadRow, RunStep
  <2> QED BY <2>4, <2>5
<1> QED BY <1>1, <1>2, <1>3

LEMMA ReadIsRunStep ==
    ASSUME TypeInv, NEW r \in Reconcilers,
           ReadExchange(r) \/ ReadFails(r) \/ Decide(r) \/ ReadTrades(r)
    PROVE  RunStep(r)
<1> USE DEF At, Goto, ReconcilerFrame, NoWrite, Holding, ReconcilerPcs
<1>1. CASE ReadExchange(r)
  <2>1. rc' \in [Reconcilers -> ReconcilerLocals]
    <3>1. rc[r].snap \in Snapshots BY RunLocals DEF ReconcilerLocals
    <3>2. /\ ListStatus(on[r]) \in {"ABSENT", "EXECUTING", "ALL_DONE"}
          /\ \A leg : LegStatus(on[r], leg) \in {"ABSENT", "NEW", "FILLED", "CANCELED"}
          /\ BaseBalance(on[r]) \in {"dust", "held"}
      BY DEF ListStatus, LegStatus, BaseBalance
    <3>3. /\ [rc[r].snap EXCEPT !.list = ListStatus(on[r])] \in Snapshots
          /\ \A leg : /\ [rc[r].snap EXCEPT !.tp = LegStatus(on[r], leg)] \in Snapshots
                      /\ [rc[r].snap EXCEPT !.sl = LegStatus(on[r], leg)] \in Snapshots
          /\ [rc[r].snap EXCEPT !.base = BaseBalance(on[r])] \in Snapshots
      BY <3>1, <3>2 DEF Snapshots
    <3>4. PICK snap \in Snapshots : rc' = [rc EXCEPT ![r].snap = snap]
      BY <1>1, <3>3 DEF ReadExchange, ReadOne
    <3>5. [rc[r] EXCEPT !.snap = snap] \in ReconcilerLocals
      BY RunLocals DEF ReconcilerLocals
    <3> QED BY <3>4, <3>5, RunLocals
  <2>2. on' = [on EXCEPT ![r] = on[r]] /\ pc' = [pc EXCEPT ![r] = "reads"]
        /\ pc[r] = "reads" /\ on[r] \in Intents
    BY <1>1, RunLocals DEF ReadExchange, ReadOne, TypeOK, LocalsTypeOK
  <2>3. BooksTypeOK' BY <1>1, RunLocals, BooksFrame DEF ReadExchange, ReadOne
  <2>4. /\ Ready(r) /\ UNCHANGED storeVars /\ UNCHANGED <<exchangeVars, ex, on>>
    BY <1>1 DEF ReadExchange, ReadOne
  <2> QED BY <2>1, <2>2, <2>3, <2>4, RunLocals DEF RunStep
<1>2. CASE ReadFails(r)
  <2>1. on' = [on EXCEPT ![r] = on[r]] BY <1>2, RunLocals DEF ReadFails
  <2>2. BooksTypeOK' BY <1>2, RunLocals, BooksFrame DEF ReadFails
  <2> QED BY <1>2, <2>1, <2>2, RunLocals DEF ReadFails, RunStep
<1>3. CASE Decide(r)
  <2>1. pc[r] = "reads" /\ on[r] \in Intents BY <1>3, RunLocals DEF Decide
  <2>2. on' = [on EXCEPT ![r] = on[r]] BY <1>3, RunLocals DEF Decide
  <2>3. BooksTypeOK' BY <1>3, RunLocals, BooksFrame DEF Decide
  <2>4. \/ UNCHANGED storeVars
        \/ /\ \/ BeginWrite(r, on[r], "EXITED", {}, "external")
              \/ BeginWrite(r, on[r], "FAILED_SAFE", Position, "none")
           /\ UNCHANGED <<trade, index>>
    BY <1>3 DEF Decide, storeVars
  <2>5. /\ "EXITED" \in TradeStates /\ "FAILED_SAFE" \in TradeStates
        /\ {} \in SUBSET Flags /\ Position \in SUBSET Flags
        /\ "external" \in Exits /\ "none" \in Exits
    BY DEF TradeStates, Flags, Position, Exits
  <2>6. PICK l \in {"next", "trades"} : pc' = [pc EXCEPT ![r] = l] BY <1>3 DEF Decide
  <2>7. /\ Ready(r) /\ UNCHANGED <<exchangeVars, ex, on, rc>> BY <1>3 DEF Decide
  <2> QED BY <2>1, <2>2, <2>3, <2>4, <2>5, <2>6, <2>7, RunLocals DEF RunStep
<1>4. CASE ReadTrades(r)
  <2>1. pc[r] = "trades" /\ on[r] \in Intents BY <1>4, RunLocals DEF ReadTrades
  <2>2. on' = [on EXCEPT ![r] = on[r]] BY <1>4, RunLocals DEF ReadTrades
  <2>3. BooksTypeOK' BY <1>4, RunLocals, BooksFrame DEF ReadTrades
  <2>4. \A q \in {"exact", "inexact"} : [rc[r] EXCEPT !.pnl = q] \in ReconcilerLocals
    <3>1. \A q \in Exits : [rc[r] EXCEPT !.pnl = q] \in ReconcilerLocals
      BY RunLocals DEF ReconcilerLocals
    <3> QED BY <3>1 DEF Exits
  <2>5. rc' \in [Reconcilers -> ReconcilerLocals] BY <1>4, <2>4, RunLocals DEF ReadTrades
  <2> QED BY <1>4, <2>1, <2>2, <2>3, <2>5 DEF ReadTrades, RunStep
<1> QED BY <1>1, <1>2, <1>3, <1>4

LEMMA BookIsRunStep ==
    ASSUME TypeInv, NEW r \in Reconcilers,
           ClaimFinalize(r) \/ ClaimPnl(r) \/ DailyGet(r) \/ DailyPut(r)
    PROVE  RunStep(r)
<1> USE DEF At, Goto, ReconcilerFrame, NoWrite, Holding, ReconcilerPcs
<1>0. /\ finalized \subseteq Intents /\ pnlApplied \subseteq Intents
      /\ daily \in [Intents -> Nat] /\ faults \in 0..MaxFaults
      /\ rc[r].pnl \in Exits /\ rc[r].daily \in [Intents -> Nat]
  BY RunLocals DEF TypeOK, BooksTypeOK, ReconcilerLocals
<1>1. WriteExit(r) => /\ \E s \in TradeStates, f \in SUBSET Flags, x \in Exits :
                             BeginWrite(r, on[r], s, f, x)
                      /\ UNCHANGED <<trade, index>>
                      /\ pc' = [pc EXCEPT ![r] = "next"]
  <2>1. "EXITED" \in TradeStates /\ {} \in SUBSET Flags BY DEF TradeStates
  <2> QED BY <1>0, <2>1 DEF WriteExit
<1>2. CASE ClaimFinalize(r)
  <2>1. pc[r] = "lock" /\ on[r] \in Intents BY <1>2, RunLocals DEF ClaimFinalize
  <2>2. on' = [on EXCEPT ![r] = on[r]] BY <1>2, RunLocals DEF ClaimFinalize
  <2>3. BooksTypeOK'
    BY <1>0, <1>2, <2>1 DEF ClaimFinalize, BooksTypeOK, NoFault
  <2>4. PICK l \in {"next", "pnlClaim"} : pc' = [pc EXCEPT ![r] = l]
    BY <1>2 DEF ClaimFinalize
  <2> QED BY <1>2, <2>1, <2>2, <2>3, <2>4, RunLocals DEF ClaimFinalize, RunStep
<1>3. CASE ClaimPnl(r)
  <2>1. pc[r] = "pnlClaim" /\ on[r] \in Intents BY <1>3, RunLocals DEF ClaimPnl
  <2>2. on' = [on EXCEPT ![r] = on[r]] BY <1>3, RunLocals DEF ClaimPnl
  <2>3. BooksTypeOK' BY <1>0, <1>3, <2>1 DEF ClaimPnl, BooksTypeOK, NoFault
  <2>4. PICK l \in {"next", "dailyGet"} : pc' = [pc EXCEPT ![r] = l]
    BY <1>1, <1>3 DEF ClaimPnl
  <2>5. \/ UNCHANGED storeVars
        \/ /\ \E s \in TradeStates, f \in SUBSET Flags, x \in Exits :
                  BeginWrite(r, on[r], s, f, x)
           /\ UNCHANGED <<trade, index>>
    BY <1>1, <1>3 DEF ClaimPnl
  <2>6. /\ Ready(r) /\ UNCHANGED <<exchangeVars, ex, on, rc>> BY <1>3 DEF ClaimPnl
  <2> QED BY <2>1, <2>2, <2>3, <2>4, <2>5, <2>6, RunLocals DEF RunStep
<1>4. CASE DailyGet(r)
  <2>1. pc[r] = "dailyGet" /\ on[r] \in Intents BY <1>4, RunLocals DEF DailyGet
  <2>2. on' = [on EXCEPT ![r] = on[r]] BY <1>4, RunLocals DEF DailyGet
  <2>3. BooksTypeOK' BY <1>4, RunLocals, BooksFrame DEF DailyGet
  <2>4. [rc[r] EXCEPT !.daily = daily] \in ReconcilerLocals
    BY <1>0, RunLocals DEF ReconcilerLocals
  <2>5. rc' \in [Reconcilers -> ReconcilerLocals] BY <1>4, <2>4, RunLocals DEF DailyGet
  <2> QED BY <1>4, <2>1, <2>2, <2>3, <2>5 DEF DailyGet, RunStep
<1>5. CASE DailyPut(r)
  <2>1. pc[r] = "dailyPut" /\ on[r] \in Intents BY <1>5, RunLocals DEF DailyPut
  <2>2. on' = [on EXCEPT ![r] = on[r]] BY <1>5, RunLocals DEF DailyPut
  <2>3. daily' \in [Intents -> Nat] BY <1>0, <1>5, <2>1 DEF DailyPut
  <2>4. BooksTypeOK' BY <1>0, <1>5, <2>3 DEF DailyPut, BooksTypeOK, NoFault
  <2>5. /\ WriteExit(r) /\ Ready(r) /\ UNCHANGED <<exchangeVars, ex, on, rc>>
    BY <1>5 DEF DailyPut
  <2> QED BY <1>1, <2>1, <2>2, <2>4, <2>5, RunLocals DEF RunStep
<1> QED BY <1>2, <1>3, <1>4, <1>5

LEMMA ReconcilerStepIs ==
    ASSUME TypeInv, NEW r \in Reconcilers, ReconcilerStep(r)
    PROVE  RunStep(r)
BY WalkIsRunStep, ReadIsRunStep, BookIsRunStep DEF ReconcilerStep

LEMMA RunStepType ==
    ASSUME TypeInv, NEW r \in Reconcilers, RunStep(r)
    PROVE  TypeInv'
<1>0. /\ TypeOK /\ WorksOnIntent /\ r \in Procs /\ r \notin Executors
      /\ Procs = Executors \cup Reconcilers
  BY LiveAssumption DEF LiveAssumption, TypeInv
<1>1. StoreTypeOK'
  <2>1. CASE UNCHANGED storeVars
    BY <1>0, <2>1 DEF storeVars, StoreTypeOK, TypeOK
  <2>2. CASE /\ on[r] \in Intents
             /\ \E s \in TradeStates, f \in SUBSET Flags, x \in Exits :
                  BeginWrite(r, on[r], s, f, x)
             /\ UNCHANGED <<trade, index>>
    <3>1. w' \in [Procs -> Calls \cup {NoCall}]
      BY <1>0, <2>2, BeginWriteType DEF TypeOK
    <3> QED BY <1>0, <2>2, <3>1 DEF StoreTypeOK, TypeOK
  <2> QED BY <2>1, <2>2 DEF RunStep
<1>2. ExchangeTypeOK' BY <1>0 DEF RunStep, TypeOK, exchangeVars, ExchangeTypeOK
<1>3. PICK l \in ReconcilerPcs :
        /\ pc' = [pc EXCEPT ![r] = l]
        /\ l \notin {"idle", "next"} => on'[r] \in Intents
  BY DEF RunStep
<1>4. PICK o \in Intents \cup {NoIntent} : on' = [on EXCEPT ![r] = o] BY DEF RunStep
<1>5. LocalsTypeOK' BY <1>0, <1>3, <1>4 DEF RunStep, TypeOK, LocalsTypeOK
<1>6. WorksOnIntent'
  BY <1>0, <1>3, <1>4 DEF RunStep, WorksOnIntent, TypeOK, LocalsTypeOK
<1> QED BY <1>1, <1>2, <1>5, <1>6 DEF RunStep, TypeInv, TypeOK

\* A call that throws and a worker that dies.
LEMMA UnwindType ==
    ASSUME TypeInv, NEW p \in Procs, NEW last \in {"done", "crashed"},
           NEW ret \in Returns, Unwind(p, last, ret), Fault \/ NoFault
    PROVE  TypeInv'
<1>0. /\ TypeOK /\ WorksOnIntent /\ Procs = Executors \cup Reconcilers
      /\ Executors \cap Reconcilers = {}
  BY LiveAssumption DEF LiveAssumption, TypeInv
<1>1. StoreTypeOK' BY <1>0 DEF Unwind, DropWrite, TypeOK, StoreTypeOK
<1>2. ExchangeTypeOK' BY <1>0 DEF Unwind, TypeOK, exchangeVars, ExchangeTypeOK
<1>3. ex' \in [Executors -> ExecutorLocals]
  <2>1. \A x \in Executors : [ex[x] EXCEPT !.ret = ret] \in ExecutorLocals
    BY <1>0 DEF TypeOK, LocalsTypeOK, ExecutorLocals
  <2> QED BY <1>0, <2>1 DEF Unwind, TypeOK, LocalsTypeOK
<1>4. rc' \in [Reconcilers -> ReconcilerLocals]
  BY <1>0, SnapshotsType DEF Unwind, TypeOK, LocalsTypeOK
<1>5. LocalsTypeOK'
  BY <1>0, <1>3, <1>4 DEF Unwind, TypeOK, LocalsTypeOK, ExecutorPcs, ReconcilerPcs
<1>6. BooksTypeOK' BY <1>0, BooksFrame DEF Unwind
<1>7. WorksOnIntent' BY <1>0 DEF Unwind, WorksOnIntent, TypeOK, LocalsTypeOK
<1> QED BY <1>1, <1>2, <1>5, <1>6, <1>7 DEF TypeInv, TypeOK

LEMMA TypeInit == ASSUME Init PROVE TypeInv
<1> USE LiveAssumption DEF LiveAssumption, Init
<1>1. StoreTypeOK BY SnapshotsType DEF StoreInit, StoreTypeOK
<1>2. ExchangeTypeOK
  <2>1. NoOrder \in Orders /\ NoOrder.qty = 0 BY DEF NoOrder, Orders, Lot
  <2> QED BY <2>1 DEF ExchangeInit, ExchangeTypeOK, Lot
<1>3. FreshExecutor \in ExecutorLocals
  <2>1. NoOrder \in Orders BY DEF NoOrder, Orders, Lot
  <2> QED BY <2>1 DEF FreshExecutor, ExecutorLocals, Returns
<1>4. LocalsTypeOK BY <1>3, SnapshotsType DEF LocalsTypeOK, ExecutorPcs, ReconcilerPcs
<1>5. BooksTypeOK BY DEF BooksTypeOK
<1>6. WorksOnIntent BY DEF WorksOnIntent
<1> QED BY <1>1, <1>2, <1>4, <1>5, <1>6 DEF TypeInv, TypeOK

LEMMA TypeStep == ASSUME TypeInv, [Next]_vars PROVE TypeInv'
<1>1. ASSUME NEW e \in Executors, ExecutorStep(e) PROVE TypeInv'
  BY <1>1, ExecutorStepIs, OwnerStepType, ClaimType
<1>2. ASSUME NEW r \in Reconcilers, ReconcilerStep(r) PROVE TypeInv'
  BY <1>2, ReconcilerStepIs, RunStepType
<1>3. ASSUME NEW p \in Procs, WriteStep(p) PROVE TypeInv'
  <2>1. StoreTypeOK' BY <1>3, StoreStepType DEF WriteStep, TypeInv, TypeOK
  <2> QED BY <1>3, <2>1 DEF WriteStep, TypeInv, TypeOK, exchangeVars, ExchangeTypeOK,
            locals, LocalsTypeOK, books, BooksTypeOK, WorksOnIntent
<1>4. ASSUME NEW p \in Procs, WriteRefused(p) PROVE TypeInv'
  BY <1>4, UnwindType DEF WriteRefused, Returns
<1>5. ASSUME NEW p \in Procs, Crash(p) PROVE TypeInv'
  BY <1>5, UnwindType DEF Crash, Returns
<1>6. ASSUME NEW i \in Intents, Environment(i) PROVE TypeInv'
  <2>1. ExchangeTypeOK' BY <1>6, EnvironmentType DEF Environment, TypeInv, TypeOK
  <2> QED BY <1>6, <2>1 DEF Environment, TypeInv, TypeOK, storeVars, StoreTypeOK,
            locals, LocalsTypeOK, books, BooksTypeOK, WorksOnIntent
<1>7. CASE UNCHANGED vars
  BY <1>7 DEF vars, TypeInv, TypeOK, storeVars, StoreTypeOK, exchangeVars,
     ExchangeTypeOK, locals, LocalsTypeOK, books, BooksTypeOK, WorksOnIntent
<1> QED BY <1>1, <1>2, <1>3, <1>4, <1>5, <1>6, <1>7 DEF Next

\* Every reachable state is well typed, whatever the number of processes and
\* faults: the row, the index, the orders and the locals of every call stay in
\* their domains, and the held quantity never exceeds what the entry filled.
THEOREM TypeCorrect == Spec => []TypeOK
<1>1. Init => TypeInv BY TypeInit
<1>2. TypeInv /\ [Next]_vars => TypeInv' BY TypeStep
<1>3. TypeInv => TypeOK BY DEF TypeInv
<1> QED BY <1>1, <1>2, <1>3, PTL DEF Spec

-----------------------------------------------------------------------------
(* One entry order per intent.  The count alone is not inductive: a step of *)
(* the owner keeps it because the owner is the only one on its intent and   *)
(* has sent nothing before; a claim keeps it because a free row never had   *)
(* an order; and a row never becomes free again, because whoever writes it, *)
(* executor or reconciler, holds an intent that was claimed.                *)

ReconcilerHolds ==
    \A r \in Reconcilers : pc[r] \in Holding => trade[on[r]].state # "NONE"

EntryInv == TypeInv /\ Ownership /\ ReconcilerHolds

LEMMA EntryFacts ==
    ASSUME EntryInv
    PROVE  /\ TypeOK /\ WorksOnIntent /\ ReconcilerHolds
           /\ OwnersDiffer /\ IdleOwnsNothing /\ OwnedIsClaimed /\ WritesAreStates
           /\ UnclaimedIsUnsent /\ OwnerSendsOnce /\ SingleEntry
           /\ Procs = Executors \cup Reconcilers /\ Executors \cap Reconcilers = {}
           /\ "NONE" \notin TradeStates /\ NoIntent \notin Intents
           /\ NoCall.step = "none"
           /\ posts \in [Intents -> Nat]
           /\ pc \in [Procs -> ExecutorPcs \cup ReconcilerPcs]
           /\ on \in [Procs -> Intents \cup {NoIntent}]
           /\ w \in [Procs -> Calls \cup {NoCall}]
BY LiveAssumption, IntentAssumption
   DEF LiveAssumption, IntentAssumption, EntryInv, TypeInv, Ownership, TradeStates,
       NoCall, TypeOK, ExchangeTypeOK, LocalsTypeOK, StoreTypeOK

\* A call of writeTradeState that starts leaves the rows alone and carries a state.
LEMMA BeginKeepsStates ==
    ASSUME EntryInv, NEW p \in Procs, NEW i \in Intents, trade[i].state # "NONE",
           NEW s \in TradeStates, NEW f, NEW x,
           BeginWrite(p, i, s, f, x), UNCHANGED trade
    PROVE  /\ WritesAreStates'
           /\ \A q \in Procs \ {p} : Ready(q)' = Ready(q)
BY EntryFacts DEF BeginWrite, WritesAreStates, Ready

LEMMA OwnerStepEntry ==
    ASSUME EntryInv, NEW e \in Executors, OwnerStep(e)
    PROVE  (Ownership /\ ReconcilerHolds)'
<1>1. /\ e \in Procs /\ on[e] \in Intents /\ on[e] # NoIntent
      /\ trade[on[e]].state # "NONE"
      /\ trade' = trade /\ on' = on
  BY EntryFacts DEF OwnerStep, OwnedIsClaimed, StoreMove, storeVars
<1>2. PICK l \in ExecutorPcs \ {"idle"} :
        /\ pc' = [pc EXCEPT ![e] = l]
        /\ l \in BeforeEntry => pc[e] \in BeforeEntry \ {"buySend"}
  BY DEF OwnerStep
<1>3. \/ posts' = posts
      \/ pc[e] = "buySend" /\ posts' = [posts EXCEPT ![on[e]] = @ + 1]
  BY DEF OwnerStep, ExchangeMove, exchangeVars, Send, GiveUp, CancelEntry
<1>4. WritesAreStates' /\ \A q \in Procs \ {e} : Ready(q)' = Ready(q)
  <2>1. CASE UNCHANGED storeVars
    BY <1>1, <2>1, EntryFacts DEF storeVars, WritesAreStates, Ready
  <2>2. CASE \E s \in TradeStates, f \in SUBSET Flags : BeginWrite(e, on[e], s, f, "none")
    BY <1>1, <2>2, BeginKeepsStates
  <2> QED BY <2>1, <2>2 DEF OwnerStep, StoreMove
<1>5. OwnersDiffer' BY <1>1, EntryFacts DEF OwnersDiffer
<1>6. IdleOwnsNothing'
  BY <1>1, <1>2, <1>4, EntryFacts DEF IdleOwnsNothing
<1>7. OwnedIsClaimed' BY <1>1, EntryFacts DEF OwnedIsClaimed
<1>8. UnclaimedIsUnsent' BY <1>1, <1>3, EntryFacts DEF UnclaimedIsUnsent
<1>9. OwnerSendsOnce'
  <2> SUFFICES ASSUME NEW f \in Executors, pc'[f] \in BeforeEntry
               PROVE  on[f] # NoIntent /\ posts'[on[f]] = 0
    BY <1>1 DEF OwnerSendsOnce
  <2>1. CASE f = e
    <3>1. pc[e] \in BeforeEntry /\ posts' = posts BY <1>1, <1>2, <1>3, <2>1, EntryFacts
    <3> QED BY <2>1, <3>1, EntryFacts DEF OwnerSendsOnce
  <2>2. CASE f # e
    <3>1. pc[f] \in BeforeEntry BY <1>1, <1>2, <2>2, EntryFacts
    <3>2. on[f] \in Intents /\ on[f] # on[e] /\ posts[on[f]] = 0
      BY <1>1, <2>2, <3>1, EntryFacts DEF OwnerSendsOnce, OwnersDiffer
    <3> QED BY <1>1, <1>3, <3>2, EntryFacts
  <2> QED BY <2>1, <2>2
<1>10. SingleEntry'
  <2>1. CASE posts' = posts BY <2>1, EntryFacts DEF SingleEntry
  <2>2. CASE pc[e] = "buySend" /\ posts' = [posts EXCEPT ![on[e]] = @ + 1]
    <3>1. posts[on[e]] = 0 BY <2>2, EntryFacts DEF OwnerSendsOnce, BeforeEntry
    <3> QED BY <1>1, <2>2, <3>1, EntryFacts DEF SingleEntry
  <2> QED BY <1>3, <2>1, <2>2
<1>11. ReconcilerHolds'
  BY <1>1, <1>2, EntryFacts DEF ReconcilerHolds
<1> QED BY <1>4, <1>5, <1>6, <1>7, <1>8, <1>9, <1>10, <1>11 DEF Ownership

\* The step that only the claim can take: a free row gets its owner.
LEMMA ClaimEntry ==
    ASSUME EntryInv, NEW e \in Executors, NEW i \in Intents,
           ClaimIntent(e, i) \/ DuplicateIntent(e, i)
    PROVE  (Ownership /\ ReconcilerHolds)'
<1>0. e \in Procs /\ e \notin Reconcilers BY EntryFacts
<1>1. CASE ClaimIntent(e, i)
  <2>1. /\ trade[i].state = "NONE" /\ pc[e] = "idle"
        /\ trade' = [trade EXCEPT ![i] = [NoRow EXCEPT !.state = "SIGNAL_CREATED"]]
        /\ on' = [on EXCEPT ![e] = i]
        /\ pc' = [pc EXCEPT ![e] = "reconcile"]
        /\ posts' = posts
        /\ w' = [w EXCEPT ![e] = [step |-> "get", intent |-> i, index |-> <<>>,
                    row |-> [state |-> "APPROVED", flags |-> {}, exit |-> "none"]]]
    BY <1>1 DEF ClaimIntent, ClaimRow, At, Goto, BeginWrite, exchangeVars
  <2>2. \A j \in Intents : /\ trade'[j].state = "NONE" => trade[j].state = "NONE"
                           /\ j # i => trade'[j] = trade[j]
    BY <2>1, EntryFacts DEF NoRow, TypeOK, StoreTypeOK
  <2>3. trade'[i].state # "NONE"
    BY <2>1, EntryFacts DEF NoRow, TypeOK, StoreTypeOK
  <2>4. \A f \in Executors : on[f] # i
    BY <2>1, EntryFacts DEF OwnedIsClaimed
  <2>5. OwnersDiffer' BY <1>0, <2>1, <2>4, EntryFacts DEF OwnersDiffer
  <2>6. IdleOwnsNothing' BY <1>0, <2>1, EntryFacts DEF IdleOwnsNothing, Ready
  <2>7. OwnedIsClaimed' BY <1>0, <2>1, <2>2, <2>3, EntryFacts DEF OwnedIsClaimed
  <2>8. WritesAreStates'
    <3>1. \A q \in Procs : ~Ready(q) => w[q].intent \in Intents
      BY EntryFacts DEF Ready, Calls
    <3> QED BY <1>0, <2>1, <2>2, <2>3, <3>1, EntryFacts DEF WritesAreStates, Ready
  <2>9. UnclaimedIsUnsent' BY <2>1, <2>2, EntryFacts DEF UnclaimedIsUnsent
  <2>10. OwnerSendsOnce'
    BY <1>0, <2>1, EntryFacts DEF OwnerSendsOnce, UnclaimedIsUnsent
  <2>11. SingleEntry' BY <2>1, EntryFacts DEF SingleEntry
  <2>12. ReconcilerHolds'
    <3> SUFFICES ASSUME NEW r \in Reconcilers, pc'[r] \in Holding
                 PROVE  trade'[on'[r]].state # "NONE"
      BY DEF ReconcilerHolds
    <3>1. r # e /\ pc[r] \in Holding /\ on'[r] = on[r] BY <1>0, <2>1, EntryFacts
    <3>2. on[r] \in Intents /\ trade[on[r]].state # "NONE"
      BY <3>1, EntryFacts DEF ReconcilerHolds, WorksOnIntent, Holding
    <3> QED BY <2>2, <3>1, <3>2
  <2> QED BY <2>5, <2>6, <2>7, <2>8, <2>9, <2>10, <2>11, <2>12 DEF Ownership
<1>2. CASE DuplicateIntent(e, i)
  <2>1. /\ UNCHANGED <<trade, index, w, posts, on>>
        /\ pc' = [pc EXCEPT ![e] = "done"]
    BY <1>2 DEF DuplicateIntent, NoWrite, storeVars, exchangeVars, ExecutorFrame,
                Return, Goto
  <2> QED BY <1>0, <2>1, EntryFacts
      DEF Ownership, OwnersDiffer, IdleOwnsNothing, OwnedIsClaimed, WritesAreStates,
          UnclaimedIsUnsent, OwnerSendsOnce, SingleEntry, ReconcilerHolds, Ready, BeforeEntry
<1> QED BY <1>1, <1>2

LEMMA RunStepEntry ==
    ASSUME EntryInv, NEW r \in Reconcilers, RunStep(r)
    PROVE  (Ownership /\ ReconcilerHolds)'
<1>0. r \in Procs /\ r \notin Executors BY EntryFacts
<1>1. PICK l \in ReconcilerPcs :
        /\ pc' = [pc EXCEPT ![r] = l]
        /\ l \in Holding => /\ on' = on
                            /\ pc[r] \in Holding \/ trade[on[r]].state # "NONE"
  BY DEF RunStep
<1>2. PICK o \in Intents \cup {NoIntent} : on' = [on EXCEPT ![r] = o] BY DEF RunStep
<1>3. trade' = trade /\ posts' = posts BY DEF RunStep, BeginWrite, storeVars, exchangeVars
<1>4. WritesAreStates' /\ \A q \in Procs \ {r} : Ready(q)' = Ready(q)
  <2>1. CASE UNCHANGED storeVars
    BY <2>1, EntryFacts DEF storeVars, WritesAreStates, Ready
  <2>2. CASE /\ pc[r] \in Holding /\ on[r] \in Intents
             /\ \E s \in TradeStates, f \in SUBSET Flags, x \in Exits :
                  BeginWrite(r, on[r], s, f, x)
    <3>1. trade[on[r]].state # "NONE" BY <2>2, EntryFacts DEF ReconcilerHolds
    <3> QED BY <1>0, <1>3, <2>2, <3>1, BeginKeepsStates
  <2> QED BY <2>1, <2>2 DEF RunStep
<1>5. \A e \in Executors : /\ e \in Procs /\ e # r
                           /\ pc'[e] = pc[e] /\ on'[e] = on[e] /\ Ready(e)' = Ready(e)
  BY <1>0, <1>1, <1>2, <1>4, EntryFacts
<1>6. OwnersDiffer' /\ IdleOwnsNothing' /\ OwnedIsClaimed'
  BY <1>3, <1>5, EntryFacts DEF OwnersDiffer, IdleOwnsNothing, OwnedIsClaimed
<1>7. UnclaimedIsUnsent' /\ OwnerSendsOnce' /\ SingleEntry'
  BY <1>3, <1>5, EntryFacts DEF UnclaimedIsUnsent, OwnerSendsOnce, SingleEntry
<1>8. ReconcilerHolds'
  <2> SUFFICES ASSUME NEW q \in Reconcilers, pc'[q] \in Holding
               PROVE  trade[on'[q]].state # "NONE"
    BY <1>3 DEF ReconcilerHolds
  <2>1. CASE q = r
    BY <1>0, <1>1, <2>1, EntryFacts DEF ReconcilerHolds
  <2>2. CASE q # r
    BY <1>1, <1>2, <2>2, EntryFacts DEF ReconcilerHolds
  <2> QED BY <2>1, <2>2
<1> QED BY <1>4, <1>6, <1>7, <1>8 DEF Ownership

\* A step of writeTradeState puts the row of an intent that was claimed.
LEMMA WriteStepEntry ==
    ASSUME EntryInv, NEW p \in Procs, WriteStep(p)
    PROVE  (Ownership /\ ReconcilerHolds)'
<1>1. /\ ~Ready(p) /\ w[p] \in Calls /\ w[p].intent \in Intents
      /\ w[p].row.state # "NONE" /\ trade[w[p].intent].state # "NONE"
  <2>1. ~Ready(p)
    BY DEF WriteStep, StoreStep, WriteGet, WritePut, IndexGet, IndexPut, Ready
  <2>2. w[p] \in Calls BY <2>1, EntryFacts DEF Ready
  <2> QED BY <2>1, <2>2, EntryFacts DEF WritesAreStates, Calls
<1>2. posts' = posts /\ pc' = pc /\ on' = on
  BY DEF WriteStep, exchangeVars, locals
<1>3. \A i \in Intents : trade'[i].state = "NONE" <=> trade[i].state = "NONE"
  <2>1. \/ trade' = trade
        \/ trade' = [trade EXCEPT ![w[p].intent] = w[p].row]
    BY DEF WriteStep, StoreStep, WriteGet, WritePut, IndexGet, IndexPut
  <2> QED BY <1>1, <2>1, EntryFacts DEF TypeOK, StoreTypeOK
<1>4. /\ \A q \in Procs \ {p} : w'[q] = w[q]
      /\ Ready(p)' \/ (w'[p].intent = w[p].intent /\ w'[p].row.state = w[p].row.state)
  <2>1. CASE WriteGet(p)
    BY <1>1, <2>1, EntryFacts DEF WriteGet, Merge, Calls
  <2>2. CASE WritePut(p) BY <1>1, <2>2, EntryFacts DEF WritePut, Calls
  <2>3. CASE IndexGet(p) BY <1>1, <2>3, EntryFacts DEF IndexGet, Calls
  <2>4. CASE IndexPut(p) BY <1>1, <2>4, EntryFacts DEF IndexPut, Ready
  <2> QED BY <2>1, <2>2, <2>3, <2>4 DEF WriteStep, StoreStep
<1>5. WritesAreStates'
  <2> SUFFICES ASSUME NEW q \in Procs, ~Ready(q)'
               PROVE  /\ w'[q].row.state # "NONE"
                      /\ trade'[w'[q].intent].state # "NONE"
    BY DEF WritesAreStates
  <2>1. CASE q = p BY <1>1, <1>3, <1>4, <2>1
  <2>2. CASE q # p
    <3>1. w'[q] = w[q] /\ ~Ready(q) BY <1>4, <2>2 DEF Ready
    <3>2. w[q].intent \in Intents BY <3>1, EntryFacts DEF Ready, Calls
    <3> QED BY <1>3, <3>1, <3>2, EntryFacts DEF WritesAreStates
  <2> QED BY <2>1, <2>2
<1>6. OwnersDiffer' /\ OwnerSendsOnce' /\ SingleEntry'
  BY <1>2, EntryFacts DEF OwnersDiffer, OwnerSendsOnce, SingleEntry
<1>7. IdleOwnsNothing'
  BY <1>1, <1>2, <1>4, EntryFacts DEF IdleOwnsNothing, Ready
<1>8. OwnedIsClaimed' /\ UnclaimedIsUnsent'
  BY <1>2, <1>3, EntryFacts DEF OwnedIsClaimed, UnclaimedIsUnsent
<1>9. ReconcilerHolds'
  BY <1>2, <1>3, EntryFacts DEF ReconcilerHolds, WorksOnIntent, Holding
<1> QED BY <1>5, <1>6, <1>7, <1>8, <1>9 DEF Ownership

LEMMA UnwindEntry ==
    ASSUME EntryInv, NEW p \in Procs, NEW last \in {"done", "crashed"}, NEW ret,
           Unwind(p, last, ret)
    PROVE  (Ownership /\ ReconcilerHolds)'
<1>1. /\ posts' = posts /\ trade' = trade
      /\ w' = [w EXCEPT ![p] = NoCall]
      /\ pc' = [pc EXCEPT ![p] = IF p \in Executors THEN last ELSE "idle"]
      /\ \A e \in Executors : on'[e] = on[e]
      /\ \A r \in Reconcilers \ {p} : on'[r] = on[r]
  BY EntryFacts DEF Unwind, DropWrite, exchangeVars
<1>2. \A q \in Procs : /\ q # p => Ready(q)' = Ready(q)
                       /\ ~Ready(q)' => ~Ready(q) /\ w'[q] = w[q]
  BY <1>1, EntryFacts DEF Ready
<1>3. \A e \in Executors :
        /\ pc'[e] = "idle" => pc[e] = "idle" /\ e # p
        /\ pc'[e] \in BeforeEntry => pc[e] \in BeforeEntry
  BY <1>1, EntryFacts DEF BeforeEntry
<1>4. \A r \in Reconcilers : pc'[r] \in Holding => pc[r] \in Holding /\ r # p
  BY <1>1, EntryFacts DEF Holding
<1>5. OwnersDiffer' BY <1>1, EntryFacts DEF OwnersDiffer
<1>6. IdleOwnsNothing' BY <1>1, <1>2, <1>3, EntryFacts DEF IdleOwnsNothing
<1>7. OwnedIsClaimed' BY <1>1, EntryFacts DEF OwnedIsClaimed
<1>8. WritesAreStates' BY <1>1, <1>2, EntryFacts DEF WritesAreStates
<1>9. UnclaimedIsUnsent' /\ SingleEntry'
  BY <1>1, EntryFacts DEF UnclaimedIsUnsent, SingleEntry
<1>10. OwnerSendsOnce' BY <1>1, <1>3, EntryFacts DEF OwnerSendsOnce
<1>11. ReconcilerHolds' BY <1>1, <1>4, EntryFacts DEF ReconcilerHolds
<1> QED BY <1>5, <1>6, <1>7, <1>8, <1>9, <1>10, <1>11 DEF Ownership

\* Nothing the invariant speaks of changes.
LEMMA FrameEntry ==
    ASSUME EntryInv, UNCHANGED <<trade, w, posts, pc, on>>
    PROVE  (Ownership /\ ReconcilerHolds)'
BY EntryFacts
   DEF Ownership, OwnersDiffer, IdleOwnsNothing, OwnedIsClaimed, WritesAreStates,
       UnclaimedIsUnsent, OwnerSendsOnce, SingleEntry, ReconcilerHolds, Ready

LEMMA EntryInit == ASSUME Init PROVE EntryInv
<1>1. TypeInv BY TypeInit
<1>2. /\ \A p \in Procs : pc[p] = "idle" /\ on[p] = NoIntent /\ Ready(p)
      /\ \A i \in Intents : posts[i] = 0
      /\ Executors \subseteq Procs /\ Reconcilers \subseteq Procs
  BY LiveAssumption
     DEF LiveAssumption, Init, StoreInit, ExchangeInit, Ready, NoCall
<1> QED BY <1>1, <1>2
    DEF EntryInv, Ownership, OwnersDiffer, IdleOwnsNothing, OwnedIsClaimed,
        WritesAreStates, UnclaimedIsUnsent, OwnerSendsOnce, SingleEntry,
        ReconcilerHolds, Holding, BeforeEntry

LEMMA EntryStep == ASSUME EntryInv, [Next]_vars PROVE EntryInv'
<1>0. TypeInv' BY TypeStep DEF EntryInv
<1> SUFFICES (Ownership /\ ReconcilerHolds)' BY <1>0 DEF EntryInv
<1>1. ASSUME NEW e \in Executors, ExecutorStep(e)
      PROVE  (Ownership /\ ReconcilerHolds)'
  BY <1>1, ExecutorStepIs, OwnerStepEntry, ClaimEntry DEF EntryInv
<1>2. ASSUME NEW r \in Reconcilers, ReconcilerStep(r)
      PROVE  (Ownership /\ ReconcilerHolds)'
  BY <1>2, ReconcilerStepIs, RunStepEntry DEF EntryInv
<1>3. ASSUME NEW p \in Procs, WriteStep(p) PROVE (Ownership /\ ReconcilerHolds)'
  BY <1>3, WriteStepEntry
<1>4. ASSUME NEW p \in Procs, WriteRefused(p) \/ Crash(p)
      PROVE  (Ownership /\ ReconcilerHolds)'
  BY <1>4, UnwindEntry DEF WriteRefused, Crash
<1>5. ASSUME NEW i \in Intents, Environment(i) PROVE (Ownership /\ ReconcilerHolds)'
  <2>1. posts' = posts
    BY <1>5 DEF Environment, ExchangeStep, Reject, AcceptBuy, FillBuy, ExpireBuy,
       AcceptOco, ExecuteOco, AcceptEmergency, OwnerCancelsOco, OwnerSells
  <2> QED BY <1>5, <2>1, FrameEntry DEF Environment, storeVars, locals
<1>6. CASE UNCHANGED vars
  BY <1>6, FrameEntry DEF vars, storeVars, exchangeVars, locals
<1> QED BY <1>1, <1>2, <1>3, <1>4, <1>5, <1>6 DEF Next

\* One intent, one entry order: for any number of executors that compete for it,
\* any number of reconcilers that rewrite its row, lost answers and workers that
\* die, the worker submits an intent's market buy at most once.
THEOREM EntryOnce == Spec => []SingleEntry
<1>1. Init => EntryInv BY EntryInit
<1>2. EntryInv /\ [Next]_vars => EntryInv' BY EntryStep
<1>3. EntryInv => SingleEntry BY DEF EntryInv, Ownership
<1> QED BY <1>1, <1>2, <1>3, PTL DEF Spec

\* The same invariant, as live_executors checks it: an executor owns the intent it
\* claimed, alone, and a claimed row never becomes free again.
THEOREM OwnersOwn == Spec => []Ownership
<1>1. EntryInv => Ownership BY DEF EntryInv
<1> QED BY <1>1, EntryInit, EntryStep, PTL DEF Spec

-----------------------------------------------------------------------------
(* A result is counted once.                                               *)

LEMMA CountFacts ==
    ASSUME TypeInv
    PROVE  /\ Reconcilers \subseteq Procs /\ Executors \subseteq Procs
           /\ Executors \cap Reconcilers = {}
           /\ pc \in [Procs -> ExecutorPcs \cup ReconcilerPcs]
           /\ on \in [Procs -> Intents \cup {NoIntent}]
           /\ rc \in [Reconcilers -> ReconcilerLocals]
           /\ \A r \in Reconcilers : rc[r].daily \in [Intents -> Nat]
           /\ daily \in [Intents -> Nat]
           /\ pnlApplied \subseteq Intents
           /\ \A r \in Reconcilers : pc[r] \notin {"idle", "next"} => on[r] \in Intents
BY LiveAssumption
   DEF LiveAssumption, TypeInv, TypeOK, LocalsTypeOK, BooksTypeOK, WorksOnIntent, ReconcilerLocals

\* Steps that count nothing: a copy of the row is kept or dropped.
CountsNothing ==
    /\ UNCHANGED <<pnlApplied, daily>>
    /\ \A r \in Reconcilers, i \in Intents :
          /\ rc'[r].daily[i] = rc[r].daily[i] \/ rc'[r].daily[i] = 0
          /\ Booking(r, i)' => Booking(r, i)

LEMMA CountsNothingKeeps ==
    ASSUME TypeInv, Counting, CountsNothing
    PROVE  Counting'
<1> USE CountFacts DEF Counting, CountsNothing
<1>1. PnlAtMostOnce' BY DEF PnlAtMostOnce
<1>2. CopiesCountOnce' BY DEF CopiesCountOnce
<1>3. \A i \in Intents : Uncounted(i) => Uncounted(i)' BY DEF Uncounted
<1>4. UnclaimedIsUncounted' BY <1>3 DEF UnclaimedIsUncounted
<1>5. OneBooksUncounted' BY <1>3 DEF OneBooksUncounted
<1> QED BY <1>1, <1>2, <1>4, <1>5

\* The claim: nobody has counted the intent, and nobody else is about to.
LEMMA ClaimPnlCounts ==
    ASSUME TypeInv, Counting, NEW r \in Reconcilers, ClaimPnl(r)
    PROVE  Counting'
<1> USE CountFacts DEF Counting
<1>1. on[r] \in Intents BY DEF ClaimPnl, At
<1>2. CASE on[r] \in pnlApplied
  <2>1. CountsNothing
    BY <1>1, <1>2 DEF ClaimPnl, Claimable, WriteExit, Goto, CountsNothing, Booking
  <2> QED BY <2>1, CountsNothingKeeps
<1>3. CASE on[r] \notin pnlApplied
  <2>1. /\ pnlApplied' = pnlApplied \cup {on[r]} /\ pc' = [pc EXCEPT ![r] = "dailyGet"]
        /\ UNCHANGED <<on, rc, daily>>
    BY <1>3 DEF ClaimPnl, Claimable, Goto
  <2>2. Uncounted(on[r]) /\ \A q \in Reconcilers : ~Booking(q, on[r])
    BY <1>1, <1>3 DEF UnclaimedIsUncounted
  <2>3. \A q \in Reconcilers, i \in Intents :
          Booking(q, i)' => Booking(q, i) \/ (q = r /\ i = on[r])
    BY <2>1 DEF Booking
  <2>4. \A i \in Intents : Uncounted(i)' <=> Uncounted(i) BY <2>1 DEF Uncounted
  <2>5. PnlAtMostOnce' /\ CopiesCountOnce' BY <2>1 DEF PnlAtMostOnce, CopiesCountOnce
  <2>6. UnclaimedIsUncounted' BY <2>1, <2>3, <2>4 DEF UnclaimedIsUncounted
  <2>7. OneBooksUncounted' BY <2>2, <2>3, <2>4 DEF OneBooksUncounted
  <2> QED BY <2>5, <2>6, <2>7
<1> QED BY <1>2, <1>3

\* The read copies the row.
LEMMA DailyGetCounts ==
    ASSUME TypeInv, Counting, NEW r \in Reconcilers, DailyGet(r)
    PROVE  Counting'
<1> USE CountFacts DEF Counting
<1>1. /\ on[r] \in Intents /\ Booking(r, on[r])
      /\ UNCHANGED <<on, pnlApplied, daily>>
      /\ pc' = [pc EXCEPT ![r] = "dailyPut"]
  BY DEF DailyGet, At, Goto, Booking, books
<1>2. \A q \in Reconcilers : rc'[q].daily = IF q = r THEN daily ELSE rc[q].daily
  BY DEF DailyGet, ReconcilerLocals
<1>3. \A q \in Reconcilers, i \in Intents : Booking(q, i)' <=> Booking(q, i)
  BY <1>1 DEF Booking
<1>4. \A i \in Intents : Uncounted(i) => Uncounted(i)' BY <1>1, <1>2 DEF Uncounted
<1>5. PnlAtMostOnce' BY <1>1 DEF PnlAtMostOnce
<1>6. CopiesCountOnce' BY <1>1, <1>2 DEF CopiesCountOnce, PnlAtMostOnce
<1>7. UnclaimedIsUncounted' BY <1>1, <1>3, <1>4 DEF UnclaimedIsUncounted
<1>8. OneBooksUncounted' BY <1>3, <1>4 DEF OneBooksUncounted
<1> QED BY <1>5, <1>6, <1>7, <1>8

\* The put: its own intent goes from no count to one, the others become what
\* the copy has of them.
LEMMA DailyPutCounts ==
    ASSUME TypeInv, Counting, NEW r \in Reconcilers, DailyPut(r)
    PROVE  Counting'
<1> USE CountFacts DEF Counting
<1> DEFINE s == on[r]
<1>1. /\ s \in Intents /\ Booking(r, s)
      /\ UNCHANGED <<on, rc, pnlApplied>>
      /\ pc' = [pc EXCEPT ![r] = "next"]
      /\ daily' = [rc[r].daily EXCEPT ![s] = @ + 1]
  BY DEF DailyPut, At, WriteExit, Goto, Booking
<1>2. /\ Uncounted(s) /\ s \in pnlApplied
      /\ \A q \in Reconcilers : Booking(q, s) => q = r
  BY <1>1 DEF OneBooksUncounted, UnclaimedIsUncounted
<1>3. /\ daily'[s] = 1
      /\ \A i \in Intents \ {s} : daily'[i] = rc[r].daily[i]
  BY <1>1, <1>2 DEF Uncounted
<1>4. \A q \in Reconcilers, i \in Intents : Booking(q, i)' => Booking(q, i) /\ i # s
  BY <1>1, <1>2 DEF Booking
<1>5. \A i \in Intents \ {s} : Uncounted(i) => Uncounted(i)' BY <1>1, <1>3 DEF Uncounted
<1>6. PnlAtMostOnce' BY <1>3 DEF PnlAtMostOnce, CopiesCountOnce
<1>7. CopiesCountOnce' BY <1>1 DEF CopiesCountOnce
<1>8. UnclaimedIsUncounted' BY <1>1, <1>2, <1>4, <1>5 DEF UnclaimedIsUncounted
<1>9. OneBooksUncounted' BY <1>4, <1>5 DEF OneBooksUncounted
<1> QED BY <1>6, <1>7, <1>8, <1>9

\* Only a read of the daily row changes the copy of it.
LEMMA CopyIsKept ==
    ASSUME NEW x \in ReconcilerLocals, NEW a, NEW b
    PROVE  /\ [x EXCEPT !.todo = a].daily = x.daily
           /\ [x EXCEPT !.snap = a].daily = x.daily
           /\ [x EXCEPT !.pnl = a].daily = x.daily
           /\ [x EXCEPT !.row = a, !.snap = b].daily = x.daily
           /\ FreshReconciler.daily = [i \in Intents |-> 0]
           /\ [FreshReconciler EXCEPT !.todo = a].daily = [i \in Intents |-> 0]
BY DEF ReconcilerLocals, FreshReconciler

\* The other steps of a reconciler.
LEMMA WalkCountsNothing ==
    ASSUME TypeInv, NEW r \in Reconcilers,
           \/ StartRun(r) \/ NextIntent(r) \/ ReadRow(r) \/ ReadExchange(r) \/ ReadFails(r)
           \/ Decide(r) \/ ReadTrades(r) \/ ClaimFinalize(r)
    PROVE  CountsNothing
<1>1. UNCHANGED <<pnlApplied, daily>>
  BY DEF StartRun, NextIntent, ReadRow, ReadExchange, ReadOne, ReadFails, Decide, ReadTrades,
         ClaimFinalize, books
<1>2. /\ \A q \in Reconcilers \ {r} : pc'[q] = pc[q] /\ on'[q] = on[q]
      /\ pc'[r] \notin {"dailyGet", "dailyPut"}
  <2>1. CASE StartRun(r) BY <2>1, CountFacts DEF StartRun, Goto
  <2>2. CASE NextIntent(r) BY <2>2, CountFacts DEF NextIntent, Goto
  <2>3. CASE ReadRow(r) BY <2>3, CountFacts DEF ReadRow, Goto
  <2>4. CASE ReadExchange(r) BY <2>4, CountFacts DEF ReadExchange, ReadOne, At
  <2>5. CASE ReadFails(r) BY <2>5, CountFacts DEF ReadFails, Goto
  <2>6. CASE Decide(r) BY <2>6, CountFacts DEF Decide, Goto
  <2>7. CASE ReadTrades(r) BY <2>7, CountFacts DEF ReadTrades, Goto
  <2>8. CASE ClaimFinalize(r) BY <2>8, CountFacts DEF ClaimFinalize, Goto
  <2> QED BY <2>1, <2>2, <2>3, <2>4, <2>5, <2>6, <2>7, <2>8
<1>3. \A q \in Reconcilers :
        rc'[q].daily = rc[q].daily \/ rc'[q].daily = [i \in Intents |-> 0]
  <2> DEFINE Kept(x) == x.daily = rc[r].daily \/ x.daily = [i \in Intents |-> 0]
  <2>1. rc[r] \in ReconcilerLocals /\ rc = [rc EXCEPT ![r] = rc[r]] BY CountFacts
  <2>2. \A a, b : /\ Kept(rc[r]) /\ Kept(FreshReconciler)
                  /\ Kept([rc[r] EXCEPT !.todo = a])
                  /\ Kept([rc[r] EXCEPT !.snap = a])
                  /\ Kept([rc[r] EXCEPT !.pnl = a])
                  /\ Kept([rc[r] EXCEPT !.row = a, !.snap = b])
                  /\ Kept([FreshReconciler EXCEPT !.todo = a])
    BY <2>1, CopyIsKept
  <2> HIDE DEF Kept
  <2>3. \E x : rc' = [rc EXCEPT ![r] = x] /\ Kept(x)
    <3>1. CASE StartRun(r) BY <2>2, <3>1 DEF StartRun
    <3>2. CASE NextIntent(r) BY <2>2, <3>2 DEF NextIntent
    <3>3. CASE ReadRow(r)
      <4>1. CASE rc' = rc BY <2>1, <2>2, <4>1
      <4>2. CASE rc' # rc
        <5>1. rc' = [rc EXCEPT ![r] = [rc[r] EXCEPT !.row = trade[on[r]],
                                 !.snap = IF "protectionIds" \in trade[on[r]].flags
                                          THEN Unread ELSE UnreadNoIds]]
          BY <3>3, <4>2, CountFacts DEF ReadRow
        <5> QED BY <2>2, <5>1
      <4> QED BY <4>1, <4>2
    <3>4. CASE ReadExchange(r)
      <4>1. PICK snap : rc' = [rc EXCEPT ![r] = [rc[r] EXCEPT !.snap = snap]]
        BY <3>4 DEF ReadExchange, ReadOne
      <4> QED BY <2>2, <4>1
    <3>5. CASE ReadFails(r) \/ Decide(r) \/ ClaimFinalize(r)
      <4>1. rc' = rc BY <3>5 DEF ReadFails, Decide, ClaimFinalize
      <4> QED BY <2>1, <2>2, <4>1
    <3>6. CASE ReadTrades(r) BY <2>2, <3>6 DEF ReadTrades
    <3> QED BY <3>1, <3>2, <3>3, <3>4, <3>5, <3>6
  <2>4. PICK x : rc' = [rc EXCEPT ![r] = x] /\ Kept(x) BY <2>3
  <2>5. rc'[r] = x /\ \A q \in Reconcilers \ {r} : rc'[q] = rc[q] BY <2>4, CountFacts
  <2> QED BY <2>4, <2>5 DEF Kept
<1> QED BY <1>1, <1>2, <1>3 DEF CountsNothing, Booking

LEMMA CountInit == ASSUME Init PROVE Counting
<1>1. \A r \in Reconcilers : r \in Procs /\ pc[r] = "idle"
  BY LiveAssumption DEF LiveAssumption, Init
<1>2. /\ daily = [i \in Intents |-> 0]
      /\ \A r \in Reconcilers : rc[r].daily = [i \in Intents |-> 0]
  BY DEF Init, FreshReconciler
<1> QED BY <1>1, <1>2
    DEF Counting, PnlAtMostOnce, CopiesCountOnce, UnclaimedIsUncounted, OneBooksUncounted,
        Uncounted, Booking

LEMMA CountStep == ASSUME TypeInv, Counting, [Next]_vars PROVE Counting'
<1> USE CountFacts
<1>1. ASSUME NEW e \in Executors, ExecutorStep(e) PROVE Counting'
  <2>1. /\ UNCHANGED <<rc, pnlApplied, daily>>
        /\ \A r \in Reconcilers : pc'[r] = pc[r] /\ on'[r] = on[r]
    BY <1>1, ExecutorStepIs
       DEF OwnerStep, ClaimIntent, DuplicateIntent, ExecutorFrame, Return, Goto, books
  <2>2. CountsNothing BY <2>1 DEF CountsNothing, Booking
  <2> QED BY <2>2, CountsNothingKeeps
<1>2. ASSUME NEW r \in Reconcilers, ReconcilerStep(r) PROVE Counting'
  BY <1>2, WalkCountsNothing, CountsNothingKeeps, ClaimPnlCounts, DailyGetCounts,
     DailyPutCounts DEF ReconcilerStep
<1>3. ASSUME NEW p \in Procs, WriteStep(p) PROVE Counting'
  <2>1. UNCHANGED <<pc, on, rc, pnlApplied, daily>> BY <1>3 DEF WriteStep, locals, books
  <2>2. CountsNothing BY <2>1 DEF CountsNothing, Booking
  <2> QED BY <2>2, CountsNothingKeeps
<1>4. ASSUME NEW p \in Procs, WriteRefused(p) \/ Crash(p) PROVE Counting'
  <2>1. /\ UNCHANGED <<pnlApplied, daily>>
        /\ \A r \in Reconcilers : \/ r = p /\ pc'[r] = "idle" /\ rc'[r] = FreshReconciler
                                  \/ pc'[r] = pc[r] /\ on'[r] = on[r] /\ rc'[r] = rc[r]
    <3>1. \E last, ret : Unwind(p, last, ret) BY <1>4 DEF WriteRefused, Crash
    <3> QED BY <3>1 DEF Unwind, books
  <2>2. \A r \in Reconcilers, i \in Intents :
          rc'[r].daily[i] = rc[r].daily[i] \/ rc'[r].daily[i] = 0
    BY <2>1 DEF FreshReconciler
  <2>3. \A r \in Reconcilers, i \in Intents : Booking(r, i)' => Booking(r, i)
    BY <2>1 DEF Booking
  <2>4. CountsNothing BY <2>1, <2>2, <2>3 DEF CountsNothing
  <2> QED BY <2>4, CountsNothingKeeps
<1>5. ASSUME NEW i \in Intents, Environment(i) PROVE Counting'
  <2>1. CountsNothing BY <1>5 DEF Environment, locals, books, CountsNothing, Booking
  <2> QED BY <2>1, CountsNothingKeeps
<1>6. CASE UNCHANGED vars
  <2>1. CountsNothing BY <1>6 DEF vars, locals, books, CountsNothing, Booking
  <2> QED BY <2>1, CountsNothingKeeps
<1> QED BY <1>1, <1>2, <1>3, <1>4, <1>5, <1>6 DEF Next

\* One exit, one entry in the daily loss: for any number of overlapping runs over
\* any number of intents, and whatever fails, no result is counted twice.
THEOREM PnlOnce == Spec => []PnlAtMostOnce
<1>1. Init => Counting BY CountInit
<1>2. TypeInv /\ Counting /\ [Next]_vars => Counting' BY CountStep
<1>3. TypeInv /\ [Next]_vars => TypeInv' BY TypeStep
<1>4. Counting => PnlAtMostOnce BY DEF Counting
<1> QED BY <1>1, <1>2, <1>3, <1>4, TypeInit, PTL DEF Spec

-----------------------------------------------------------------------------
(* A booked exit is counted.  The finalize lock lets one run per intent     *)
(* through, so that the claim of the result, whose failure leads to EXITED  *)
(* without counting, does not fail; and the row is marked after the put.    *)

Finalizing(r, i) == on[r] = i /\ pc[r] \in {"pnlClaim", "dailyGet", "dailyPut"}

OneFinalizes ==
    /\ pnlApplied \subseteq finalized
    /\ \A r \in Reconcilers, i \in Intents : Finalizing(r, i) =>
         /\ i \in finalized
         /\ pc[r] = "pnlClaim" => i \notin pnlApplied
         /\ \A q \in Reconcilers : Finalizing(q, i) => q = r

\* A row, or one on its way, with a result that is in the daily row.
Accounted(row, i) == row.exit \in {"exact", "inexact"} => daily[i] = 1

PricedIsCounted ==
    /\ \A i \in Intents : Accounted(trade[i], i)
    /\ \A p \in Procs : ~Ready(p) => Accounted(w[p].row, w[p].intent)

CountedInv == TypeInv /\ Counting /\ OneFinalizes /\ PricedIsCounted

\* Steps that let nobody into the critical section and claim nothing.
LEMMA OutsideFinalizes ==
    ASSUME OneFinalizes, UNCHANGED <<finalized, pnlApplied>>,
           \A r \in Reconcilers, i \in Intents :
             Finalizing(r, i)' => Finalizing(r, i) /\ (pc'[r] = "pnlClaim" => pc[r] = "pnlClaim")
    PROVE  OneFinalizes'
BY DEF OneFinalizes

LEMMA ReconcilerFinalizes ==
    ASSUME TypeInv, OneFinalizes, NEW r \in Reconcilers, ReconcilerStep(r)
    PROVE  OneFinalizes'
<1> USE CountFacts
<1>0. r \in Procs /\ finalized \subseteq Intents BY DEF TypeInv, TypeOK, BooksTypeOK
<1>1. CASE StartRun(r) \/ NextIntent(r) \/ ReadRow(r) \/ ReadFails(r) \/ Decide(r)
           \/ ReadTrades(r)
  <2>1. /\ UNCHANGED <<finalized, pnlApplied>>
        /\ \E l \in {"idle", "next", "row", "reads", "trades", "lock"} :
             pc' = [pc EXCEPT ![r] = l]
        /\ \A q \in Reconcilers \ {r} : on'[q] = on[q]
    BY <1>1 DEF StartRun, NextIntent, ReadRow, ReadFails, Decide, ReadTrades, Goto, books
  <2> QED BY <1>0, <2>1, OutsideFinalizes DEF Finalizing
<1>2. CASE ReadExchange(r) \/ DailyGet(r) \/ DailyPut(r)
  <2>1. /\ UNCHANGED <<finalized, pnlApplied, on>>
        /\ \/ pc' = pc
           \/ pc[r] = "dailyGet" /\ pc' = [pc EXCEPT ![r] = "dailyPut"]
           \/ pc' = [pc EXCEPT ![r] = "next"]
    BY <1>2 DEF ReadExchange, ReadOne, DailyGet, DailyPut, WriteExit, At, Goto, books
  <2> QED BY <1>0, <2>1, OutsideFinalizes DEF Finalizing
<1>3. CASE ClaimFinalize(r)
  <2>1. /\ pc[r] = "lock" /\ on[r] \in Intents
        /\ finalized' = finalized \cup {on[r]} /\ UNCHANGED <<on, pnlApplied>>
        /\ pc' = [pc EXCEPT ![r] = IF on[r] \notin finalized THEN "pnlClaim" ELSE "next"]
    BY <1>3 DEF ClaimFinalize, At, Goto, Claimable
  <2>2. CASE on[r] \in finalized
    <3>1. finalized' = finalized BY <2>1, <2>2
    <3> QED BY <1>0, <2>1, <2>2, <3>1, OutsideFinalizes DEF Finalizing
  <2>3. CASE on[r] \notin finalized
    <3>1. \A q \in Reconcilers : ~Finalizing(q, on[r]) /\ on[r] \notin pnlApplied
      BY <2>1, <2>3 DEF OneFinalizes
    <3>2. \A q \in Reconcilers, i \in Intents :
            Finalizing(q, i)' => \/ q = r /\ i = on[r]
                                 \/ q # r /\ pc'[q] = pc[q] /\ Finalizing(q, i)
      BY <1>0, <2>1 DEF Finalizing
    <3> QED BY <2>1, <3>1, <3>2 DEF OneFinalizes
  <2> QED BY <2>2, <2>3
<1>4. CASE ClaimPnl(r)
  <2>1. /\ pc[r] = "pnlClaim" /\ on[r] \in Intents /\ UNCHANGED <<on, finalized>>
        /\ Finalizing(r, on[r])
    BY <1>4 DEF ClaimPnl, At, Finalizing
  <2>2. /\ on[r] \in finalized \ pnlApplied
        /\ \A q \in Reconcilers : Finalizing(q, on[r]) => q = r
    BY <2>1 DEF OneFinalizes
  <2>3. pnlApplied' = pnlApplied \cup {on[r]} /\ pc' = [pc EXCEPT ![r] = "dailyGet"]
    BY <1>4, <2>2 DEF ClaimPnl, Claimable, Goto
  <2>4. \A q \in Reconcilers, i \in Intents :
          Finalizing(q, i)' => Finalizing(q, i) /\ (pc'[q] = "pnlClaim" => q # r /\ pc[q] = "pnlClaim")
    BY <1>0, <2>1, <2>3 DEF Finalizing
  <2> QED BY <2>1, <2>2, <2>3, <2>4 DEF OneFinalizes
<1> QED BY <1>1, <1>2, <1>3, <1>4 DEF ReconcilerStep

LEMMA StepFinalizes == ASSUME TypeInv, OneFinalizes, [Next]_vars PROVE OneFinalizes'
<1> USE CountFacts
<1>1. ASSUME NEW e \in Executors, ExecutorStep(e) PROVE OneFinalizes'
  <2>1. /\ UNCHANGED <<finalized, pnlApplied>>
        /\ \A r \in Reconcilers : pc'[r] = pc[r] /\ on'[r] = on[r]
    BY <1>1, ExecutorStepIs
       DEF OwnerStep, ClaimIntent, DuplicateIntent, ExecutorFrame, Return, Goto, books
  <2> QED BY <2>1, OutsideFinalizes DEF Finalizing
<1>2. ASSUME NEW p \in Procs, WriteRefused(p) \/ Crash(p) PROVE OneFinalizes'
  <2>1. PICK last, ret : Unwind(p, last, ret) BY <1>2 DEF WriteRefused, Crash
  <2>2. /\ UNCHANGED <<finalized, pnlApplied>>
        /\ \A r \in Reconcilers : \/ r = p /\ pc'[r] = "idle"
                                  \/ pc'[r] = pc[r] /\ on'[r] = on[r]
    BY <2>1 DEF Unwind, books
  <2> QED BY <2>2, OutsideFinalizes DEF Finalizing
<1>3. CASE \/ \E p \in Procs : WriteStep(p)
           \/ \E i \in Intents : Environment(i)
           \/ UNCHANGED vars
  <2>1. UNCHANGED <<pc, on, finalized, pnlApplied>>
    BY <1>3 DEF WriteStep, Environment, vars, locals, books
  <2> QED BY <2>1, OutsideFinalizes DEF Finalizing
<1> QED BY <1>1, <1>2, <1>3, ReconcilerFinalizes DEF Next

\* Steps that leave the daily row alone: rows and calls stay, or carry what was
\* accounted for, or no result.
LEMMA StoreAccounts ==
    ASSUME TypeInv, PricedIsCounted, UNCHANGED daily,
           \A i \in Intents : trade'[i] = trade[i] \/ trade'[i].exit = "none",
           \A p \in Procs : \/ w'[p] = w[p] \/ w'[p].step = "none"
                            \/ w'[p].row.exit \notin {"exact", "inexact"}
                            \/ daily[w'[p].intent] = 1
    PROVE  PricedIsCounted'
BY DEF PricedIsCounted, Accounted, Ready

\* The call of writeTradeState merges what is in the row and what it brings.
LEMMA WriteAccounts ==
    ASSUME TypeInv, PricedIsCounted, NEW p \in Procs, WriteStep(p)
    PROVE  PricedIsCounted'
<1>1. UNCHANGED daily /\ StoreStep(p) BY DEF WriteStep, books
<1>2. /\ w \in [Procs -> Calls \cup {NoCall}] /\ trade \in [Intents -> Rows]
      /\ NoCall.step = "none"
  BY DEF TypeInv, TypeOK, StoreTypeOK, NoCall
<1>3. ~Ready(p)
  BY <1>1 DEF StoreStep, WriteGet, WritePut, IndexGet, IndexPut, Ready
<1>4. w[p] \in Calls /\ w[p].intent \in Intents /\ Accounted(w[p].row, w[p].intent)
  BY <1>2, <1>3 DEF Ready, Calls, PricedIsCounted
<1>5. CASE WriteGet(p)
  <2>1. /\ UNCHANGED trade
        /\ w' = [w EXCEPT ![p].step = "put", ![p].row = Merge(trade[w[p].intent], w[p].row)]
    BY <1>5 DEF WriteGet
  <2>2. w'[p].intent = w[p].intent /\ w'[p].row = Merge(trade[w[p].intent], w[p].row)
    BY <1>2, <1>4, <2>1 DEF Calls
  <2>3. Accounted(trade[w[p].intent], w[p].intent) BY <1>4 DEF PricedIsCounted
  <2>4. w'[p].row.exit \in {"exact", "inexact"} => daily[w'[p].intent] = 1
    BY <1>4, <2>2, <2>3 DEF Accounted, Merge
  <2>5. \A q \in Procs \ {p} : w'[q] = w[q] BY <1>2, <2>1
  <2> QED BY <1>1, <2>1, <2>4, <2>5 DEF PricedIsCounted, Accounted, Ready
<1>6. CASE WritePut(p)
  <2>1. /\ trade' = [trade EXCEPT ![w[p].intent] = w[p].row]
        /\ w' = [w EXCEPT ![p].step = "ixget"]
    BY <1>6 DEF WritePut
  <2>2. /\ w'[p].intent = w[p].intent /\ w'[p].row = w[p].row
        /\ \A q \in Procs \ {p} : w'[q] = w[q]
    BY <1>2, <1>4, <2>1 DEF Calls
  <2> QED BY <1>1, <1>2, <1>4, <2>1, <2>2 DEF PricedIsCounted, Accounted, Ready
<1>7. CASE IndexGet(p) \/ IndexPut(p)
  <2>1. /\ UNCHANGED trade /\ \A q \in Procs \ {p} : w'[q] = w[q]
        /\ \/ w'[p].step = "none"
           \/ w'[p].intent = w[p].intent /\ w'[p].row = w[p].row
    BY <1>2, <1>4, <1>7 DEF IndexGet, IndexPut, Calls
  <2> QED BY <1>1, <1>4, <2>1 DEF PricedIsCounted, Accounted, Ready
<1> QED BY <1>1, <1>5, <1>6, <1>7 DEF StoreStep

\* A run of the reconciler marks a row with a result after the put only: with one
\* intent nobody puts another copy over it.
LEMMA ReconcilerAccounts ==
    ASSUME TypeInv, Counting, Counting', OneFinalizes, PricedIsCounted,
           \A i, j \in Intents : i = j,
           NEW r \in Reconcilers, ReconcilerStep(r)
    PROVE  PricedIsCounted'
<1> USE CountFacts
<1>0. /\ w \in [Procs -> Calls \cup {NoCall}] /\ trade \in [Intents -> Rows]
      /\ r \in Procs
  BY DEF TypeInv, TypeOK, StoreTypeOK
<1>1. CASE DailyPut(r)
  <2>1. /\ on[r] \in Intents /\ daily' = [rc[r].daily EXCEPT ![on[r]] = @ + 1]
        /\ UNCHANGED trade
        /\ BeginWrite(r, on[r], "EXITED", {}, rc[r].pnl)
    BY <1>1 DEF DailyPut, At, WriteExit
  <2>2. rc[r].daily[on[r]] \in Nat /\ daily'[on[r]] = rc[r].daily[on[r]] + 1 BY <2>1
  <2>3. daily'[on[r]] <= 1 BY <2>1 DEF Counting, PnlAtMostOnce
  <2>4. \A i \in Intents : daily'[i] = 1 BY <2>1, <2>2, <2>3
  <2>5. \A p \in Procs : w'[p] = w[p] \/ w'[p].intent \in Intents
    BY <1>0, <2>1 DEF BeginWrite
  <2>6. \A p \in Procs : ~Ready(p)' => w'[p].intent \in Intents
    BY <1>0, <2>5 DEF Ready, Calls, NoCall
  <2> QED BY <2>4, <2>6 DEF PricedIsCounted, Accounted
<1>2. CASE ClaimPnl(r)
  <2>1. Finalizing(r, on[r]) /\ on[r] \in Intents /\ pc[r] = "pnlClaim"
    BY <1>2 DEF ClaimPnl, At, Finalizing
  <2>2. on[r] \notin pnlApplied BY <2>1 DEF OneFinalizes
  <2>3. UNCHANGED <<daily, trade, w>> BY <1>2, <2>2 DEF ClaimPnl, Claimable, NoWrite, storeVars
  <2> QED BY <2>3, StoreAccounts
<1>3. CASE Decide(r)
  <2>1. UNCHANGED <<daily, trade>> BY <1>3 DEF Decide, books
  <2>2. \/ UNCHANGED w
        \/ BeginWrite(r, on[r], "EXITED", {}, "external")
        \/ BeginWrite(r, on[r], "FAILED_SAFE", Position, "none")
    BY <1>3 DEF Decide
  <2>3. \A p \in Procs : w'[p] = w[p] \/ w'[p].row.exit \notin {"exact", "inexact"}
    BY <1>0, <2>2 DEF BeginWrite
  <2> QED BY <2>1, <2>3, StoreAccounts
<1>4. CASE \/ StartRun(r) \/ NextIntent(r) \/ ReadRow(r) \/ ReadExchange(r) \/ ReadFails(r)
           \/ ReadTrades(r) \/ ClaimFinalize(r) \/ DailyGet(r)
  <2>1. UNCHANGED <<daily, trade, w>>
    BY <1>4 DEF StartRun, NextIntent, ReadRow, ReadExchange, ReadOne, ReadFails, ReadTrades,
       ClaimFinalize, DailyGet, NoWrite, storeVars, books
  <2> QED BY <2>1, StoreAccounts
<1> QED BY <1>1, <1>2, <1>3, <1>4 DEF ReconcilerStep

LEMMA CountedStep ==
    ASSUME CountedInv, \A i, j \in Intents : i = j, [Next]_vars
    PROVE  CountedInv'
<1>0. /\ TypeInv /\ Counting /\ OneFinalizes /\ PricedIsCounted
      /\ TypeInv' /\ Counting' /\ OneFinalizes'
  BY TypeStep, CountStep, StepFinalizes DEF CountedInv
<1>1. /\ w \in [Procs -> Calls \cup {NoCall}] /\ trade \in [Intents -> Rows]
      /\ Procs = Executors \cup Reconcilers
  BY <1>0, LiveAssumption DEF TypeInv, TypeOK, StoreTypeOK, LiveAssumption
<1>2. ASSUME NEW e \in Executors, ExecutorStep(e) PROVE PricedIsCounted'
  <2>1. CASE \E i \in Intents : ClaimIntent(e, i) \/ DuplicateIntent(e, i)
    <3>1. PICK i \in Intents : ClaimIntent(e, i) \/ DuplicateIntent(e, i) BY <2>1
    <3>2. CASE ClaimIntent(e, i)
      <4>1. /\ trade' = [trade EXCEPT ![i] = [NoRow EXCEPT !.state = "SIGNAL_CREATED"]]
            /\ BeginWrite(e, i, "APPROVED", {}, "none") /\ UNCHANGED daily
        BY <3>2 DEF ClaimIntent, ClaimRow, books
      <4>2. \A j \in Intents : trade'[j] = trade[j] \/ trade'[j].exit = "none"
        BY <1>1, <4>1 DEF NoRow
      <4>3. \A p \in Procs : w'[p] = w[p] \/ w'[p].row.exit = "none"
        BY <1>1, <4>1 DEF BeginWrite
      <4> QED BY <1>0, <4>1, <4>2, <4>3, StoreAccounts
    <3>3. CASE DuplicateIntent(e, i)
      BY <1>0, <3>3, StoreAccounts
         DEF DuplicateIntent, ExecutorFrame, NoWrite, storeVars, books
    <3> QED BY <3>1, <3>2, <3>3
  <2>2. CASE OwnerStep(e)
    <3>1. UNCHANGED <<daily, trade>> BY <2>2 DEF OwnerStep, StoreMove, storeVars, books
    <3>2. \A p \in Procs : w'[p] = w[p] \/ w'[p].row.exit = "none"
      BY <1>1, <2>2 DEF OwnerStep, StoreMove, storeVars, BeginWrite
    <3> QED BY <1>0, <3>1, <3>2, StoreAccounts
  <2> QED BY <1>0, <1>2, <2>1, <2>2, ExecutorStepIs
<1>3. ASSUME NEW p \in Procs, WriteRefused(p) \/ Crash(p) PROVE PricedIsCounted'
  <2>1. PICK last, ret : Unwind(p, last, ret) BY <1>3 DEF WriteRefused, Crash
  <2>2. UNCHANGED <<daily, trade>> /\ w' = [w EXCEPT ![p] = NoCall]
    BY <2>1 DEF Unwind, DropWrite, books
  <2>3. \A q \in Procs : w'[q] = w[q] \/ w'[q].step = "none" BY <1>1, <2>2 DEF NoCall
  <2> QED BY <1>0, <2>2, <2>3, StoreAccounts
<1>4. ASSUME NEW i \in Intents, Environment(i) PROVE PricedIsCounted'
  <2>1. daily' = daily /\ trade' = trade /\ w' = w
    BY <1>4 DEF Environment, storeVars, books
  <2> QED BY <1>0, <2>1, StoreAccounts
<1>5. ASSUME NEW r \in Reconcilers, ReconcilerStep(r) PROVE PricedIsCounted'
  BY <1>0, <1>5, ReconcilerAccounts
<1>6. ASSUME NEW p \in Procs, WriteStep(p) PROVE PricedIsCounted'
  BY <1>0, <1>6, WriteAccounts
<1>7. ASSUME UNCHANGED vars PROVE PricedIsCounted'
  <2>1. daily' = daily /\ trade' = trade /\ w' = w BY <1>7 DEF storeVars, books, vars
  <2> QED BY <1>0, <2>1, StoreAccounts
<1>8. PricedIsCounted' BY <1>2, <1>3, <1>4, <1>5, <1>6, <1>7 DEF Next
<1> QED BY <1>0, <1>8 DEF CountedInv

\* A row that was closed from a matched exit order has its result in the daily risk
\* row, for any number of overlapping runs and whatever fails.  The condition is
\* needed: with two intents a run may put a copy over the other's result.
THEOREM ExitsAreCounted ==
    (\A i, j \in Intents : i = j) => (Spec => []ExitIsCounted)
<1> SUFFICES ASSUME \A i, j \in Intents : i = j PROVE Spec => []ExitIsCounted
  OBVIOUS
<1>1. Init => CountedInv
  <2> SUFFICES ASSUME Init PROVE CountedInv OBVIOUS
  <2>1. TypeInv /\ Counting BY TypeInit, CountInit
  <2>2. OneFinalizes BY LiveAssumption DEF LiveAssumption, Init, OneFinalizes, Finalizing
  <2>3. PricedIsCounted
    BY DEF Init, StoreInit, NoRow, NoCall, PricedIsCounted, Accounted, Ready
  <2> QED BY <2>1, <2>2, <2>3 DEF CountedInv
<1>2. CountedInv /\ [Next]_vars => CountedInv' BY CountedStep
<1>3. CountedInv => ExitIsCounted
  BY DEF CountedInv, PricedIsCounted, Accounted, ExitIsCounted
<1> QED BY <1>1, <1>2, <1>3, PTL DEF Spec

-----------------------------------------------------------------------------
(* The position's own exit is priced.  Once the executor's call is over the *)
(* list is there, and what has become of it stays.  A leg read as cancelled *)
(* names the two ways the list can have ended, so that both legs read as    *)
(* cancelled leave one, whatever lay between the reads.                     *)

\* What a row or one on its way says of a position without its list.
Told(row, i) ==
    row.exit = "external" \/ "unprotectedPosition" \in row.flags => oco[i] = "GONE"

\* What the reads of a run have seen.
Looked(r) ==
    LET i == on[r]
        snap == rc[r].snap
    IN
    /\ Told(rc[r].row, i)
    /\ snap.list # "ABSENT" => "ABSENT" \notin {snap.tp, snap.sl}
    /\ snap.tp = "CANCELED" => oco[i] \in {"SL", "GONE"}
    /\ snap.sl = "CANCELED" => oco[i] \in {"TP", "GONE"}

CallsAreOver == \A e \in Executors : pc[e] \in {"idle", "done"} /\ Ready(e)

RowsTellOfLists ==
    /\ \A i \in Intents : Told(trade[i], i)
    /\ \A p \in Procs : ~Ready(p) => Told(w[p].row, w[p].intent)

RunsTellOfLists ==
    \A r \in Reconcilers :
        /\ rc[r].pnl # "external"
        /\ pc[r] = "reads" => Looked(r)

PlacedInv ==
    /\ EntryInv
    /\ CallsAreOver
    /\ \A i \in Intents : trade[i].state # "NONE" /\ oco[i] # "ABSENT"
    /\ RowsTellOfLists
    /\ RunsTellOfLists

LEMMA PlacedFacts ==
    ASSUME PlacedInv
    PROVE  /\ EntryInv /\ TypeInv
           /\ Executors \subseteq Procs /\ Reconcilers \subseteq Procs
           /\ Executors \cap Reconcilers = {}
           /\ w \in [Procs -> Calls \cup {NoCall}] /\ NoCall.step = "none"
           /\ trade \in [Intents -> Rows]
           /\ oco \in [Intents -> {"ABSENT", "EXECUTING", "TP", "SL", "GONE"}]
           /\ pc \in [Procs -> ExecutorPcs \cup ReconcilerPcs]
           /\ on \in [Procs -> Intents \cup {NoIntent}]
           /\ rc \in [Reconcilers -> ReconcilerLocals]
           /\ \A r \in Reconcilers : pc[r] \notin {"idle", "next"} => on[r] \in Intents
           /\ \A p \in Procs : ~Ready(p) => w[p].intent \in Intents
           /\ CallsAreOver /\ RowsTellOfLists /\ RunsTellOfLists
           /\ \A i \in Intents : trade[i].state # "NONE" /\ oco[i] # "ABSENT"
<1>1. EntryInv /\ TypeInv BY DEF PlacedInv, EntryInv
<1>2. /\ w \in [Procs -> Calls \cup {NoCall}] /\ NoCall.step = "none"
      /\ \A p \in Procs : ~Ready(p) => w[p].intent \in Intents
  BY <1>1 DEF TypeInv, TypeOK, StoreTypeOK, NoCall, Ready, Calls
<1> QED BY <1>1, <1>2, LiveAssumption
    DEF PlacedInv, TypeInv, TypeOK, StoreTypeOK, ExchangeTypeOK, LocalsTypeOK,
        WorksOnIntent, LiveAssumption

\* Steps that leave the lists alone.
LEMMA RowsKeepTelling ==
    ASSUME RowsTellOfLists, UNCHANGED <<oco, trade>>,
           \A p \in Procs : w'[p] = w[p] \/ w'[p].step = "none" \/ Told(w'[p].row, w'[p].intent)
    PROVE  RowsTellOfLists'
BY DEF RowsTellOfLists, Told, Ready

LEMMA RunsKeepTelling ==
    ASSUME RunsTellOfLists, UNCHANGED oco,
           \A r \in Reconcilers :
              /\ rc'[r].pnl \in {rc[r].pnl, "none", "exact", "inexact"}
              /\ pc'[r] = "reads" =>
                   /\ pc[r] = "reads" /\ on'[r] = on[r]
                   /\ rc'[r].row = rc[r].row /\ rc'[r].snap = rc[r].snap
    PROVE  RunsTellOfLists'
BY DEF RunsTellOfLists, Looked, Told

\* A list ends once.
LEMMA EnvironmentPlaces ==
    ASSUME PlacedInv, NEW j \in Intents, Environment(j)
    PROVE  /\ \A i \in Intents : oco'[i] # "ABSENT"
           /\ RowsTellOfLists' /\ RunsTellOfLists'
<1> USE PlacedFacts
<1>1. UNCHANGED <<trade, w, pc, on, rc>> BY DEF Environment, storeVars, locals
<1>2. \A i \in Intents : \/ oco'[i] = oco[i]
                         \/ oco[i] = "EXECUTING" /\ oco'[i] \in {"TP", "SL", "GONE"}
  BY DEF Environment, ExchangeStep, Reject, AcceptBuy, FillBuy, ExpireBuy, AcceptOco,
     ExecuteOco, AcceptEmergency, OwnerCancelsOco, OwnerSells
<1>3. RowsTellOfLists'
  BY <1>1, <1>2 DEF RowsTellOfLists, Told, Ready
<1>4. RunsTellOfLists'
  BY <1>1, <1>2 DEF RunsTellOfLists, Looked, Told
<1> QED BY <1>2, <1>3, <1>4

\* An executor can only find that its intent was taken.
LEMMA ExecutorIsOver ==
    ASSUME PlacedInv, NEW e \in Executors, ExecutorStep(e)
    PROVE  \E i \in Intents : DuplicateIntent(e, i)
<1>1. pc[e] \in {"idle", "done"} BY PlacedFacts DEF CallsAreOver
<1>2. \E i \in Intents : ClaimIntent(e, i) \/ DuplicateIntent(e, i)
  BY <1>1 DEF ExecutorStep, At, PassGate, BlockAtGate, RefusePreTrade, BuyQuery, BuySend,
     BuyAccepted, BuyRejected, BuyUnknown, BuyRequery, SettleFinal, SettlePoll,
     SettleExhausted, CancelRest, FinalQuery, Filled, Normalize, OcoFound, OcoQuery,
     OcoSend, OcoAccepted, OcoNotAccepted, OcoRequery, EmgQuery, EmgSend, EmgAccepted,
     EmgNotAccepted, EmgRequery
<1> QED BY <1>2, PlacedFacts DEF ClaimIntent, ClaimRow

LEMMA WritePlaces ==
    ASSUME PlacedInv, NEW p \in Procs, WriteStep(p)
    PROVE  /\ CallsAreOver' /\ RowsTellOfLists' /\ RunsTellOfLists'
           /\ \A i \in Intents : trade'[i].state # "NONE"
<1> USE PlacedFacts
<1>1. UNCHANGED <<oco, pc, on, rc>> /\ StoreStep(p)
  BY DEF WriteStep, exchangeVars, locals
<1>2. ~Ready(p) BY <1>1 DEF StoreStep, WriteGet, WritePut, IndexGet, IndexPut, Ready
<1>3. /\ w[p] \in Calls /\ w[p].intent \in Intents /\ w[p].row.state # "NONE"
      /\ Told(w[p].row, w[p].intent) /\ Told(trade[w[p].intent], w[p].intent)
      /\ p \notin Executors
  BY <1>2, EntryFacts DEF Ready, NoCall, RowsTellOfLists, WritesAreStates, CallsAreOver
<1>4. RunsTellOfLists' BY <1>1 DEF RunsTellOfLists, Looked, Told
<1>5. \A q \in Procs \ {p} : w'[q] = w[q]
  BY <1>1 DEF StoreStep, WriteGet, WritePut, IndexGet, IndexPut
<1>6. CallsAreOver' BY <1>1, <1>3, <1>5 DEF CallsAreOver, Ready
<1>7. /\ \A i \in Intents : \/ trade'[i] = trade[i]
                            \/ trade'[i] = w[p].row /\ i = w[p].intent
      /\ \/ w'[p].step = "none"
         \/ /\ w'[p].intent = w[p].intent
            /\ w'[p].row \in {w[p].row, Merge(trade[w[p].intent], w[p].row)}
  <2>1. CASE WriteGet(p) BY <1>3, <2>1 DEF WriteGet, Calls
  <2>2. CASE WritePut(p) BY <1>3, <2>2 DEF WritePut, Calls
  <2>3. CASE IndexGet(p) BY <1>3, <2>3 DEF IndexGet, Calls
  <2>4. CASE IndexPut(p) BY <1>3, <2>4 DEF IndexPut
  <2> QED BY <1>1, <2>1, <2>2, <2>3, <2>4 DEF StoreStep
<1>8. Told(Merge(trade[w[p].intent], w[p].row), w[p].intent) BY <1>3 DEF Told, Merge
<1>9. RowsTellOfLists'
  BY <1>1, <1>3, <1>5, <1>7, <1>8 DEF RowsTellOfLists, Told, Ready
<1> QED BY <1>3, <1>4, <1>6, <1>7, <1>9

\* A run looks, decides and writes.
LEMMA ReconcilerPlaces ==
    ASSUME PlacedInv, NEW r \in Reconcilers, ReconcilerStep(r)
    PROVE  RowsTellOfLists' /\ RunsTellOfLists'
<1> USE PlacedFacts
<1>1. UNCHANGED <<oco, trade>> /\ rc[r] \in ReconcilerLocals
  BY DEF ReconcilerStep, StartRun, NextIntent, ReadRow, ReadExchange, ReadOne, ReadFails,
     Decide, ReadTrades, ClaimFinalize, ClaimPnl, DailyGet, DailyPut, WriteExit,
     ReconcilerFrame, NoWrite, exchangeVars, storeVars
<1>2. CASE StartRun(r) \/ NextIntent(r) \/ ReadFails(r) \/ ReadTrades(r) \/ ClaimFinalize(r)
           \/ DailyGet(r)
  <2>1. UNCHANGED w
    BY <1>2 DEF StartRun, NextIntent, ReadFails, ReadTrades, ClaimFinalize, DailyGet,
       NoWrite, storeVars
  <2>2. /\ \A q \in Reconcilers \ {r} : pc'[q] = pc[q] /\ on'[q] = on[q] /\ rc'[q] = rc[q]
        /\ pc'[r] # "reads"
    BY <1>2 DEF StartRun, NextIntent, ReadFails, ReadTrades, ClaimFinalize, DailyGet, Goto
  <2>3. rc'[r].pnl \in {rc[r].pnl, "none", "exact", "inexact"}
    <3>1. CASE StartRun(r) BY <1>1, <3>1 DEF StartRun, ReconcilerLocals
    <3>2. CASE NextIntent(r) BY <3>2 DEF NextIntent, FreshReconciler
    <3>3. CASE ReadFails(r) \/ ClaimFinalize(r) BY <3>3 DEF ReadFails, ClaimFinalize
    <3>4. CASE ReadTrades(r) BY <1>1, <3>4 DEF ReadTrades, ReconcilerLocals
    <3>5. CASE DailyGet(r) BY <1>1, <3>5 DEF DailyGet, ReconcilerLocals
    <3> QED BY <1>2, <3>1, <3>2, <3>3, <3>4, <3>5
  <2> QED BY <1>1, <2>1, <2>2, <2>3, RowsKeepTelling, RunsKeepTelling
<1>3. CASE ReadRow(r)
  <2>1. UNCHANGED <<w, on>> /\ on[r] \in Intents
    BY <1>3 DEF ReadRow, At, NoWrite, storeVars
  <2>2. CASE UNCHANGED rc /\ pc' = [pc EXCEPT ![r] = "next"]
    BY <1>1, <2>1, <2>2, RowsKeepTelling, RunsKeepTelling
  <2>3. CASE /\ rc' = [rc EXCEPT ![r].row = trade[on[r]],
                                 ![r].snap = IF "protectionIds" \in trade[on[r]].flags
                                             THEN Unread ELSE UnreadNoIds]
             /\ pc' = [pc EXCEPT ![r] = "reads"]
    <3>1. /\ rc'[r].row = trade[on[r]] /\ rc'[r].pnl = rc[r].pnl
          /\ rc'[r].snap \in {Unread, UnreadNoIds}
          /\ \A q \in Reconcilers \ {r} : rc'[q] = rc[q] /\ pc'[q] = pc[q]
      BY <1>1, <2>3 DEF ReconcilerLocals
    <3>2. Looked(r)'
      BY <1>1, <2>1, <3>1 DEF Looked, Told, RowsTellOfLists, Unread, UnreadNoIds
    <3>3. RunsTellOfLists'
      BY <1>1, <2>1, <3>1, <3>2 DEF RunsTellOfLists, Looked, Told
    <3> QED BY <1>1, <2>1, <3>3, RowsKeepTelling
  <2> QED BY <1>3, <2>2, <2>3 DEF ReadRow, Goto
<1>4. CASE ReadExchange(r)
  <2>1. /\ UNCHANGED <<w, pc, on>> /\ pc[r] = "reads" /\ on[r] \in Intents /\ Looked(r)
    BY <1>4 DEF ReadExchange, ReadOne, At, NoWrite, storeVars, RunsTellOfLists
  <2> DEFINE snap == rc[r].snap
             i == on[r]
  <2>2. snap \in Snapshots BY <1>1 DEF ReconcilerLocals
  <2>3. PICK new : /\ rc' = [rc EXCEPT ![r].snap = new]
                   /\ \/ snap.list = "unread" /\ new = [snap EXCEPT !.list = ListStatus(i)]
                      \/ snap.tp = "unread" /\ new = [snap EXCEPT !.tp = LegStatus(i, "TP")]
                      \/ snap.sl = "unread" /\ new = [snap EXCEPT !.sl = LegStatus(i, "SL")]
                      \/ new = [snap EXCEPT !.base = BaseBalance(i)]
    BY <1>4 DEF ReadExchange, ReadOne
  <2>4. /\ rc'[r].snap = new /\ rc'[r].row = rc[r].row /\ rc'[r].pnl = rc[r].pnl
        /\ \A q \in Reconcilers \ {r} : rc'[q] = rc[q]
    BY <1>1, <2>3 DEF ReconcilerLocals
  <2>5. /\ ListStatus(i) # "ABSENT"
        /\ LegStatus(i, "TP") # "ABSENT" /\ LegStatus(i, "SL") # "ABSENT"
        /\ LegStatus(i, "TP") = "CANCELED" => oco[i] \in {"SL", "GONE"}
        /\ LegStatus(i, "SL") = "CANCELED" => oco[i] \in {"TP", "GONE"}
    BY <2>1 DEF ListStatus, LegStatus
  <2>6. /\ new.list # "ABSENT" => "ABSENT" \notin {new.tp, new.sl}
        /\ new.tp = "CANCELED" => oco[i] \in {"SL", "GONE"}
        /\ new.sl = "CANCELED" => oco[i] \in {"TP", "GONE"}
    BY <2>1, <2>2, <2>3, <2>5 DEF Looked, Snapshots
  <2>7. RunsTellOfLists'
    BY <1>1, <2>1, <2>4, <2>6 DEF RunsTellOfLists, Looked, Told
  <2> QED BY <1>1, <2>1, <2>7, RowsKeepTelling
<1>5. CASE Decide(r)
  <2>1. /\ UNCHANGED <<on, rc>> /\ pc[r] = "reads" /\ on[r] \in Intents /\ Looked(r)
        /\ \E l \in {"next", "trades"} : pc' = [pc EXCEPT ![r] = l]
    BY <1>5 DEF Decide, At, Goto, RunsTellOfLists
  <2>2. \/ UNCHANGED w
        \/ /\ \/ "unprotectedPosition" \in rc[r].row.flags
              \/ ProtectionGone(rc[r].snap)
           /\ \/ BeginWrite(r, on[r], "EXITED", {}, "external")
              \/ BeginWrite(r, on[r], "FAILED_SAFE", Position, "none")
    BY <1>5 DEF Decide
  <2>3. ProtectionGone(rc[r].snap) => oco[on[r]] = "GONE"
    BY <2>1 DEF ProtectionGone, Looked
  <2>4. \A p \in Procs : w'[p] = w[p] \/ Told(w'[p].row, w'[p].intent)
    BY <2>1, <2>2, <2>3 DEF BeginWrite, Looked, Told
  <2> QED BY <1>1, <2>1, <2>4, RowsKeepTelling, RunsKeepTelling
<1>6. CASE ClaimPnl(r) \/ DailyPut(r)
  <2>1. /\ UNCHANGED <<on, rc>> /\ rc[r].pnl # "external"
        /\ \E l \in {"next", "dailyGet"} : pc' = [pc EXCEPT ![r] = l]
        /\ UNCHANGED w \/ BeginWrite(r, on[r], "EXITED", {}, rc[r].pnl)
    BY <1>6 DEF ClaimPnl, DailyPut, WriteExit, Goto, NoWrite, storeVars, RunsTellOfLists
  <2>2. \A p \in Procs : w'[p] = w[p] \/ Told(w'[p].row, w'[p].intent)
    BY <2>1 DEF BeginWrite, Told
  <2> QED BY <1>1, <2>1, <2>2, RowsKeepTelling, RunsKeepTelling
<1> QED BY <1>2, <1>3, <1>4, <1>5, <1>6 DEF ReconcilerStep

LEMMA PlacedStep == ASSUME PlacedInv, [Next]_vars PROVE PlacedInv'
<1> USE PlacedFacts
<1> DEFINE Kept == /\ CallsAreOver' /\ RowsTellOfLists' /\ RunsTellOfLists'
                   /\ \A i \in Intents : trade'[i].state # "NONE" /\ oco'[i] # "ABSENT"
<1>1. ASSUME NEW e \in Executors, ExecutorStep(e) PROVE Kept
  <2>1. UNCHANGED <<oco, trade, w, on, rc>> /\ pc' = [pc EXCEPT ![e] = "done"]
    BY <1>1, ExecutorIsOver
       DEF DuplicateIntent, Return, Goto, NoWrite, storeVars, exchangeVars, ExecutorFrame
  <2>2. CallsAreOver' BY <2>1 DEF CallsAreOver, Ready
  <2>3. \A r \in Reconcilers : pc'[r] = pc[r] BY <2>1
  <2> QED BY <2>1, <2>2, <2>3, RowsKeepTelling, RunsKeepTelling
<1>2. ASSUME NEW r \in Reconcilers, ReconcilerStep(r) PROVE Kept
  <2>1. RowsTellOfLists' /\ RunsTellOfLists' BY <1>2, ReconcilerPlaces
  <2>2. RunStep(r) BY <1>2, ReconcilerStepIs
  <2>3. /\ UNCHANGED <<oco, trade>>
        /\ \A e \in Executors : pc'[e] = pc[e] /\ w'[e] = w[e]
    BY <2>2 DEF RunStep, storeVars, exchangeVars, BeginWrite
  <2>4. CallsAreOver' BY <2>3 DEF CallsAreOver, Ready
  <2> QED BY <2>1, <2>3, <2>4
<1>3. ASSUME NEW p \in Procs, WriteStep(p) PROVE Kept
  <2>1. UNCHANGED oco BY <1>3 DEF WriteStep, exchangeVars
  <2> QED BY <1>3, <2>1, WritePlaces
<1>4. ASSUME NEW p \in Procs, WriteRefused(p) \/ Crash(p) PROVE Kept
  <2>1. p \notin Executors
    BY <1>4 DEF WriteRefused, Crash, CallsAreOver, Ready
  <2>2. PICK last, ret : Unwind(p, last, ret) BY <1>4 DEF WriteRefused, Crash
  <2>3. /\ UNCHANGED <<oco, trade>> /\ w' = [w EXCEPT ![p] = NoCall]
        /\ pc' = [pc EXCEPT ![p] = "idle"]
        /\ \A q \in Procs \ {p} : on'[q] = on[q]
        /\ rc' = [r \in Reconcilers |-> IF r = p THEN FreshReconciler ELSE rc[r]]
    BY <2>1, <2>2 DEF Unwind, DropWrite, exchangeVars
  <2>4. CallsAreOver' BY <2>1, <2>3 DEF CallsAreOver, Ready
  <2>5. RowsTellOfLists' BY <2>3, RowsKeepTelling
  <2>6. RunsTellOfLists' BY <2>3, RunsKeepTelling DEF FreshReconciler
  <2> QED BY <2>3, <2>4, <2>5, <2>6
<1>5. ASSUME NEW i \in Intents, Environment(i) PROVE Kept
  <2>1. UNCHANGED <<trade, w, pc>> BY <1>5 DEF Environment, storeVars, locals
  <2> QED BY <1>5, <2>1, EnvironmentPlaces DEF CallsAreOver, Ready
<1>6. ASSUME UNCHANGED vars PROVE Kept
  <2>1. UNCHANGED <<trade, oco, w, pc, on, rc>>
    BY <1>6 DEF vars, storeVars, exchangeVars, locals
  <2> QED BY <2>1, RowsKeepTelling, RunsKeepTelling DEF CallsAreOver, Ready
<1>7. Kept BY <1>1, <1>2, <1>3, <1>4, <1>5, <1>6 DEF Next
<1> QED BY <1>7, EntryStep DEF PlacedInv

\* SeqOf lists a finite set.
LEMMA SeqOfType == ASSUME IsFiniteSet(Intents) PROVE SeqOf(Intents) \in Seq(Intents)
<1> DEFINE n == Cardinality(Intents)
           Lists(f) == f \in [1..n -> Intents]
                         /\ \A x \in Intents : \E k \in DOMAIN f : f[k] = x
<1>1. n \in Nat /\ ExistsBijection(1..n, Intents) BY FS_CardinalityType
<1>2. \E f : Lists(f)
  BY <1>1 DEF ExistsBijection, Bijection, Surjection, Injection, IsInjective
<1>3. SeqOf(Intents) = CHOOSE f \in [1..n -> Intents] :
                          \A x \in Intents : \E k \in DOMAIN f : f[k] = x
  BY DEF SeqOf
<1>4. SeqOf(Intents) \in [1..n -> Intents] BY <1>2, <1>3
<1> QED BY <1>1, <1>4

LEMMA PlacedInit == ASSUME InitProtected, IsFiniteSet(Intents) PROVE PlacedInv
<1> USE LiveAssumption DEF LiveAssumption, InitProtected
<1>1. ProtectedRow \in Rows BY DEF ProtectedRow, Rows, TradeStates, Flags, Exits
<1>2. StoreTypeOK BY <1>1, SeqOfType DEF StoreTypeOK
<1>3. ExchangeTypeOK BY DEF ExchangeTypeOK, Orders, OpenEntry, TerminalEntry, Lot, Kinds
<1>4. FreshExecutor \in ExecutorLocals
  <2>1. NoOrder \in Orders BY DEF NoOrder, Orders, Lot
  <2> QED BY <2>1 DEF FreshExecutor, ExecutorLocals, Returns
<1>5. LocalsTypeOK BY <1>4, SnapshotsType DEF LocalsTypeOK, ExecutorPcs, ReconcilerPcs
<1>6. BooksTypeOK BY DEF BooksTypeOK
<1>7. /\ \A p \in Procs : pc[p] = "idle" /\ on[p] = NoIntent /\ Ready(p)
      /\ \A i \in Intents : posts[i] = 1 /\ trade[i].state = "PROTECTED"
      /\ Executors \subseteq Procs /\ Reconcilers \subseteq Procs
  BY DEF Ready, NoCall, ProtectedRow
<1>8. TypeInv BY <1>2, <1>3, <1>5, <1>6, <1>7 DEF TypeInv, TypeOK, WorksOnIntent
<1>9. EntryInv
  BY <1>7, <1>8
     DEF EntryInv, Ownership, OwnersDiffer, IdleOwnsNothing, OwnedIsClaimed,
         WritesAreStates, UnclaimedIsUnsent, OwnerSendsOnce, SingleEntry,
         ReconcilerHolds, Holding, BeforeEntry
<1>10. RowsTellOfLists BY <1>7 DEF RowsTellOfLists, Told, ProtectedRow
<1>11. RunsTellOfLists BY <1>7 DEF RunsTellOfLists, FreshReconciler
<1> QED BY <1>7, <1>9, <1>10, <1>11 DEF PlacedInv, CallsAreOver

\* Once the executor's call is over, the reconciler never takes the position's own
\* exit for a "Manual/external position change": any number of overlapping runs,
\* reads at four moments, faults, and an owner who cancels and sells in between.
THEOREM OwnExitsArePriced ==
    IsFiniteSet(Intents) => (ProtectedSpec => []OwnExitIsPriced)
<1> SUFFICES ASSUME IsFiniteSet(Intents) PROVE ProtectedSpec => []OwnExitIsPriced
  OBVIOUS
<1>1. InitProtected => PlacedInv BY PlacedInit
<1>2. PlacedInv /\ [Next]_vars => PlacedInv' BY PlacedStep
<1>3. PlacedInv => OwnExitIsPriced
  BY DEF PlacedInv, RowsTellOfLists, Told, OwnExitIsPriced
<1> QED BY <1>1, <1>2, <1>3, PTL DEF ProtectedSpec
=============================================================================
