------------------------ MODULE LiveTradeSaleProofs -------------------------
(***************************************************************************)
(* Proofs about what the live executor sells, what it records and what it  *)
(* answers: nothing is sold while the entry can still fill, a row says     *)
(* PROTECTED only of a list the exchange took, a row says emergencyClosed  *)
(* only of a position that is gone, the answers "done" and "no position"   *)
(* leave nothing unprotected, the reconciler closes a row only of a        *)
(* position that is gone, and whatever was sent to the exchange can be     *)
(* found from the row; and, without a reconciler, that the executors       *)
(* implement the abstract TradeLifecycle.                                  *)
(*                                                                         *)
(* The argument has five parts.  The exchange forgets nothing: an order    *)
(* that exists stays, a final one stays final, and a position whose entry  *)
(* is final only shrinks.  An executor's own knowledge is never ahead of   *)
(* the exchange.  Whatever is on its way into a row was true when the      *)
(* write began, so that by the first part it is true when the write lands, *)
(* however late and whoever wrote in between.  And a row tells of an order *)
(* before the order can be at the exchange, and keeps telling of it.  The  *)
(* refinement needs the last one: an intent has one writer, its owner, so  *)
(* that the place of its call says where on the way the row is.            *)
(***************************************************************************)
EXTENDS LiveTradeProofs

\* From the last query of settleEntryOrder to the last sale.
Selling ==
    {"finalQuery", "filled", "normalize", "ocoQuery", "ocoSend", "ocoWait",
     "ocoRequery", "emgQuery", "emgSend", "emgWait", "emgRequery"}

-----------------------------------------------------------------------------
(* What is true of the exchange.                                           *)

\* An entry order exists only once its POST was accepted.
EntryIsAccepted ==
    \A i \in Intents :
        /\ posts[i] = 0 => net["buy"][i] = "none"
        /\ net["buy"][i] # "ok" => buy[i] = NoOrder

\* An accepted sale exists.
AcceptedIsThere ==
    \A i \in Intents :
        /\ net["oco"][i] = "ok" => oco[i] # "ABSENT"
        /\ net["emg"][i] = "ok" => emg[i] # "ABSENT"

\* A filled sale has sold everything, and nothing can be bought any more.
SoldIsFlat ==
    \A i \in Intents :
        emg[i] = "FILLED" => held[i] = 0 /\ buy[i].status \in TerminalEntry

\* A market sale expires only where the book can be thin.
SalesFill == \A i \in Intents : emg[i] = "EXPIRED" => ThinBook

\* A working list has something to sell, a list that sold left nothing, and there
\* is no list before the entry is final.
ListsAreBacked ==
    \A i \in Intents :
        /\ oco[i] = "EXECUTING" => held[i] > 0
        /\ oco[i] \in {"TP", "SL"} => held[i] = 0
        /\ oco[i] # "ABSENT" => buy[i].status \in TerminalEntry

ExchangeIsTrue ==
    /\ EntryIsAccepted
    /\ AcceptedIsThere
    /\ SoldIsFlat
    /\ SalesFill
    /\ ListsAreBacked
    /\ SaleFollowsFinalEntry

-----------------------------------------------------------------------------
(* What an executor knows.                                                 *)

NothingBought(i) ==
    /\ held[i] = 0
    /\ \/ buy[i].status \in TerminalEntry
       \/ buy[i].status = "ABSENT" /\ net["buy"][i] # "sent"

SaleExists(i) == oco[i] # "ABSENT" \/ emg[i] # "ABSENT"

\* A final order it has read is the order; an order it has read exists.
SeenIsReal ==
    \A e \in Executors :
        /\ on[e] = NoIntent => ex[e].seen.status = "ABSENT"
        /\ on[e] # NoIntent =>
             /\ ex[e].seen.status \in TerminalEntry => buy[on[e]] = ex[e].seen
             /\ ex[e].seen.status # "ABSENT" => buy[on[e]].status # "ABSENT"

\* It cancels only an order that exists, and sells only after a final entry.
SellerHasSettled ==
    \A e \in Executors :
        /\ pc[e] = "cancel" => buy[on[e]].status # "ABSENT"
        /\ pc[e] \in Selling => buy[on[e]].status \in TerminalEntry

\* What its answer says.
AnswerIsTrue ==
    \A e \in Executors :
        /\ pc[e] = "done" /\ ex[e].ret = "OK" =>
             on[e] \in Intents /\ SaleExists(on[e])
        /\ pc[e] = "done" /\ ex[e].ret = "NO_POSITION" =>
             on[e] \in Intents /\ NothingBought(on[e])

ExecutorIsTrue == SeenIsReal /\ SellerHasSettled /\ AnswerIsTrue

-----------------------------------------------------------------------------
(* What is true of the rows, and of those about to be written.             *)

\* A position that is gone for good: nothing is held or can be bought.
Flat(i) == held[i] = 0 /\ buy[i].status \in TerminalEntry

Truthful(row, i) ==
    /\ row.state = "PROTECTED" => oco[i] # "ABSENT"
    /\ "emergencyClosed" \in row.flags => emg[i] # "ABSENT"
    /\ row.flags # {} => buy[i].status \in TerminalEntry
    /\ row.state = "EXITED" => Flat(i)

RowsAreTrue == \A i \in Intents : Truthful(trade[i], i)
WritesAreTrue == \A p \in Procs : ~Ready(p) => Truthful(w[p].row, w[p].intent)

StoreIsTrue == RowsAreTrue /\ WritesAreTrue

-----------------------------------------------------------------------------
(* What a reconciler knows.  Its four reads see four moments, but the row    *)
(* it read first carries a mark, so that the entry was final before any of   *)
(* them: what one read saw gone is still gone when the last one is over.     *)

Booked == {"trades", "lock", "pnlClaim", "dailyGet", "dailyPut"}

RunKnows(r) ==
    /\ pc[r] = "reads" =>
         /\ rc[r].row.flags # {} =>
              /\ buy[on[r]].status \in TerminalEntry
              /\ rc[r].snap.base = "dust" => Flat(on[r])
         /\ rc[r].snap.list \in {"unread", "ALL_DONE"} => rc[r].row.flags # {}
         /\ Matched(rc[r].snap) => Flat(on[r])
    /\ pc[r] \in Booked => Flat(on[r])

RunsAreTrue == \A r \in Reconcilers : RunKnows(r)

SaleInv ==
    /\ EntryInv
    /\ ExchangeIsTrue
    /\ ExecutorIsTrue
    /\ RunsAreTrue
    /\ StoreIsTrue

LEMMA SaleFacts ==
    ASSUME SaleInv
    PROVE  /\ TypeInv /\ EntryInv /\ WorksOnIntent
           /\ Executors \subseteq Procs /\ Reconcilers \subseteq Procs
           /\ Executors \cap Reconcilers = {}
           /\ NoIntent \notin Intents
           /\ OwnersDiffer /\ OwnerSendsOnce /\ IdleOwnsNothing
           /\ ExchangeTypeOK
           /\ trade \in [Intents -> Rows]
           /\ w \in [Procs -> Calls \cup {NoCall}]
           /\ pc \in [Procs -> ExecutorPcs \cup ReconcilerPcs]
           /\ on \in [Procs -> Intents \cup {NoIntent}]
           /\ ex \in [Executors -> ExecutorLocals]
           /\ \A e \in Executors : ex[e].seen \in Orders
           /\ EntryIsAccepted /\ AcceptedIsThere /\ SoldIsFlat /\ SalesFill
           /\ ListsAreBacked /\ SaleFollowsFinalEntry
           /\ SeenIsReal /\ SellerHasSettled /\ AnswerIsTrue
           /\ RunsAreTrue /\ RowsAreTrue /\ WritesAreTrue
<1>1. TypeInv /\ EntryInv BY DEF SaleInv, EntryInv
<1>2. \A e \in Executors : ex[e].seen \in Orders BY <1>1, LocalsOf DEF TypeInv
<1> QED BY <1>1, <1>2, EntryFacts
    DEF SaleInv, TypeInv, TypeOK, StoreTypeOK, LocalsTypeOK, ExchangeIsTrue,
        ExecutorIsTrue, StoreIsTrue

LEMMA BookFacts ==
    ASSUME ExchangeTypeOK, NEW i \in Intents
    PROVE  /\ buy[i] \in Orders /\ buy[i].qty \in 0..Lot
           /\ buy[i].status \in {"ABSENT"} \cup OpenEntry \cup TerminalEntry
           /\ held[i] \in 0..Lot /\ held[i] <= buy[i].qty
           /\ emg[i] \in {"ABSENT", "FILLED", "EXPIRED"}
           /\ (buy[i] = NoOrder => held[i] = 0 /\ buy[i].status = "ABSENT")
           /\ \A k \in Kinds : net[k][i] \in {"none", "sent", "ok", "reject", "lost"}
           /\ OpenEntry \cap TerminalEntry = {}
           /\ "ABSENT" \notin OpenEntry \cup TerminalEntry
BY DEF ExchangeTypeOK, Orders, NoOrder, Lot, OpenEntry, TerminalEntry

-----------------------------------------------------------------------------
(* The exchange forgets nothing.                                           *)

Remembers(i) ==
    /\ buy[i].status \in TerminalEntry => buy'[i] = buy[i] /\ held'[i] <= held[i]
    /\ buy[i].status # "ABSENT" => buy'[i].status # "ABSENT"
    /\ oco[i] # "ABSENT" => oco'[i] # "ABSENT"
    /\ emg[i] # "ABSENT" => emg'[i] # "ABSENT"
    /\ buy[i].status = "ABSENT" /\ net["buy"][i] # "sent" =>
         buy'[i] = buy[i] /\ held'[i] <= held[i]

\* Whatever the exchange does by itself, to whichever order.
LEMMA EnvironmentRemembers ==
    ASSUME ExchangeTypeOK, NEW j \in Intents, ExchangeStep(j), NEW i \in Intents
    PROVE  Remembers(i) /\ (net'["buy"][i] = "sent" => net["buy"][i] = "sent")
<1> USE BookFacts DEF Remembers, ExchangeTypeOK, Kinds
<1>1. ASSUME NEW k \in Kinds, Reject(k, j)
      PROVE  Remembers(i) /\ (net'["buy"][i] = "sent" => net["buy"][i] = "sent")
  BY <1>1 DEF Reject, Answer
<1>2. CASE AcceptBuy(j)
  <2>1. buy'[i].status # "ABSENT" \/ buy'[i] = buy[i]
    BY <1>2 DEF AcceptBuy, Orders, OpenEntry
  <2>2. buy[i].status \in TerminalEntry => buy'[i] = buy[i]
    BY <1>2 DEF AcceptBuy, Orders, TerminalEntry
  <2> QED BY <1>2, <2>1, <2>2 DEF AcceptBuy, Answer
<1>3. CASE FillBuy(j)
  <2>1. PICK q \in (buy[j].qty + 1)..Lot :
          /\ buy' = [buy EXCEPT ![j] =
                      [status |-> IF q = Lot THEN "FILLED" ELSE "PARTIALLY_FILLED",
                       qty |-> q]]
          /\ held' = [held EXCEPT ![j] = @ + q - buy[j].qty]
    BY <1>3 DEF FillBuy
  <2>2. CASE i = j BY <1>3, <2>1, <2>2 DEF FillBuy
  <2>3. CASE i # j BY <1>3, <2>1, <2>3 DEF FillBuy, Lot
  <2> QED BY <2>2, <2>3
<1>4. CASE ExpireBuy(j)
  <2>1. CASE i = j BY <1>4, <2>1 DEF ExpireBuy, Orders
  <2>2. CASE i # j BY <1>4, <2>2 DEF ExpireBuy, Lot
  <2> QED BY <2>1, <2>2
<1>5. CASE AcceptOco(j) BY <1>5 DEF AcceptOco, Answer, Lot
<1>6. CASE ExecuteOco(j) BY <1>6 DEF ExecuteOco, Lot
<1>7. CASE AcceptEmergency(j) BY <1>7 DEF AcceptEmergency, Answer, Lot
<1>8. CASE OwnerCancelsOco(j) BY <1>8 DEF OwnerCancelsOco, Lot
<1>9. CASE OwnerSells(j) BY <1>9 DEF OwnerSells, Lot
<1> QED BY <1>1, <1>2, <1>3, <1>4, <1>5, <1>6, <1>7, <1>8, <1>9 DEF ExchangeStep

\* What the exchange does keeps what is true of it: a sale fills only after it
\* was sent, which is after the entry was final.
LEMMA EnvironmentIsTrue ==
    ASSUME SaleInv, NEW j \in Intents, ExchangeStep(j)
    PROVE  ExchangeIsTrue'
<1>0. ExchangeTypeOK /\ \A i \in Intents : Remembers(i) BY SaleFacts, EnvironmentRemembers
<1>1. \A i \in Intents : \A k \in Kinds : net'[k][i] = "none" <=> net[k][i] = "none"
  BY <1>0, BookFacts
     DEF ExchangeStep, Reject, AcceptBuy, FillBuy, ExpireBuy, AcceptOco, ExecuteOco,
         AcceptEmergency, OwnerCancelsOco, OwnerSells, Answer, ExchangeTypeOK, Kinds
<1>2. posts' = posts
  BY DEF ExchangeStep, Reject, AcceptBuy, FillBuy, ExpireBuy, AcceptOco, ExecuteOco,
         AcceptEmergency, OwnerCancelsOco, OwnerSells
<1>3. SaleFollowsFinalEntry'
  BY <1>0, <1>1, SaleFacts DEF SaleFollowsFinalEntry, Submitted, Remembers, Kinds
<1>4. EntryIsAccepted'
  <2>1. ASSUME NEW i \in Intents, net'["buy"][i] # "ok" PROVE buy'[i] = NoOrder
    <3>1. CASE \E k \in Kinds : Reject(k, j)
      BY <1>0, <2>1, <3>1, SaleFacts
         DEF Reject, Answer, EntryIsAccepted, ExchangeTypeOK, Kinds
    <3>2. CASE AcceptBuy(j)
      <4>1. i # j BY <2>1, <3>2, <1>0 DEF AcceptBuy, Answer, ExchangeTypeOK, Kinds
      <4> QED BY <1>0, <2>1, <3>2, <4>1, SaleFacts
          DEF AcceptBuy, Answer, EntryIsAccepted, ExchangeTypeOK, Kinds
    <3>3. CASE ~ AcceptBuy(j) /\ ~ \E k \in Kinds : Reject(k, j)
      <4>1. net'["buy"][i] = net["buy"][i]
        BY <1>0, <3>3
           DEF ExchangeStep, FillBuy, ExpireBuy, AcceptOco, ExecuteOco,
               AcceptEmergency, OwnerCancelsOco, OwnerSells, Answer, ExchangeTypeOK, Kinds
      <4>2. buy[i] = NoOrder BY <2>1, <4>1, SaleFacts DEF EntryIsAccepted
      <4>3. (FillBuy(j) \/ ExpireBuy(j)) => i # j
        BY <1>0, <4>2, BookFacts DEF FillBuy, ExpireBuy
      <4> QED BY <1>0, <3>3, <4>2, <4>3
          DEF ExchangeStep, FillBuy, ExpireBuy, AcceptOco, ExecuteOco,
              AcceptEmergency, OwnerCancelsOco, OwnerSells, ExchangeTypeOK
    <3> QED BY <3>1, <3>2, <3>3
  <2>2. \A i \in Intents : posts[i] = 0 => net'["buy"][i] = "none"
    BY <1>1, SaleFacts DEF EntryIsAccepted, Kinds
  <2> QED BY <1>2, <2>1, <2>2 DEF EntryIsAccepted
<1>5. AcceptedIsThere'
  <2>1. ASSUME NEW i \in Intents, net'["oco"][i] = "ok" PROVE oco'[i] # "ABSENT"
    <3>1. net["oco"][i] = "ok" \/ (AcceptOco(j) /\ i = j)
      BY <1>0, <2>1
         DEF ExchangeStep, Reject, AcceptBuy, FillBuy, ExpireBuy, AcceptOco, ExecuteOco,
             AcceptEmergency, OwnerCancelsOco, OwnerSells, Answer, ExchangeTypeOK, Kinds
    <3> QED BY <1>0, <3>1, SaleFacts
        DEF AcceptedIsThere, Remembers, AcceptOco, ExchangeTypeOK
  <2>2. ASSUME NEW i \in Intents, net'["emg"][i] = "ok" PROVE emg'[i] # "ABSENT"
    <3>1. net["emg"][i] = "ok" \/ (AcceptEmergency(j) /\ i = j)
      BY <1>0, <2>2
         DEF ExchangeStep, Reject, AcceptBuy, FillBuy, ExpireBuy, AcceptOco, ExecuteOco,
             AcceptEmergency, OwnerCancelsOco, OwnerSells, Answer, ExchangeTypeOK, Kinds
    <3> QED BY <1>0, <3>1, SaleFacts
        DEF AcceptedIsThere, Remembers, AcceptEmergency, ExchangeTypeOK
  <2> QED BY <2>1, <2>2 DEF AcceptedIsThere
<1>6. \/ emg' = emg
      \/ /\ AcceptEmergency(j)
         /\ \/ emg' = [emg EXCEPT ![j] = "FILLED"] /\ held' = [held EXCEPT ![j] = 0]
            \/ emg' = [emg EXCEPT ![j] = "EXPIRED"] /\ ThinBook
  BY DEF ExchangeStep, Reject, AcceptBuy, FillBuy, ExpireBuy, AcceptOco, ExecuteOco,
         AcceptEmergency, OwnerCancelsOco, OwnerSells
<1>7. SalesFill' BY <1>0, <1>6, SaleFacts DEF SalesFill, ExchangeTypeOK
<1>8. SoldIsFlat'
  <2> SUFFICES ASSUME NEW i \in Intents, emg'[i] = "FILLED"
               PROVE  held'[i] = 0 /\ buy'[i].status \in TerminalEntry
    BY DEF SoldIsFlat
  <2>1. CASE emg[i] = "FILLED"
    <3>1. held[i] = 0 /\ buy[i].status \in TerminalEntry BY <2>1, SaleFacts DEF SoldIsFlat
    <3>2. held'[i] \in 0..Lot
      <4>1. ExchangeTypeOK' BY <1>0, EnvironmentType
      <4> QED BY <4>1 DEF ExchangeTypeOK
    <3> QED BY <1>0, <3>1, <3>2 DEF Remembers, Lot
  <2>2. CASE emg[i] # "FILLED"
    <3>1. /\ AcceptEmergency(j) /\ i = j /\ held'[i] = 0
      BY <1>0, <1>6, <2>2 DEF ExchangeTypeOK
    <3>2. buy' = buy /\ Submitted("emg", i) BY <3>1 DEF AcceptEmergency, Submitted
    <3> QED BY <3>1, <3>2, SaleFacts DEF SaleFollowsFinalEntry
  <2> QED BY <2>1, <2>2
<1>9. ListsAreBacked'
  <2> SUFFICES ASSUME NEW i \in Intents
               PROVE  /\ oco'[i] = "EXECUTING" => held'[i] > 0
                      /\ oco'[i] \in {"TP", "SL"} => held'[i] = 0
                      /\ oco'[i] # "ABSENT" => buy'[i].status \in TerminalEntry
    BY DEF ListsAreBacked
  <2>0. /\ held[i] \in 0..Lot
        /\ oco[i] = "EXECUTING" => held[i] > 0
        /\ oco[i] \in {"TP", "SL"} => held[i] = 0
        /\ oco[i] # "ABSENT" => buy[i].status \in TerminalEntry
    BY <1>0, SaleFacts, BookFacts DEF ListsAreBacked
  <2>1. CASE AcceptOco(j)
    <3>1. buy[j].status \in TerminalEntry
      BY <2>1, SaleFacts DEF AcceptOco, SaleFollowsFinalEntry, Submitted
    <3> QED BY <1>0, <2>0, <2>1, <3>1 DEF AcceptOco, ExchangeTypeOK
  <2>2. CASE ExecuteOco(j) BY <1>0, <2>0, <2>2 DEF ExecuteOco, ExchangeTypeOK
  <2>3. CASE FillBuy(j) \/ ExpireBuy(j)
    <3>1. oco[j] = "ABSENT" /\ oco' = oco
      BY <1>0, <2>3, SaleFacts, BookFacts DEF FillBuy, ExpireBuy, ListsAreBacked
    <3>2. i # j => buy'[i] = buy[i] /\ held'[i] = held[i]
      BY <1>0, <2>3 DEF FillBuy, ExpireBuy, ExchangeTypeOK
    <3> QED BY <2>0, <3>1, <3>2
  <2>4. CASE AcceptEmergency(j)
    BY <1>0, <2>0, <2>4 DEF AcceptEmergency, ExchangeTypeOK
  <2>5. CASE OwnerCancelsOco(j)
    BY <1>0, <2>0, <2>5 DEF OwnerCancelsOco, ExchangeTypeOK
  <2>6. CASE OwnerSells(j) BY <1>0, <2>0, <2>6 DEF OwnerSells, ExchangeTypeOK
  <2>7. CASE AcceptBuy(j)
    <3>1. oco[j] = "ABSENT"
      BY <1>0, <2>7, SaleFacts, BookFacts DEF AcceptBuy, ListsAreBacked
    <3> QED BY <1>0, <2>0, <2>7, <3>1 DEF AcceptBuy, ExchangeTypeOK
  <2>8. CASE \E k \in Kinds : Reject(k, j) BY <2>0, <2>8 DEF Reject
  <2> QED BY <2>1, <2>2, <2>3, <2>4, <2>5, <2>6, <2>7, <2>8 DEF ExchangeStep
<1> QED BY <1>3, <1>4, <1>5, <1>7, <1>8, <1>9 DEF ExchangeIsTrue

-----------------------------------------------------------------------------
(* The steps of an executor that owns an intent, with what they know.       *)

\* A write that begins says nothing that is not true.
CarefulWrite(e) ==
    \/ UNCHANGED storeVars
    \/ /\ \E s \in TradeStates, f \in SUBSET Flags :
            /\ BeginWrite(e, on[e], s, f, "none")
            /\ s = "PROTECTED" => oco[on[e]] # "ABSENT"
            /\ "emergencyClosed" \in f => emg[on[e]] # "ABSENT"
            /\ f # {} => buy[on[e]].status \in TerminalEntry
            /\ s # "EXITED"
       /\ UNCHANGED <<trade, index>>

\* A sale leaves only from the selling part of the call.
CarefulMove(e) ==
    \/ UNCHANGED exchangeVars
    \/ pc[e] = "buySend" /\ Send("buy", on[e])
    \/ pc[e] \in Selling /\ \E k \in {"oco", "emg"} : Send(k, on[e])
    \/ \E k \in Kinds : GiveUp(k, on[e])
    \/ CancelEntry(on[e])

CarefulLocals(e, l, x) ==
    /\ pc' = [pc EXCEPT ![e] = l]
    /\ ex' = [ex EXCEPT ![e] = x]
    /\ x.seen \in {ex[e].seen, buy[on[e]]}
    /\ x.seen # ex[e].seen => buy' = buy
    /\ l = "cancel" => buy[on[e]].status # "ABSENT" /\ buy' = buy
    /\ l \in Selling => buy'[on[e]].status \in TerminalEntry
    /\ l = "done" /\ x.ret = "OK" => SaleExists(on[e]) /\ UNCHANGED exchangeVars
    /\ l = "done" /\ x.ret = "NO_POSITION" => NothingBought(on[e]) /\ UNCHANGED exchangeVars

CarefulStep(e) ==
    /\ Ready(e)
    /\ pc[e] \notin {"idle", "done", "crashed"}
    /\ on[e] \in Intents
    /\ CarefulWrite(e)
    /\ CarefulMove(e)
    /\ \E l \in ExecutorPcs, x \in ExecutorLocals : CarefulLocals(e, l, x)
    /\ UNCHANGED <<on, rc>>

\* What an owner knows of its own intent, spelled out for the actions.
LEMMA OwnerKnows ==
    ASSUME SaleInv, NEW e \in Executors, pc[e] \notin {"idle", "done", "crashed"}
    PROVE  /\ on[e] \in Intents /\ on[e] # NoIntent
           /\ ex[e] \in ExecutorLocals /\ ex[e].seen \in Orders
           /\ buy[on[e]] \in Orders
           /\ held[on[e]] \in 0..Lot /\ held[on[e]] <= buy[on[e]].qty
           /\ ex[e].seen.status \in TerminalEntry => buy[on[e]] = ex[e].seen
           /\ ex[e].seen.status # "ABSENT" => buy[on[e]].status # "ABSENT"
           /\ pc[e] = "cancel" => buy[on[e]].status # "ABSENT"
           /\ pc[e] \in Selling => buy[on[e]].status \in TerminalEntry
<1>1. on[e] \in Intents /\ on[e] # NoIntent BY SaleFacts DEF WorksOnIntent
<1>2. buy[on[e]] \in Orders /\ held[on[e]] \in 0..Lot /\ held[on[e]] <= buy[on[e]].qty
  BY <1>1, SaleFacts, BookFacts
<1> QED BY <1>1, <1>2, SaleFacts DEF SeenIsReal, SellerHasSettled

\* The ways a call goes on, each with the locals it leaves.
LEMMA ReturnIsCareful ==
    ASSUME SaleInv, NEW e \in Executors, pc[e] \notin {"idle", "done", "crashed"},
           NEW ret \in Returns, Return(e, ret),
           ret = "OK" => SaleExists(on[e]) /\ UNCHANGED exchangeVars,
           ret = "NO_POSITION" => NothingBought(on[e]) /\ UNCHANGED exchangeVars
    PROVE  \E l \in ExecutorPcs, x \in ExecutorLocals : CarefulLocals(e, l, x)
<1>1. ex[e] \in ExecutorLocals BY OwnerKnows
<1>2. [ex[e] EXCEPT !.ret = ret] \in ExecutorLocals BY <1>1 DEF ExecutorLocals
<1>3. [ex[e] EXCEPT !.ret = ret].seen = ex[e].seen BY <1>1 DEF ExecutorLocals
<1>4. [ex[e] EXCEPT !.ret = ret].ret = ret BY <1>1 DEF ExecutorLocals
<1>5. ex' = [ex EXCEPT ![e] = [ex[e] EXCEPT !.ret = ret]] BY DEF Return
<1>6. pc' = [pc EXCEPT ![e] = "done"] BY DEF Return, Goto
<1>7. "done" \in ExecutorPcs /\ "done" \notin Selling BY DEF ExecutorPcs, Selling
<1>8. CarefulLocals(e, "done", [ex[e] EXCEPT !.ret = ret])
  BY <1>3, <1>4, <1>5, <1>6, <1>7 DEF CarefulLocals
<1> QED BY <1>2, <1>7, <1>8

LEMMA GotoIsCareful ==
    ASSUME SaleInv, NEW e \in Executors, pc[e] \notin {"idle", "done", "crashed"},
           NEW l \in ExecutorPcs \ {"done"}, Goto(e, l), UNCHANGED ex,
           l = "cancel" => buy[on[e]].status # "ABSENT" /\ buy' = buy,
           l \in Selling => buy'[on[e]].status \in TerminalEntry
    PROVE  \E m \in ExecutorPcs, x \in ExecutorLocals : CarefulLocals(e, m, x)
<1>1. ex[e] \in ExecutorLocals BY OwnerKnows
<1>2. ex' = [ex EXCEPT ![e] = ex[e]] BY SaleFacts
<1>3. pc' = [pc EXCEPT ![e] = l] BY DEF Goto
<1>4. CarefulLocals(e, l, ex[e]) BY <1>2, <1>3 DEF CarefulLocals
<1> QED BY <1>1, <1>4

\* Reading the order, or keeping what was read.
LEMMA SeeIsCareful ==
    ASSUME SaleInv, NEW e \in Executors, pc[e] \notin {"idle", "done", "crashed"},
           NEW l \in ExecutorPcs \ {"done"}, Goto(e, l),
           NEW x \in ExecutorLocals, Local(e, x), UNCHANGED exchangeVars,
           x.seen \in {ex[e].seen, buy[on[e]]},
           l = "cancel" => buy[on[e]].status # "ABSENT",
           l \in Selling => buy[on[e]].status \in TerminalEntry
    PROVE  \E m \in ExecutorPcs, y \in ExecutorLocals : CarefulLocals(e, m, y)
<1>1. CarefulLocals(e, l, x)
  BY DEF CarefulLocals, Goto, Local, exchangeVars
<1> QED BY <1>1

LEMMA WriteIsCareful ==
    ASSUME NEW e \in Executors, NEW s \in TradeStates, NEW f \in SUBSET Flags,
           Write(e, s, f),
           s = "PROTECTED" => oco[on[e]] # "ABSENT",
           "emergencyClosed" \in f => emg[on[e]] # "ABSENT",
           f # {} => buy[on[e]].status \in TerminalEntry,
           s # "EXITED"
    PROVE  CarefulWrite(e)
BY DEF Write, CarefulWrite

LEMMA BuyIsCareful ==
    ASSUME SaleInv, NEW e \in Executors,
           \/ PassGate(e) \/ BlockAtGate(e) \/ RefusePreTrade(e)
           \/ BuyQuery(e) \/ BuySend(e) \/ BuyAccepted(e) \/ BuyRejected(e)
           \/ BuyUnknown(e) \/ BuyRequery(e)
    PROVE  CarefulStep(e)
<1>0. /\ {} \in SUBSET Flags /\ "emergencyClosed" \notin {}
      /\ {"APPROVED", "ENTRY_SUBMITTING", "ENTRY_ACCEPTED", "FAILED_SAFE"} \subseteq TradeStates
      /\ {"RECONCILE", "NO_POSITION"} \subseteq Returns
      /\ {"buyQuery", "buySend", "buyWait", "buyRequery", "settle"}
           \subseteq ExecutorPcs \ {"done"}
      /\ {"buyQuery", "buySend", "buyWait", "buyRequery", "settle", "cancel"} \cap Selling = {}
  BY DEF Flags, TradeStates, Returns, ExecutorPcs, Selling
<1>1. pc[e] \notin {"idle", "done", "crashed"} /\ Ready(e) /\ on[e] \in Intents /\ UNCHANGED <<on, rc>>
  <2>1. pc[e] \notin {"idle", "done", "crashed"} /\ Ready(e) /\ UNCHANGED <<on, rc>>
    BY DEF PassGate, BlockAtGate, RefusePreTrade, BuyQuery, BuySend, BuyAccepted, BuyRejected,
           BuyUnknown, BuyRequery, At, ExecutorFrame
  <2> QED BY <2>1, OwnerKnows
<1> DEFINE Look == [ex[e] EXCEPT !.seen = buy[on[e]], !.polls = 0]
<1>2. Look \in ExecutorLocals /\ Look.seen = buy[on[e]]
  <2>1. 0 \in 0..SettleAttempts BY LiveAssumption DEF LiveAssumption
  <2>2. ex[e] \in ExecutorLocals /\ buy[on[e]] \in Orders BY <1>1, OwnerKnows
  <2> QED BY <2>1, <2>2, SeenIsLocal DEF ExecutorLocals
<1> HIDE DEF Look
<1>3. CASE PassGate(e)
  <2>1. CarefulWrite(e) /\ CarefulMove(e) BY <1>3 DEF PassGate, NoWrite, CarefulWrite, CarefulMove
  <2>2. \E l \in ExecutorPcs, x \in ExecutorLocals : CarefulLocals(e, l, x)
    BY <1>0, <1>1, <1>3, GotoIsCareful DEF PassGate
  <2> QED BY <1>1, <2>1, <2>2 DEF CarefulStep
<1>4. CASE BlockAtGate(e)
  <2>1. CarefulWrite(e) /\ CarefulMove(e)
    BY <1>0, <1>4, WriteIsCareful DEF BlockAtGate, Finish, CarefulMove
  <2>2. \E l \in ExecutorPcs, x \in ExecutorLocals : CarefulLocals(e, l, x)
    BY <1>0, <1>1, <1>4, ReturnIsCareful DEF BlockAtGate, Finish
  <2> QED BY <1>1, <2>1, <2>2 DEF CarefulStep
<1>5. CASE RefusePreTrade(e)
  <2>1. CarefulWrite(e) /\ CarefulMove(e)
    BY <1>0, <1>5, WriteIsCareful DEF RefusePreTrade, Finish, CarefulMove
  <2>2. NothingBought(on[e])
    <3>1. posts[on[e]] = 0
      BY <1>5, SaleFacts DEF RefusePreTrade, At, OwnerSendsOnce, BeforeEntry
    <3> QED BY <1>1, <3>1, SaleFacts, BookFacts DEF EntryIsAccepted, NothingBought
  <2>3. \E l \in ExecutorPcs, x \in ExecutorLocals : CarefulLocals(e, l, x)
    BY <1>0, <1>1, <1>5, <2>2, ReturnIsCareful DEF RefusePreTrade, Finish
  <2> QED BY <1>1, <2>1, <2>3 DEF CarefulStep
<1>6. CASE BuyQuery(e)
  <2>1. CarefulWrite(e) /\ CarefulMove(e)
    BY <1>0, <1>6, WriteIsCareful DEF BuyQuery, NoWrite, CarefulWrite, CarefulMove
  <2>2. \E l \in ExecutorPcs, x \in ExecutorLocals : CarefulLocals(e, l, x)
    <3>1. CASE Local(e, Look) /\ Goto(e, "settle")
      BY <1>0, <1>1, <1>2, <1>6, <3>1, SeeIsCareful DEF BuyQuery
    <3>2. CASE Goto(e, "buySend") /\ UNCHANGED ex
      BY <1>0, <1>1, <3>2, GotoIsCareful
    <3>3. CASE Return(e, "RECONCILE")
      BY <1>0, <1>1, <3>3, ReturnIsCareful
    <3> QED BY <1>6, <3>1, <3>2, <3>3 DEF BuyQuery, Look
  <2> QED BY <1>1, <2>1, <2>2 DEF CarefulStep
<1>7. CASE BuySend(e)
  <2>1. CarefulWrite(e) /\ CarefulMove(e)
    BY <1>7 DEF BuySend, At, NoWrite, CarefulWrite, CarefulMove
  <2>2. \E l \in ExecutorPcs, x \in ExecutorLocals : CarefulLocals(e, l, x)
    BY <1>0, <1>1, <1>7, GotoIsCareful, ReturnIsCareful DEF BuySend
  <2> QED BY <1>1, <2>1, <2>2 DEF CarefulStep
<1>8. CASE BuyAccepted(e)
  <2>1. CarefulWrite(e) /\ CarefulMove(e)
    BY <1>0, <1>8, WriteIsCareful DEF BuyAccepted, CarefulMove
  <2>2. Local(e, Look) /\ Goto(e, "settle") /\ UNCHANGED exchangeVars
    BY <1>8 DEF BuyAccepted, Look
  <2>3. \E l \in ExecutorPcs, x \in ExecutorLocals : CarefulLocals(e, l, x)
    BY <1>0, <1>1, <1>2, <2>2, SeeIsCareful
  <2> QED BY <1>1, <2>1, <2>3 DEF CarefulStep
<1>9. CASE BuyRejected(e)
  <2>1. CarefulWrite(e) /\ CarefulMove(e)
    BY <1>0, <1>9, WriteIsCareful DEF BuyRejected, Finish, CarefulMove
  <2>2. NothingBought(on[e])
    <3>1. net["buy"][on[e]] = "reject" BY <1>9 DEF BuyRejected
    <3> QED BY <1>1, <3>1, SaleFacts, BookFacts DEF EntryIsAccepted, NothingBought
  <2>3. \E l \in ExecutorPcs, x \in ExecutorLocals : CarefulLocals(e, l, x)
    BY <1>0, <1>1, <1>9, <2>2, ReturnIsCareful DEF BuyRejected, Finish
  <2> QED BY <1>1, <2>1, <2>3 DEF CarefulStep
<1>10. CASE BuyUnknown(e)
  <2>1. CarefulWrite(e) /\ CarefulMove(e)
    BY <1>10 DEF BuyUnknown, NoWrite, CarefulWrite, CarefulMove, Kinds
  <2>2. \E l \in ExecutorPcs, x \in ExecutorLocals : CarefulLocals(e, l, x)
    BY <1>0, <1>1, <1>10, GotoIsCareful, ReturnIsCareful DEF BuyUnknown
  <2> QED BY <1>1, <2>1, <2>2 DEF CarefulStep
<1>11. CASE BuyRequery(e)
  <2>1. CarefulWrite(e) /\ CarefulMove(e)
    BY <1>11 DEF BuyRequery, NoWrite, CarefulWrite, CarefulMove
  <2>2. \E l \in ExecutorPcs, x \in ExecutorLocals : CarefulLocals(e, l, x)
    <3>1. CASE Local(e, Look) /\ Goto(e, "settle")
      BY <1>0, <1>1, <1>2, <1>11, <3>1, SeeIsCareful DEF BuyRequery
    <3>2. CASE Return(e, "RECONCILE")
      BY <1>0, <1>1, <3>2, ReturnIsCareful
    <3> QED BY <1>11, <3>1, <3>2 DEF BuyRequery, Look
  <2> QED BY <1>1, <2>1, <2>2 DEF CarefulStep
<1> QED BY <1>3, <1>4, <1>5, <1>6, <1>7, <1>8, <1>9, <1>10, <1>11

\* A final entry order: the sale of what it filled may begin, or nothing was bought.
LEMMA SettledIsCareful ==
    ASSUME SaleInv, NEW e \in Executors, pc[e] \notin {"idle", "done", "crashed"},
           buy[on[e]].status \in TerminalEntry,
           Settled(e, buy[on[e]]), UNCHANGED exchangeVars
    PROVE  /\ CarefulWrite(e)
           /\ \E l \in ExecutorPcs, x \in ExecutorLocals : CarefulLocals(e, l, x)
<1> DEFINE order == buy[on[e]]
           Look == [ex[e] EXCEPT !.seen = order]
<1>0. /\ {} \in SUBSET Flags /\ "NO_POSITION" \in Returns
      /\ {"FILLED", "PARTIALLY_FILLED", "FAILED_SAFE"} \subseteq TradeStates
      /\ "filled" \in ExecutorPcs \ {"done"}
  BY DEF TradeStates, Returns, ExecutorPcs
<1>1. CASE order.qty > 0
  <2>1. CarefulWrite(e) BY <1>0, <1>1, WriteIsCareful DEF Settled
  <2>2. Look \in ExecutorLocals /\ Look.seen = order
    BY OwnerKnows DEF ExecutorLocals
  <2>3. Goto(e, "filled") /\ Local(e, Look) BY <1>1 DEF Settled
  <2> HIDE DEF Look
  <2>4. \E l \in ExecutorPcs, x \in ExecutorLocals : CarefulLocals(e, l, x)
    BY <1>0, <2>2, <2>3, SeeIsCareful
  <2> QED BY <2>1, <2>4
<1>2. CASE ~(order.qty > 0)
  <2>1. Finish(e, "FAILED_SAFE", {}, "NO_POSITION") BY <1>2 DEF Settled
  <2>2. NothingBought(on[e])
    <3>1. order.qty \in 0..Lot BY OwnerKnows DEF Orders
    <3> QED BY <1>2, <3>1, OwnerKnows DEF NothingBought, Lot
  <2>3. CarefulWrite(e) BY <1>0, <2>1, WriteIsCareful DEF Finish
  <2>4. \E l \in ExecutorPcs, x \in ExecutorLocals : CarefulLocals(e, l, x)
    BY <1>0, <2>1, <2>2, ReturnIsCareful DEF Finish
  <2> QED BY <2>3, <2>4
<1> QED BY <1>1, <1>2

LEMMA SettleIsCareful ==
    ASSUME SaleInv, NEW e \in Executors,
           \/ SettleFinal(e) \/ SettlePoll(e) \/ SettleExhausted(e)
           \/ CancelRest(e) \/ FinalQuery(e) \/ Filled(e)
    PROVE  CarefulStep(e)
<1>0. /\ {} \in SUBSET Flags /\ Position \in SUBSET Flags
      /\ "emergencyClosed" \notin {} /\ "emergencyClosed" \notin Position
      /\ {"FILLED", "PARTIALLY_FILLED", "FAILED_SAFE"} \subseteq TradeStates
      /\ "RECONCILE" \in Returns
      /\ {"settle", "cancel", "finalQuery", "filled", "normalize"}
           \subseteq ExecutorPcs \ {"done"}
      /\ "settle" \notin Selling /\ "cancel" \notin Selling
      /\ {"finalQuery", "filled", "normalize"} \subseteq Selling
  BY DEF Flags, Position, TradeStates, Returns, ExecutorPcs, Selling
<1>1. pc[e] \notin {"idle", "done", "crashed"} /\ Ready(e) /\ on[e] \in Intents /\ UNCHANGED <<on, rc>>
  <2>1. pc[e] \notin {"idle", "done", "crashed"} /\ Ready(e) /\ UNCHANGED <<on, rc>>
    BY DEF SettleFinal, SettlePoll, SettleExhausted, CancelRest, FinalQuery, Filled,
           At, ExecutorFrame
  <2> QED BY <2>1, OwnerKnows
<1>2. \/ SettleFinal(e) \/ SettlePoll(e) \/ SettleExhausted(e) \/ FinalQuery(e) \/ Filled(e)
      => CarefulMove(e)
  BY DEF SettleFinal, SettlePoll, SettleExhausted, FinalQuery, Filled, CarefulMove
<1>3. CASE SettleFinal(e)
  <2>1. buy[on[e]] = ex[e].seen /\ buy[on[e]].status \in TerminalEntry
    BY <1>1, <1>3, OwnerKnows DEF SettleFinal
  <2>2. Settled(e, buy[on[e]]) /\ UNCHANGED exchangeVars BY <1>3, <2>1 DEF SettleFinal
  <2> QED BY <1>1, <1>2, <1>3, <2>1, <2>2, SettledIsCareful DEF CarefulStep
<1>4. CASE SettlePoll(e)
  <2> DEFINE order == IF ex[e].polls = 0 THEN ex[e].seen ELSE buy[on[e]]
             Look == [ex[e] EXCEPT !.seen = order, !.polls = @ + 1]
             next == IF order.status = "PARTIALLY_FILLED" /\ ex[e].polls >= 2
                     THEN "cancel" ELSE "settle"
  <2>1. order \in Orders /\ order \in {ex[e].seen, buy[on[e]]}
    BY <1>1, OwnerKnows
  <2>2. Look \in ExecutorLocals /\ Look.seen = order
    <3>1. ex[e].polls + 1 \in 0..SettleAttempts
      BY <1>4, SaleFacts, LocalsOf, LiveAssumption
         DEF TypeInv, LiveAssumption, SettlePoll
    <3>2. ex[e] \in ExecutorLocals BY <1>1, OwnerKnows
    <3> HIDE DEF order
    <3> QED BY <2>1, <3>1, <3>2, SeenIsLocal DEF ExecutorLocals
  <2>3. next = "cancel" => buy[on[e]].status # "ABSENT"
    BY <1>1, <2>1, OwnerKnows
  <2>4. next \in {"settle", "cancel"} OBVIOUS
  <2>5. CarefulWrite(e) BY <1>4 DEF SettlePoll, NoWrite, CarefulWrite
  <2>6. \/ Local(e, Look) /\ Goto(e, next)
        \/ Return(e, "RECONCILE")
    BY <1>4 DEF SettlePoll
  <2>7. UNCHANGED exchangeVars BY <1>4 DEF SettlePoll
  <2> HIDE DEF order, Look, next
  <2>8. \E l \in ExecutorPcs, x \in ExecutorLocals : CarefulLocals(e, l, x)
    <3>1. CASE Local(e, Look) /\ Goto(e, next)
      BY <1>0, <1>1, <2>1, <2>2, <2>3, <2>4, <2>7, <3>1, SeeIsCareful
    <3>2. CASE Return(e, "RECONCILE") BY <1>0, <1>1, <3>2, ReturnIsCareful
    <3> QED BY <2>6, <3>1, <3>2
  <2> QED BY <1>1, <1>2, <1>4, <2>5, <2>8 DEF CarefulStep
<1>5. CASE SettleExhausted(e)
  <2>1. CarefulWrite(e) BY <1>5 DEF SettleExhausted, NoWrite, CarefulWrite
  <2>2. ex[e].seen.status \in OpenEntry => buy[on[e]].status # "ABSENT"
    BY <1>1, OwnerKnows DEF OpenEntry
  <2>3. UNCHANGED buy BY <1>5 DEF SettleExhausted, exchangeVars
  <2>4. \E l \in ExecutorPcs, x \in ExecutorLocals : CarefulLocals(e, l, x)
    <3>1. CASE Return(e, "RECONCILE") BY <1>0, <1>1, <3>1, ReturnIsCareful
    <3>2. CASE ex[e].seen.status \in OpenEntry /\ Goto(e, "cancel") /\ UNCHANGED ex
      BY <1>0, <1>1, <2>2, <2>3, <3>2, GotoIsCareful
    <3> QED BY <1>5, <3>1, <3>2 DEF SettleExhausted
  <2> QED BY <1>1, <1>2, <1>5, <2>1, <2>4 DEF CarefulStep
<1>6. CASE CancelRest(e)
  <2>1. CarefulWrite(e) /\ CarefulMove(e)
    BY <1>6 DEF CancelRest, NoWrite, CarefulWrite, CarefulMove
  <2>2. \E l \in ExecutorPcs, x \in ExecutorLocals : CarefulLocals(e, l, x)
    <3>1. CASE CancelEntry(on[e]) /\ Goto(e, "finalQuery") /\ UNCHANGED ex
      <4>1. pc[e] = "cancel" BY <1>6 DEF CancelRest, At
      <4>2. buy[on[e]] \in Orders /\ buy[on[e]].status # "ABSENT"
        BY <1>1, <4>1, OwnerKnows
      <4>3. CASE buy[on[e]].status \in OpenEntry
        <5>1. buy' = [buy EXCEPT ![on[e]].status = "CANCELED"]
          BY <3>1, <4>3 DEF CancelEntry
        <5>2. buy'[on[e]].status = "CANCELED"
          BY <1>1, <4>2, <5>1, SaleFacts DEF ExchangeTypeOK, Orders
        <5> QED BY <1>0, <1>1, <3>1, <5>2, GotoIsCareful DEF TerminalEntry
      <4>4. CASE buy[on[e]].status \notin OpenEntry
        <5>1. buy' = buy BY <3>1, <4>4 DEF CancelEntry
        <5>2. buy[on[e]].status \in TerminalEntry BY <4>2, <4>4 DEF Orders
        <5> QED BY <1>0, <1>1, <3>1, <5>1, <5>2, GotoIsCareful
      <4> QED BY <4>3, <4>4
    <3>2. CASE Return(e, "RECONCILE") BY <1>0, <1>1, <3>2, ReturnIsCareful
    <3> QED BY <1>6, <3>1, <3>2 DEF CancelRest
  <2> QED BY <1>1, <2>1, <2>2 DEF CarefulStep
<1>7. CASE FinalQuery(e)
  <2>1. buy[on[e]].status \in TerminalEntry
    BY <1>0, <1>1, <1>7, OwnerKnows DEF FinalQuery, At
  <2>2. UNCHANGED exchangeVars BY <1>7 DEF FinalQuery
  <2>3. /\ CarefulWrite(e)
        /\ \E l \in ExecutorPcs, x \in ExecutorLocals : CarefulLocals(e, l, x)
    <3>1. CASE Settled(e, buy[on[e]]) BY <1>1, <2>1, <2>2, <3>1, SettledIsCareful
    <3>2. CASE Return(e, "RECONCILE") /\ NoWrite
      BY <1>0, <1>1, <3>2, ReturnIsCareful DEF NoWrite, CarefulWrite
    <3> QED BY <1>7, <3>1, <3>2 DEF FinalQuery
  <2> QED BY <1>1, <1>2, <1>7, <2>3 DEF CarefulStep
<1>8. CASE Filled(e)
  <2>1. buy[on[e]].status \in TerminalEntry /\ UNCHANGED buy
    BY <1>0, <1>1, <1>8, OwnerKnows DEF Filled, At, exchangeVars
  <2>2. CarefulWrite(e) BY <1>0, <1>8, <2>1, WriteIsCareful DEF Filled, Finish
  <2>3. \E l \in ExecutorPcs, x \in ExecutorLocals : CarefulLocals(e, l, x)
    <3>1. CASE Goto(e, "normalize") /\ UNCHANGED ex
      BY <1>0, <1>1, <2>1, <3>1, GotoIsCareful
    <3>2. CASE Return(e, "RECONCILE") BY <1>0, <1>1, <3>2, ReturnIsCareful
    <3> QED BY <1>8, <3>1, <3>2 DEF Filled, Finish
  <2> QED BY <1>1, <1>2, <1>8, <2>2, <2>3 DEF CarefulStep
<1> QED BY <1>3, <1>4, <1>5, <1>6, <1>7, <1>8

LEMMA OcoIsCareful ==
    ASSUME SaleInv, NEW e \in Executors,
           \/ Normalize(e) \/ OcoFound(e) \/ OcoQuery(e) \/ OcoSend(e)
           \/ OcoAccepted(e) \/ OcoNotAccepted(e) \/ OcoRequery(e)
    PROVE  CarefulStep(e)
<1>0. /\ {} \in SUBSET Flags /\ Position \in SUBSET Flags /\ {"protectionIds"} \in SUBSET Flags
      /\ "emergencyClosed" \notin {} /\ "emergencyClosed" \notin Position
      /\ "emergencyClosed" \notin {"protectionIds"}
      /\ {"PROTECTION_PENDING", "PROTECTED"} \subseteq TradeStates
      /\ {"RECONCILE", "OK"} \subseteq Returns
      /\ {"normalize", "ocoQuery", "ocoSend", "ocoWait", "ocoRequery", "emgQuery"}
           \subseteq (ExecutorPcs \ {"done"}) \cap Selling
      /\ "cancel" \notin Selling
  BY DEF Flags, Position, TradeStates, Returns, ExecutorPcs, Selling
<1>1. /\ pc[e] \in Selling /\ pc[e] \notin {"idle", "done", "crashed"}
      /\ Ready(e) /\ on[e] \in Intents /\ UNCHANGED <<on, rc>>
      /\ buy' = buy /\ buy[on[e]].status \in TerminalEntry
  <2>1. /\ pc[e] \in {"normalize", "ocoQuery", "ocoSend", "ocoWait", "ocoRequery"}
        /\ Ready(e) /\ UNCHANGED <<on, rc>> /\ buy' = buy
    BY DEF Normalize, OcoFound, OcoQuery, OcoSend, OcoAccepted, OcoNotAccepted, OcoRequery,
           At, ExecutorFrame, exchangeVars, Send, GiveUp
  <2> QED BY <1>0, <2>1, OwnerKnows
<1>2. \A answer \in {"reject", "unknown", "other"} :
        /\ [ex[e] EXCEPT !.sent = answer] \in ExecutorLocals
        /\ [ex[e] EXCEPT !.sent = answer].seen = ex[e].seen
  BY <1>1, OwnerKnows DEF ExecutorLocals
<1>3. ASSUME NEW l \in {"ocoQuery", "ocoSend", "ocoWait", "ocoRequery", "emgQuery"},
             Goto(e, l),
             \/ UNCHANGED ex
             \/ \E a \in {"reject", "unknown", "other"} : Local(e, [ex[e] EXCEPT !.sent = a])
      PROVE  \E m \in ExecutorPcs, x \in ExecutorLocals : CarefulLocals(e, m, x)
  <2>1. CASE UNCHANGED ex BY <1>0, <1>1, <1>3, <2>1, GotoIsCareful
  <2>2. CASE \E a \in {"reject", "unknown", "other"} : Local(e, [ex[e] EXCEPT !.sent = a])
    <3>1. PICK a \in {"reject", "unknown", "other"} : Local(e, [ex[e] EXCEPT !.sent = a])
      BY <2>2
    <3> DEFINE x == [ex[e] EXCEPT !.sent = a]
    <3>2. x \in ExecutorLocals /\ x.seen = ex[e].seen /\ ex' = [ex EXCEPT ![e] = x]
      BY <1>2, <3>1 DEF Local
    <3> HIDE DEF x
    <3>3. l \in ExecutorPcs /\ l # "done" /\ l # "cancel" BY <1>0
    <3>4. CarefulLocals(e, l, x) BY <1>1, <1>3, <3>2, <3>3 DEF CarefulLocals, Goto
    <3> QED BY <3>2, <3>3, <3>4
  <2> QED BY <1>3, <2>1, <2>2
<1>4. CASE Normalize(e)
  <2>1. CarefulWrite(e) /\ CarefulMove(e)
    BY <1>0, <1>1, <1>4, WriteIsCareful DEF Normalize, CarefulMove
  <2> QED BY <1>1, <1>3, <1>4, <2>1 DEF CarefulStep, Normalize
<1>5. CASE OcoFound(e)
  <2>1. CarefulWrite(e) /\ CarefulMove(e)
    BY <1>0, <1>5, WriteIsCareful DEF OcoFound, Finish, CarefulMove
  <2>2. \E l \in ExecutorPcs, x \in ExecutorLocals : CarefulLocals(e, l, x)
    BY <1>0, <1>1, <1>5, ReturnIsCareful DEF OcoFound, Finish, SaleExists
  <2> QED BY <1>1, <2>1, <2>2 DEF CarefulStep
<1>6. CASE OcoQuery(e)
  <2>1. CarefulWrite(e) /\ CarefulMove(e)
    BY <1>0, <1>6, WriteIsCareful DEF OcoQuery, Finish, NoWrite, CarefulWrite, CarefulMove
  <2>2. \E l \in ExecutorPcs, x \in ExecutorLocals : CarefulLocals(e, l, x)
    BY <1>0, <1>1, <1>3, <1>6, ReturnIsCareful DEF OcoQuery, Finish
  <2> QED BY <1>1, <2>1, <2>2 DEF CarefulStep
<1>7. CASE OcoSend(e)
  <2>1. CarefulWrite(e) /\ CarefulMove(e)
    BY <1>1, <1>7 DEF OcoSend, NoWrite, CarefulWrite, CarefulMove
  <2> QED BY <1>1, <1>3, <1>7, <2>1 DEF CarefulStep, OcoSend
<1>8. CASE OcoAccepted(e)
  <2>1. oco[on[e]] # "ABSENT" BY <1>1, <1>8, SaleFacts DEF OcoAccepted, AcceptedIsThere
  <2>2. CarefulWrite(e) /\ CarefulMove(e)
    BY <1>0, <1>8, <2>1, WriteIsCareful DEF OcoAccepted, Finish, CarefulMove
  <2>3. \E l \in ExecutorPcs, x \in ExecutorLocals : CarefulLocals(e, l, x)
    BY <1>0, <1>1, <1>8, <2>1, ReturnIsCareful DEF OcoAccepted, Finish, SaleExists
  <2> QED BY <1>1, <2>2, <2>3 DEF CarefulStep
<1>9. CASE OcoNotAccepted(e)
  <2>1. CarefulWrite(e) /\ CarefulMove(e)
    BY <1>9 DEF OcoNotAccepted, NoWrite, CarefulWrite, CarefulMove, Kinds
  <2> QED BY <1>1, <1>3, <1>9, <2>1 DEF CarefulStep, OcoNotAccepted
<1>10. CASE OcoRequery(e)
  <2>1. CarefulWrite(e) /\ CarefulMove(e)
    BY <1>0, <1>10, WriteIsCareful DEF OcoRequery, Finish, NoWrite, CarefulWrite, CarefulMove
  <2>2. \E l \in ExecutorPcs, x \in ExecutorLocals : CarefulLocals(e, l, x)
    BY <1>0, <1>1, <1>3, <1>10, ReturnIsCareful DEF OcoRequery, Finish
  <2> QED BY <1>1, <2>1, <2>2 DEF CarefulStep
<1> QED BY <1>4, <1>5, <1>6, <1>7, <1>8, <1>9, <1>10

\* The sale is recorded as closed only if it exists.
LEMMA EmergencyIsCareful ==
    ASSUME SaleInv, NEW e \in Executors,
           EmgQuery(e) \/ EmgSend(e) \/ EmgAccepted(e) \/ EmgNotAccepted(e) \/ EmgRequery(e)
    PROVE  CarefulStep(e)
<1>0. /\ Position \in SUBSET Flags /\ {"emergencyClosed"} \in SUBSET Flags
      /\ "emergencyClosed" \notin Position
      /\ "FAILED_SAFE" \in TradeStates
      /\ {"RECONCILE", "OK"} \subseteq Returns
      /\ {"emgQuery", "emgSend", "emgWait", "emgRequery"}
           \subseteq (ExecutorPcs \ {"done"}) \cap Selling
      /\ "cancel" \notin Selling
  BY DEF Flags, Position, TradeStates, Returns, ExecutorPcs, Selling
<1>1. /\ pc[e] \in Selling /\ pc[e] \notin {"idle", "done", "crashed"}
      /\ Ready(e) /\ on[e] \in Intents /\ UNCHANGED <<on, rc>>
      /\ buy' = buy /\ buy[on[e]].status \in TerminalEntry
  <2>1. /\ pc[e] \in {"emgQuery", "emgSend", "emgWait", "emgRequery"}
        /\ Ready(e) /\ UNCHANGED <<on, rc>> /\ buy' = buy
    BY DEF EmgQuery, EmgSend, EmgAccepted, EmgNotAccepted, EmgRequery, Closed, LeftOpen,
           At, ExecutorFrame, exchangeVars, Send, GiveUp
  <2> QED BY <1>0, <2>1, OwnerKnows
<1>2. ASSUME NEW l \in {"emgSend", "emgWait", "emgRequery"}, Goto(e, l), UNCHANGED ex
      PROVE  \E m \in ExecutorPcs, x \in ExecutorLocals : CarefulLocals(e, m, x)
  BY <1>0, <1>1, <1>2, GotoIsCareful
<1>3. ASSUME Closed(e), emg[on[e]] # "ABSENT", UNCHANGED exchangeVars
      PROVE  CarefulStep(e)
  <2>1. CarefulWrite(e) BY <1>0, <1>1, <1>3, WriteIsCareful DEF Closed, Finish
  <2>2. \E l \in ExecutorPcs, x \in ExecutorLocals : CarefulLocals(e, l, x)
    BY <1>0, <1>1, <1>3, ReturnIsCareful DEF Closed, Finish, SaleExists
  <2> QED BY <1>1, <1>3, <2>1, <2>2 DEF CarefulStep, CarefulMove
<1>4. ASSUME LeftOpen(e), UNCHANGED exchangeVars
      PROVE  CarefulStep(e)
  <2>1. CarefulWrite(e) BY <1>0, <1>1, <1>4, WriteIsCareful DEF LeftOpen, Finish
  <2>2. \E l \in ExecutorPcs, x \in ExecutorLocals : CarefulLocals(e, l, x)
    BY <1>0, <1>1, <1>4, ReturnIsCareful DEF LeftOpen, Finish
  <2> QED BY <1>1, <1>4, <2>1, <2>2 DEF CarefulStep, CarefulMove
<1>5. CASE EmgQuery(e)
  <2>1. \/ emg[on[e]] = "FILLED" /\ Closed(e)
        \/ LeftOpen(e)
        \/ Goto(e, "emgSend") /\ NoWrite /\ UNCHANGED ex
    BY <1>5 DEF EmgQuery
  <2>2. UNCHANGED exchangeVars BY <1>5 DEF EmgQuery
  <2>3. CASE Goto(e, "emgSend") /\ NoWrite /\ UNCHANGED ex
    BY <1>1, <1>2, <2>2, <2>3 DEF CarefulStep, CarefulWrite, CarefulMove, NoWrite
  <2> QED BY <1>3, <1>4, <2>1, <2>2, <2>3
<1>6. CASE EmgSend(e)
  <2>1. CarefulWrite(e) /\ CarefulMove(e)
    BY <1>1, <1>6 DEF EmgSend, NoWrite, CarefulWrite, CarefulMove
  <2> QED BY <1>1, <1>2, <1>6, <2>1 DEF CarefulStep, EmgSend
<1>7. CASE EmgAccepted(e)
  <2>1. emg[on[e]] # "ABSENT" BY <1>1, <1>7, SaleFacts DEF EmgAccepted, AcceptedIsThere
  <2> QED BY <1>3, <1>7, <2>1 DEF EmgAccepted
<1>8. CASE EmgNotAccepted(e)
  <2>1. CarefulWrite(e) /\ CarefulMove(e)
    BY <1>8 DEF EmgNotAccepted, NoWrite, CarefulWrite, CarefulMove, Kinds
  <2> QED BY <1>1, <1>2, <1>8, <2>1 DEF CarefulStep, EmgNotAccepted
<1>9. CASE EmgRequery(e)
  <2>1. \/ emg[on[e]] = "FILLED" /\ Closed(e)
        \/ LeftOpen(e)
    BY <1>9 DEF EmgRequery
  <2>2. UNCHANGED exchangeVars BY <1>9 DEF EmgRequery
  <2> QED BY <1>3, <1>4, <2>1, <2>2
<1> QED BY <1>5, <1>6, <1>7, <1>8, <1>9

LEMMA ExecutorIsCareful ==
    ASSUME SaleInv, NEW e \in Executors, ExecutorStep(e)
    PROVE  \/ \E i \in Intents : ClaimIntent(e, i) \/ DuplicateIntent(e, i)
           \/ CarefulStep(e)
BY BuyIsCareful, SettleIsCareful, OcoIsCareful, EmergencyIsCareful DEF ExecutorStep

-----------------------------------------------------------------------------
(* An executor's step keeps the invariant.                                 *)

LEMMA CarefulExchange ==
    ASSUME SaleInv, NEW e \in Executors, CarefulStep(e)
    PROVE  /\ ExchangeIsTrue'
           /\ \A i \in Intents : Remembers(i)
           /\ \A i \in Intents \ {on[e]} :
                net'["buy"][i] = "sent" => net["buy"][i] = "sent"
<1>0. /\ ExchangeTypeOK /\ on[e] \in Intents
      /\ \A i \in Intents : held[i] <= held[i]
  BY SaleFacts, BookFacts DEF CarefulStep, Lot
<1>1. CASE UNCHANGED exchangeVars
  <2>1. ExchangeIsTrue'
    BY <1>1, SaleFacts
       DEF exchangeVars, ExchangeIsTrue, EntryIsAccepted, AcceptedIsThere, SoldIsFlat, SalesFill,
           ListsAreBacked, SaleFollowsFinalEntry, Submitted
  <2> QED BY <1>0, <1>1, <2>1 DEF exchangeVars, Remembers
<1>2. CASE \E k \in Kinds : /\ Send(k, on[e])
                            /\ k = "buy" => pc[e] = "buySend"
                            /\ k # "buy" => pc[e] \in Selling
  <2>1. PICK k \in Kinds : /\ Send(k, on[e])
                           /\ k = "buy" => pc[e] = "buySend"
                           /\ k # "buy" => pc[e] \in Selling
    BY <1>2
  <2>2. /\ net' = [net EXCEPT ![k][on[e]] = "sent"]
        /\ posts' = IF k = "buy" THEN [posts EXCEPT ![on[e]] = @ + 1] ELSE posts
        /\ UNCHANGED <<buy, oco, emg, held>>
    BY <2>1 DEF Send
  <2>3. \A m \in Kinds, i \in Intents :
          net'[m][i] = IF m = k /\ i = on[e] THEN "sent" ELSE net[m][i]
    BY <1>0, <2>2 DEF ExchangeTypeOK
  <2>4. k = "buy" => posts[on[e]] = 0 /\ buy[on[e]] = NoOrder
    BY <1>0, <2>1, SaleFacts DEF OwnerSendsOnce, BeforeEntry, EntryIsAccepted
  <2>5. k # "buy" => buy[on[e]].status \in TerminalEntry
    BY <2>1, SaleFacts DEF SellerHasSettled
  <2>6. EntryIsAccepted'
    <3>1. ASSUME NEW i \in Intents, posts'[i] = 0 PROVE net'["buy"][i] = "none"
      <4>1. posts[i] = 0 /\ (k = "buy" => i # on[e])
        BY <1>0, <2>2, <2>4, <3>1 DEF ExchangeTypeOK
      <4> QED BY <2>3, <4>1, SaleFacts DEF EntryIsAccepted, Kinds
    <3>2. ASSUME NEW i \in Intents, net'["buy"][i] # "ok" PROVE buy'[i] = NoOrder
      BY <2>2, <2>3, <2>4, <3>2, SaleFacts DEF EntryIsAccepted, Kinds
    <3> QED BY <3>1, <3>2 DEF EntryIsAccepted
  <2>7. AcceptedIsThere' BY <2>2, <2>3, SaleFacts DEF AcceptedIsThere, Kinds
  <2>8. SoldIsFlat' /\ SalesFill' /\ ListsAreBacked'
    BY <2>2, SaleFacts DEF SoldIsFlat, SalesFill, ListsAreBacked
  <2>9. SaleFollowsFinalEntry'
    BY <2>2, <2>3, <2>5, SaleFacts DEF SaleFollowsFinalEntry, Submitted, Kinds
  <2> QED BY <1>0, <2>2, <2>3, <2>6, <2>7, <2>8, <2>9 DEF ExchangeIsTrue, Remembers, Kinds
<1>3. CASE \E k \in Kinds : GiveUp(k, on[e])
  <2>1. UNCHANGED <<buy, oco, emg, held, posts>> BY <1>3 DEF GiveUp
  <2>2. \A m \in Kinds, i \in Intents :
          net'[m][i] = net[m][i] \/ (net[m][i] = "sent" /\ net'[m][i] = "lost")
    BY <1>0, <1>3 DEF GiveUp, ExchangeTypeOK
  <2>3. EntryIsAccepted' BY <2>1, <2>2, SaleFacts DEF EntryIsAccepted, Kinds
  <2>4. AcceptedIsThere' BY <2>1, <2>2, SaleFacts DEF AcceptedIsThere, Kinds
  <2>5. SoldIsFlat' /\ SalesFill' /\ ListsAreBacked'
    BY <2>1, SaleFacts DEF SoldIsFlat, SalesFill, ListsAreBacked
  <2>6. SaleFollowsFinalEntry'
    BY <2>1, <2>2, SaleFacts DEF SaleFollowsFinalEntry, Submitted, Kinds
  <2> QED BY <1>0, <2>1, <2>2, <2>3, <2>4, <2>5, <2>6 DEF ExchangeIsTrue, Remembers, Kinds
<1>4. CASE CancelEntry(on[e])
  <2>1. UNCHANGED <<oco, emg, held, net, posts>> BY <1>4 DEF CancelEntry
  <2>2. \A i \in Intents :
          buy'[i] = buy[i] \/ (buy[i].status \in OpenEntry /\ buy'[i].status = "CANCELED")
    BY <1>0, <1>4 DEF CancelEntry, ExchangeTypeOK, Orders
  <2>3. \A i \in Intents : buy[i].status \in OpenEntry => net["buy"][i] = "ok"
    BY SaleFacts DEF EntryIsAccepted, NoOrder, OpenEntry
  <2>4. EntryIsAccepted' BY <2>1, <2>2, <2>3, SaleFacts DEF EntryIsAccepted
  <2>5. AcceptedIsThere' BY <2>1, SaleFacts DEF AcceptedIsThere
  <2>6. SoldIsFlat' /\ SalesFill' /\ ListsAreBacked'
    BY <2>1, <2>2, SaleFacts DEF SoldIsFlat, SalesFill, ListsAreBacked, TerminalEntry
  <2>7. SaleFollowsFinalEntry'
    BY <2>1, <2>2, SaleFacts DEF SaleFollowsFinalEntry, Submitted, TerminalEntry
  <2>8. \A i \in Intents : Remembers(i)
    BY <1>0, <2>1, <2>2 DEF Remembers, OpenEntry, TerminalEntry
  <2> QED BY <2>1, <2>4, <2>5, <2>6, <2>7, <2>8 DEF ExchangeIsTrue
<1> QED BY <1>1, <1>2, <1>3, <1>4 DEF CarefulStep, CarefulMove, Kinds

\* One executor's share of ExecutorIsTrue.
Knows(e) ==
    /\ on[e] = NoIntent => ex[e].seen.status = "ABSENT"
    /\ on[e] # NoIntent =>
         /\ ex[e].seen.status \in TerminalEntry => buy[on[e]] = ex[e].seen
         /\ ex[e].seen.status # "ABSENT" => buy[on[e]].status # "ABSENT"
    /\ pc[e] = "cancel" => buy[on[e]].status # "ABSENT"
    /\ pc[e] \in Selling => buy[on[e]].status \in TerminalEntry
    /\ pc[e] = "done" /\ ex[e].ret = "OK" => on[e] \in Intents /\ SaleExists(on[e])
    /\ pc[e] = "done" /\ ex[e].ret = "NO_POSITION" =>
         on[e] \in Intents /\ NothingBought(on[e])

LEMMA EachKnows ==
    /\ ExecutorIsTrue <=> \A e \in Executors : Knows(e)
    /\ ExecutorIsTrue' <=> \A e \in Executors : Knows(e)'
BY DEF ExecutorIsTrue, SeenIsReal, SellerHasSettled, AnswerIsTrue, Knows

\* What an executor knows stays true while others act: nobody else sends its entry.
LEMMA KnowledgeKeeps ==
    ASSUME SaleInv, ExchangeTypeOK', \A i \in Intents : Remembers(i),
           NEW e \in Executors, UNCHANGED <<pc[e], ex[e], on[e]>>,
           on[e] \in Intents =>
               (net'["buy"][on[e]] = "sent" => net["buy"][on[e]] = "sent")
    PROVE  Knows(e)'
<1>1. /\ Knows(e) /\ on[e] \in Intents \cup {NoIntent}
      /\ pc[e] \in Selling \cup {"cancel"} => on[e] \in Intents
  BY SaleFacts, EachKnows DEF SaleInv, WorksOnIntent, Selling
<1>2. ASSUME on[e] \in Intents
      PROVE  /\ SaleExists(on[e]) => SaleExists(on[e])'
             /\ NothingBought(on[e]) => NothingBought(on[e])'
  <2>1. Remembers(on[e]) BY <1>2
  <2>2. held'[on[e]] \in 0..Lot BY <1>2 DEF ExchangeTypeOK
  <2>3. UNCHANGED on[e] OBVIOUS
  <2>4. SaleExists(on[e]) => SaleExists(on[e])' BY <2>1, <2>3 DEF Remembers, SaleExists
  <2>5. NothingBought(on[e]) => NothingBought(on[e])'
    BY <1>2, <2>1, <2>2, <2>3 DEF Remembers, NothingBought, Lot
  <2> QED BY <2>4, <2>5
<1>3. CASE on[e] \in Intents
  <2>1. Remembers(on[e]) BY <1>3
  <2> QED BY <1>1, <1>2, <1>3, <2>1 DEF Knows, Remembers
<1>4. CASE on[e] \notin Intents BY <1>1, <1>4 DEF Knows
<1> QED BY <1>3, <1>4

LEMMA CarefulKnows ==
    ASSUME SaleInv, NEW e \in Executors, CarefulStep(e), ExchangeTypeOK'
    PROVE  ExecutorIsTrue'
<1>0. /\ on[e] \in Intents /\ on' = on /\ \A i \in Intents : Remembers(i)
      /\ on[e] # NoIntent /\ NoIntent \notin Intents
  BY CarefulExchange, SaleFacts DEF CarefulStep
<1>1. PICK l \in ExecutorPcs, x \in ExecutorLocals : CarefulLocals(e, l, x)
  BY DEF CarefulStep
<1>2. pc' = [pc EXCEPT ![e] = l] /\ ex' = [ex EXCEPT ![e] = x] BY <1>1 DEF CarefulLocals
<1>3. ASSUME NEW f \in Executors \ {e} PROVE Knows(f)'
  <2>1. UNCHANGED <<pc[f], ex[f], on[f]>> BY <1>0, <1>2, SaleFacts
  <2>2. on[f] \in Intents => on[f] # on[e] BY <1>0, SaleFacts DEF OwnersDiffer
  <2> QED BY <2>1, <2>2, CarefulExchange, KnowledgeKeeps
<1>4. Knows(e)'
  <2>1. pc'[e] = l /\ ex'[e] = x /\ on'[e] = on[e] BY <1>0, <1>2, SaleFacts
  <2>2. Remembers(on[e]) BY <1>0
  <2>3. /\ x.seen.status \in TerminalEntry => buy'[on[e]] = x.seen
        /\ x.seen.status # "ABSENT" => buy'[on[e]].status # "ABSENT"
    <3>1. CASE x.seen = ex[e].seen
      BY <1>0, <2>2, <3>1, SaleFacts DEF SeenIsReal, Remembers
    <3>2. CASE x.seen # ex[e].seen BY <1>1, <3>2 DEF CarefulLocals
    <3> QED BY <3>1, <3>2
  <2>4. /\ l = "cancel" => buy'[on[e]].status # "ABSENT"
        /\ l \in Selling => buy'[on[e]].status \in TerminalEntry
    BY <1>1 DEF CarefulLocals
  <2>5. l = "done" /\ x.ret = "OK" => SaleExists(on[e])'
    BY <1>1, <2>1 DEF CarefulLocals, SaleExists, exchangeVars
  <2>6. l = "done" /\ x.ret = "NO_POSITION" => NothingBought(on[e])'
    BY <1>1, <2>1 DEF CarefulLocals, NothingBought, exchangeVars
  <2> QED BY <1>0, <2>1, <2>3, <2>4, <2>5, <2>6 DEF Knows
<1> QED BY <1>3, <1>4, EachKnows

\* What is gone stays gone.
LEMMA FlatKeeps ==
    ASSUME ExchangeTypeOK', NEW i \in Intents, Remembers(i), Flat(i)
    PROVE  held'[i] = 0 /\ buy'[i].status \in TerminalEntry
<1>1. held'[i] \in 0..Lot BY DEF ExchangeTypeOK
<1> QED BY <1>1 DEF Remembers, Flat, Lot

\* So does what a reconciler that does not move knows.
LEMMA RunKeeps ==
    ASSUME SaleInv, ExchangeTypeOK', \A i \in Intents : Remembers(i),
           NEW r \in Reconcilers, UNCHANGED <<pc[r], rc[r], on[r]>>
    PROVE  RunKnows(r)'
<1>1. RunKnows(r) /\ (pc[r] \in Booked \cup {"reads"} => on[r] \in Intents)
  BY SaleFacts DEF RunsAreTrue, WorksOnIntent, Booked
<1>2. CASE on[r] \in Intents
  <2>1. Flat(on[r]) => Flat(on[r])' BY <1>2, FlatKeeps DEF Flat
  <2>2. Remembers(on[r]) BY <1>2
  <2> QED BY <1>1, <2>1, <2>2 DEF RunKnows, Matched, Remembers
<1>3. CASE on[r] \notin Intents BY <1>1, <1>3 DEF RunKnows
<1> QED BY <1>2, <1>3

\* A row or a write that was true stays true.
LEMMA TruthKeeps ==
    ASSUME ExchangeTypeOK', NEW i \in Intents, Remembers(i), NEW row, Truthful(row, i)
    PROVE  /\ row.state = "PROTECTED" => oco'[i] # "ABSENT"
           /\ "emergencyClosed" \in row.flags => emg'[i] # "ABSENT"
           /\ row.flags # {} => buy'[i].status \in TerminalEntry
           /\ row.state = "EXITED" => held'[i] = 0 /\ buy'[i].status \in TerminalEntry
BY FlatKeeps DEF Remembers, Truthful, Flat

\* Rows unchanged, at most one write begun, by p, and that one is true.
LEMMA BegunIsTrue ==
    ASSUME SaleInv, ExchangeTypeOK', \A i \in Intents : Remembers(i), UNCHANGED trade,
           NEW p \in Procs,
           \/ w' = w
           \/ w' = [w EXCEPT ![p] = NoCall]
           \/ \E i \in Intents, s \in TradeStates, f \in SUBSET Flags, x \in Exits :
                /\ BeginWrite(p, i, s, f, x)
                /\ s = "PROTECTED" => oco'[i] # "ABSENT"
                /\ "emergencyClosed" \in f => emg'[i] # "ABSENT"
                /\ f # {} => buy'[i].status \in TerminalEntry
                /\ s = "EXITED" => held'[i] = 0 /\ buy'[i].status \in TerminalEntry
    PROVE  StoreIsTrue'
<1>1. RowsAreTrue'
  BY SaleFacts, TruthKeeps DEF RowsAreTrue, Truthful, Flat
<1>2. ASSUME NEW q \in Procs, w'[q] = w[q], ~Ready(q)'
      PROVE  Truthful(w[q].row, w[q].intent)'
  <2>1. ~Ready(q) /\ w[q] \in Calls BY <1>2, SaleFacts DEF Ready, NoCall
  <2>2. w[q].intent \in Intents /\ Truthful(w[q].row, w[q].intent)
    BY <2>1, SaleFacts DEF WritesAreTrue, Calls
  <2> QED BY <1>2, <2>2, TruthKeeps DEF Truthful, Flat
<1>3. WritesAreTrue'
  <2>1. CASE w' = w BY <1>2, <2>1 DEF WritesAreTrue
  <2>2. CASE w' = [w EXCEPT ![p] = NoCall]
    BY <1>2, <2>2, SaleFacts DEF WritesAreTrue, Ready, NoCall
  <2>3. CASE \E i \in Intents, s \in TradeStates, f \in SUBSET Flags, x \in Exits :
               /\ BeginWrite(p, i, s, f, x)
               /\ s = "PROTECTED" => oco'[i] # "ABSENT"
               /\ "emergencyClosed" \in f => emg'[i] # "ABSENT"
               /\ f # {} => buy'[i].status \in TerminalEntry
               /\ s = "EXITED" => held'[i] = 0 /\ buy'[i].status \in TerminalEntry
    BY <1>2, <2>3, SaleFacts DEF WritesAreTrue, BeginWrite, Truthful, Flat
  <2> QED BY <2>1, <2>2, <2>3
<1> QED BY <1>1, <1>3 DEF StoreIsTrue

LEMMA CarefulStepSale ==
    ASSUME SaleInv, NEW e \in Executors, CarefulStep(e), EntryInv'
    PROVE  SaleInv'
<1>1. ExchangeTypeOK' BY DEF EntryInv, TypeInv, TypeOK
<1>2. ExchangeIsTrue' /\ \A i \in Intents : Remembers(i) BY CarefulExchange
<1>3. ExecutorIsTrue' BY <1>1, CarefulKnows
<1>4. e \in Procs /\ on[e] \in Intents BY SaleFacts DEF CarefulStep
<1>7. RunsAreTrue'
  <2>1. ASSUME NEW r \in Reconcilers PROVE UNCHANGED <<pc[r], rc[r], on[r]>>
    BY SaleFacts DEF CarefulStep, CarefulLocals
  <2> QED BY <1>1, <1>2, <2>1, RunKeeps DEF RunsAreTrue
<1>5. CASE UNCHANGED storeVars
  <2>1. w' = w /\ trade' = trade BY <1>5 DEF storeVars
  <2>2. StoreIsTrue' BY <1>1, <1>2, <1>4, <2>1, BegunIsTrue
  <2> QED BY <1>2, <1>3, <1>7, <2>2 DEF SaleInv
<1>6. CASE /\ \E s \in TradeStates, f \in SUBSET Flags :
                /\ BeginWrite(e, on[e], s, f, "none")
                /\ s = "PROTECTED" => oco[on[e]] # "ABSENT"
                /\ "emergencyClosed" \in f => emg[on[e]] # "ABSENT"
                /\ f # {} => buy[on[e]].status \in TerminalEntry
                /\ s # "EXITED"
           /\ UNCHANGED <<trade, index>>
  <2>1. Remembers(on[e]) /\ "none" \in Exits BY <1>2, <1>4 DEF Exits
  <2>2. \E i \in Intents, s \in TradeStates, f \in SUBSET Flags, x \in Exits :
          /\ BeginWrite(e, i, s, f, x)
          /\ s = "PROTECTED" => oco'[i] # "ABSENT"
          /\ "emergencyClosed" \in f => emg'[i] # "ABSENT"
          /\ f # {} => buy'[i].status \in TerminalEntry
          /\ s = "EXITED" => held'[i] = 0 /\ buy'[i].status \in TerminalEntry
    BY <1>4, <1>6, <2>1 DEF Remembers
  <2>3. StoreIsTrue' BY <1>1, <1>2, <1>4, <1>6, <2>2, BegunIsTrue
  <2> QED BY <1>2, <1>3, <1>7, <2>3 DEF SaleInv
<1> QED BY <1>5, <1>6 DEF CarefulStep, CarefulWrite

-----------------------------------------------------------------------------
(* The other steps.                                                        *)

\* Steps that leave the exchange alone.
LEMMA QuietExchange ==
    ASSUME SaleInv, UNCHANGED exchangeVars
    PROVE  ExchangeIsTrue' /\ \A i \in Intents : Remembers(i)
<1>1. \A i \in Intents : held[i] <= held[i] BY SaleFacts, BookFacts DEF Lot
<1> QED BY <1>1, SaleFacts
    DEF exchangeVars, ExchangeIsTrue, EntryIsAccepted, AcceptedIsThere, SoldIsFlat, SalesFill,
        ListsAreBacked, SaleFollowsFinalEntry, Submitted, Remembers

\* A claim gives the executor an intent it has seen nothing of.
LEMMA ClaimSale ==
    ASSUME SaleInv, NEW e \in Executors, NEW i \in Intents,
           ClaimIntent(e, i) \/ DuplicateIntent(e, i), EntryInv'
    PROVE  SaleInv'
<1>1. UNCHANGED exchangeVars /\ pc[e] = "idle" /\ e \in Procs
  BY SaleFacts DEF ClaimIntent, DuplicateIntent, At
<1>2. ExchangeIsTrue' /\ \A j \in Intents : Remembers(j) BY <1>1, QuietExchange
<1>3. ExchangeTypeOK' BY DEF EntryInv, TypeInv, TypeOK
<1>7. RunsAreTrue'
  <2>1. ASSUME NEW r \in Reconcilers PROVE UNCHANGED <<pc[r], rc[r], on[r]>>
    BY SaleFacts DEF ClaimIntent, DuplicateIntent, Goto, Return, ExecutorFrame
  <2> QED BY <1>2, <1>3, <2>1, RunKeeps DEF RunsAreTrue
<1>4. on[e] = NoIntent /\ ex[e].seen.status = "ABSENT"
  BY <1>1, SaleFacts DEF IdleOwnsNothing, SeenIsReal
<1>5. CASE ClaimIntent(e, i)
  <2>1. /\ trade' = [trade EXCEPT ![i] = [NoRow EXCEPT !.state = "SIGNAL_CREATED"]]
        /\ on' = [on EXCEPT ![e] = i]
        /\ pc' = [pc EXCEPT ![e] = "reconcile"]
        /\ ex' = ex
        /\ BeginWrite(e, i, "APPROVED", {}, "none")
    BY <1>5 DEF ClaimIntent, ClaimRow, Goto
  <2>2. ASSUME NEW f \in Executors \ {e} PROVE Knows(f)'
    <3>1. UNCHANGED <<pc[f], ex[f], on[f]>> BY <2>1, SaleFacts
    <3> QED BY <1>1, <1>2, <1>3, <3>1, KnowledgeKeeps DEF exchangeVars
  <2>3. Knows(e)' BY <1>4, <2>1, SaleFacts DEF Knows, Selling, TerminalEntry
  <2>4. RowsAreTrue'
    <3>1. \A j \in Intents : Truthful(trade'[j], j)
      BY <2>1, SaleFacts DEF RowsAreTrue, Truthful, NoRow
    <3> QED BY <1>1, <3>1 DEF RowsAreTrue, Truthful, Flat, exchangeVars
  <2>5. WritesAreTrue'
    <3>1. \A q \in Procs : ~Ready(q)' => Truthful(w'[q].row, w'[q].intent)
      BY <2>1, SaleFacts DEF BeginWrite, WritesAreTrue, Ready, Truthful
    <3> QED BY <1>1, <3>1 DEF WritesAreTrue, Truthful, Flat, exchangeVars
  <2> QED BY <1>2, <1>7, <2>2, <2>3, <2>4, <2>5, EachKnows DEF SaleInv, StoreIsTrue
<1>6. CASE DuplicateIntent(e, i)
  <2>1. /\ UNCHANGED <<trade, w, on>> /\ pc' = [pc EXCEPT ![e] = "done"]
        /\ \E ret \in {"RECONCILE", "DUPLICATE"} : ex' = [ex EXCEPT ![e].ret = ret]
    BY <1>6 DEF DuplicateIntent, NoWrite, storeVars, ExecutorFrame, Return, Goto
  <2>2. ASSUME NEW f \in Executors \ {e} PROVE Knows(f)'
    <3>1. UNCHANGED <<pc[f], ex[f], on[f]>> BY <2>1, SaleFacts
    <3> QED BY <1>1, <1>2, <1>3, <3>1, KnowledgeKeeps DEF exchangeVars
  <2>3. /\ ex'[e].seen = ex[e].seen /\ ex'[e].ret \in {"RECONCILE", "DUPLICATE"}
        /\ pc'[e] = "done" /\ on'[e] = NoIntent
    BY <1>1, <1>4, <2>1, SaleFacts DEF ExecutorLocals
  <2>4. Knows(e)' BY <1>4, <2>3 DEF Knows, Selling
  <2>5. StoreIsTrue' BY <1>1, <1>2, <1>3, <2>1, BegunIsTrue
  <2> QED BY <1>2, <1>7, <2>2, <2>4, <2>5, EachKnows DEF SaleInv
<1> QED BY <1>5, <1>6

\* A run of the reconciler touches no other run.
LEMMA OtherRuns ==
    ASSUME SaleInv, NEW r \in Reconcilers, ReconcilerStep(r), NEW q \in Reconcilers \ {r}
    PROVE  UNCHANGED <<pc[q], rc[q], on[q]>>
<1>1. RunStep(r) BY SaleFacts, ReconcilerStepIs
<1>2. pc'[q] = pc[q] /\ on'[q] = on[q] BY <1>1, SaleFacts DEF RunStep
<1>3. rc'[q] = rc[q]
  BY SaleFacts, RunLocals
     DEF ReconcilerStep, StartRun, NextIntent, ReadRow, ReadExchange, ReadOne, ReadFails,
         Decide, ReadTrades, ClaimFinalize, ClaimPnl, DailyGet, DailyPut
<1> QED BY <1>2, <1>3

\* Four reads at four moments: what a run knows after each step, and what it may
\* write because of it.
LEMMA RunMoves ==
    ASSUME SaleInv, NEW r \in Reconcilers, ReconcilerStep(r)
    PROVE  /\ RunKnows(r)'
           /\ \/ w' = w
              \/ /\ on[r] \in Intents
                 /\ \E s \in {"EXITED", "FAILED_SAFE"}, f \in {{}, Position}, x \in Exits :
                      /\ BeginWrite(r, on[r], s, f, x)
                      /\ f # {} => buy[on[r]].status \in TerminalEntry
                      /\ s = "EXITED" => Flat(on[r])
<1>0. /\ r \in Procs
      /\ rc \in [Reconcilers -> ReconcilerLocals]
      /\ pc[r] \notin {"idle", "next"} => on[r] \in Intents
      /\ RunKnows(r) /\ rc[r].pnl \in Exits
  BY SaleFacts, RunLocals DEF WorksOnIntent, RunsAreTrue, ReconcilerLocals
<1>1. UNCHANGED exchangeVars
  <2>1. RunStep(r) BY SaleFacts, ReconcilerStepIs
  <2> QED BY <2>1 DEF RunStep
<1> USE DEF At, Goto
<1>2. CASE StartRun(r) \/ NextIntent(r) \/ ReadFails(r)
  <2>1. pc'[r] \in {"idle", "next", "row"} /\ w' = w
    BY <1>0, <1>2, SaleFacts DEF StartRun, NextIntent, ReadFails, NoWrite, storeVars
  <2> QED BY <2>1 DEF RunKnows, Booked
<1>3. CASE ReadRow(r)
  <2>1. w' = w /\ on' = on BY <1>3 DEF ReadRow, NoWrite, storeVars
  <2>2. CASE trade[on[r]].state \in Reconcilable
    <3> DEFINE row == trade[on[r]]
               snap == IF "protectionIds" \in row.flags THEN Unread ELSE UnreadNoIds
    <3>1. pc'[r] = "reads" /\ rc' = [rc EXCEPT ![r].row = row, ![r].snap = snap]
      BY <1>0, <1>3, <2>2, SaleFacts DEF ReadRow
    <3>2. rc'[r].row = row /\ rc'[r].snap = snap
      BY <1>0, <3>1 DEF ReconcilerLocals
    <3>3. on[r] \in Intents BY <1>0, <1>3 DEF ReadRow
    <3>4. Truthful(row, on[r]) BY <3>3, SaleFacts DEF RowsAreTrue
    <3>5. /\ snap.base = "unread" /\ ~Matched(snap)
          /\ snap.list \in {"unread", "ALL_DONE"} => row.flags # {}
      BY DEF Unread, UnreadNoIds, Matched
    <3>6. buy' = buy /\ held' = held BY <1>1 DEF exchangeVars
    <3> HIDE DEF row, snap
    <3> QED BY <2>1, <3>1, <3>2, <3>4, <3>5, <3>6
        DEF RunKnows, Truthful, Matched, Booked
  <2>3. CASE trade[on[r]].state \notin Reconcilable
    BY <1>0, <1>3, <2>1, <2>3, SaleFacts DEF ReadRow, RunKnows, Booked
  <2> QED BY <2>1, <2>2, <2>3
<1>4. CASE ReadExchange(r)
  <2> DEFINE snap == rc[r].snap
  <2>1. /\ w' = w /\ on' = on /\ pc' = pc /\ pc[r] = "reads" /\ on[r] \in Intents
        /\ buy' = buy /\ held' = held
    BY <1>0, <1>1, <1>4 DEF ReadExchange, ReadOne, NoWrite, storeVars, exchangeVars
  <2>2. snap \in Snapshots BY <1>0 DEF ReconcilerLocals
  <2>3. /\ oco[on[r]] # "ABSENT" => buy[on[r]].status \in TerminalEntry
        /\ oco[on[r]] \in {"TP", "SL"} => held[on[r]] = 0
    BY <2>1, SaleFacts DEF ListsAreBacked
  <2>4. PICK new : rc' = [rc EXCEPT ![r].snap = new] /\
          \/ new = [snap EXCEPT !.list = ListStatus(on[r])] /\ snap.list = "unread"
          \/ new = [snap EXCEPT !.tp = LegStatus(on[r], "TP")] /\ snap.tp = "unread"
          \/ new = [snap EXCEPT !.sl = LegStatus(on[r], "SL")] /\ snap.sl = "unread"
          \/ new = [snap EXCEPT !.base = BaseBalance(on[r])] /\ snap.base = "unread"
    BY <1>4 DEF ReadExchange, ReadOne
  <2>5. rc'[r].snap = new /\ rc'[r].row = rc[r].row
    BY <1>0, <2>4 DEF ReconcilerLocals
  <2>6. new.base = "dust" => snap.base = "dust" \/ held[on[r]] = 0
    BY <2>2, <2>4 DEF Snapshots, BaseBalance
  <2>7. Matched(new) => Matched(snap) \/ oco[on[r]] \in {"TP", "SL"}
    <3>1. \A leg \in {"TP", "SL"} : LegStatus(on[r], leg) = "FILLED" => oco[on[r]] = leg
      BY DEF LegStatus
    <3> QED BY <2>2, <2>4, <3>1 DEF Snapshots, Matched
  <2>8. new.list \in {"unread", "ALL_DONE"} => rc[r].row.flags # {}
    BY <1>0, <2>1, <2>2, <2>4 DEF Snapshots, RunKnows
  <2> QED BY <1>0, <2>1, <2>3, <2>5, <2>6, <2>7, <2>8 DEF RunKnows, Booked, Flat
<1>5. CASE Decide(r)
  <2>1. on[r] \in Intents /\ pc[r] = "reads" /\ UNCHANGED <<on, rc>>
    BY <1>0, <1>5 DEF Decide
  <2>2. /\ rc[r].row.flags # {} => buy[on[r]].status \in TerminalEntry
        /\ rc[r].row.flags # {} /\ PositionGone(rc[r].snap) => Flat(on[r])
        /\ ProtectionGone(rc[r].snap) => rc[r].row.flags # {}
        /\ Matched(rc[r].snap) => Flat(on[r])
    BY <1>0, <2>1 DEF RunKnows, PositionGone, ProtectionGone
  <2>3. /\ pc'[r] \in {"next", "trades"}
        /\ pc'[r] = "trades" => Matched(rc[r].snap)
    BY <1>0, <1>5, SaleFacts DEF Decide
  <2>4. \/ w' = w
        \/ BeginWrite(r, on[r], "EXITED", {}, "external") /\ Flat(on[r])
        \/ /\ BeginWrite(r, on[r], "FAILED_SAFE", Position, "none")
           /\ buy[on[r]].status \in TerminalEntry
    BY <1>5, <2>2 DEF Decide
  <2>5. RunKnows(r)'
    BY <1>1, <2>1, <2>2, <2>3 DEF RunKnows, Booked, Flat, exchangeVars
  <2>6. "external" \in Exits /\ "none" \in Exits BY DEF Exits
  <2> QED BY <2>1, <2>4, <2>5, <2>6
<1>6. CASE ReadTrades(r) \/ ClaimFinalize(r) \/ ClaimPnl(r) \/ DailyGet(r) \/ DailyPut(r)
  <2>1. on[r] \in Intents /\ Flat(on[r]) /\ on' = on
    BY <1>0, <1>6
       DEF RunKnows, Booked, ReadTrades, ClaimFinalize, ClaimPnl, DailyGet, DailyPut
  <2>2. pc'[r] # "reads"
    BY <1>0, <1>6, SaleFacts
       DEF ReadTrades, ClaimFinalize, ClaimPnl, DailyGet, DailyPut, WriteExit
  <2>3. RunKnows(r)' BY <1>1, <2>1, <2>2 DEF RunKnows, Flat, exchangeVars
  <2>4. w' = w \/ BeginWrite(r, on[r], "EXITED", {}, rc[r].pnl)
    BY <1>6
       DEF ReadTrades, ClaimFinalize, ClaimPnl, DailyGet, DailyPut, WriteExit, NoWrite, storeVars
  <2> QED BY <1>0, <2>1, <2>3, <2>4
<1> QED BY <1>2, <1>3, <1>4, <1>5, <1>6 DEF ReconcilerStep

\* The reconciler writes EXITED of what is gone, or FAILED_SAFE.
LEMMA ReconcilerSale ==
    ASSUME SaleInv, NEW r \in Reconcilers, ReconcilerStep(r), EntryInv'
    PROVE  SaleInv'
<1>0. r \in Procs /\ r \notin Executors BY SaleFacts
<1>1. RunStep(r) BY SaleFacts, ReconcilerStepIs
<1>2. UNCHANGED exchangeVars /\ UNCHANGED ex /\ trade' = trade
  BY <1>1 DEF RunStep, storeVars
<1>3. ExchangeIsTrue' /\ \A i \in Intents : Remembers(i) BY <1>2, QuietExchange
<1>4. \A e \in Executors : pc'[e] = pc[e] /\ on'[e] = on[e]
  BY <1>0, <1>1, SaleFacts DEF RunStep
<1>5. ExchangeTypeOK' BY DEF EntryInv, TypeInv, TypeOK
<1>6. ExecutorIsTrue'
  <2>1. ASSUME NEW e \in Executors PROVE Knows(e)'
    BY <1>2, <1>3, <1>4, <1>5, KnowledgeKeeps DEF exchangeVars
  <2> QED BY <2>1, EachKnows
<1>7. /\ RunKnows(r)'
      /\ \/ w' = w
         \/ /\ on[r] \in Intents
            /\ \E s \in {"EXITED", "FAILED_SAFE"}, f \in {{}, Position}, x \in Exits :
                 /\ BeginWrite(r, on[r], s, f, x)
                 /\ f # {} => buy[on[r]].status \in TerminalEntry
                 /\ s = "EXITED" => Flat(on[r])
  BY RunMoves
<1>8. StoreIsTrue'
  <2>1. CASE w' = w BY <1>0, <1>2, <1>3, <1>5, <2>1, BegunIsTrue
  <2>2. CASE /\ on[r] \in Intents
             /\ \E s \in {"EXITED", "FAILED_SAFE"}, f \in {{}, Position}, x \in Exits :
                  /\ BeginWrite(r, on[r], s, f, x)
                  /\ f # {} => buy[on[r]].status \in TerminalEntry
                  /\ s = "EXITED" => Flat(on[r])
    <3>1. \A s \in {"EXITED", "FAILED_SAFE"} : s \in TradeStates /\ s # "PROTECTED"
      BY DEF TradeStates
    <3>2. \A f \in {{}, Position} : f \in SUBSET Flags /\ "emergencyClosed" \notin f
      BY DEF Position, Flags
    <3>3. \E i \in Intents, s \in TradeStates, f \in SUBSET Flags, x \in Exits :
            /\ BeginWrite(r, i, s, f, x)
            /\ s = "PROTECTED" => oco'[i] # "ABSENT"
            /\ "emergencyClosed" \in f => emg'[i] # "ABSENT"
            /\ f # {} => buy'[i].status \in TerminalEntry
            /\ s = "EXITED" => held'[i] = 0 /\ buy'[i].status \in TerminalEntry
      BY <1>2, <2>2, <3>1, <3>2 DEF exchangeVars, Flat
    <3> QED BY <1>0, <1>2, <1>3, <1>5, <3>3, BegunIsTrue
  <2> QED BY <1>7, <2>1, <2>2
<1>9. RunsAreTrue'
  <2>1. ASSUME NEW q \in Reconcilers \ {r} PROVE UNCHANGED <<pc[q], rc[q], on[q]>>
    BY <1>1, OtherRuns
  <2> QED BY <1>3, <1>5, <1>7, <2>1, RunKeeps DEF RunsAreTrue
<1> QED BY <1>3, <1>6, <1>8, <1>9 DEF SaleInv

\* A row is merged with what was there, true both.
LEMMA WriteStepSale ==
    ASSUME SaleInv, NEW p \in Procs, WriteStep(p), EntryInv'
    PROVE  SaleInv'
<1>1. /\ ~Ready(p) /\ w[p] \in Calls /\ w[p].intent \in Intents /\ w[p].row \in Rows
      /\ Truthful(w[p].row, w[p].intent)
  <2>1. ~Ready(p)
    BY DEF WriteStep, StoreStep, WriteGet, WritePut, IndexGet, IndexPut, Ready
  <2>2. w[p] \in Calls BY <2>1, SaleFacts DEF Ready, NoCall
  <2> QED BY <2>1, <2>2, SaleFacts DEF WritesAreTrue, Calls
<1>2. UNCHANGED exchangeVars /\ UNCHANGED <<pc, on, ex, rc>> BY DEF WriteStep, locals
<1>3. ExchangeIsTrue' /\ \A i \in Intents : Remembers(i) BY <1>2, QuietExchange
<1>4. ExecutorIsTrue'
  BY <1>2, SaleFacts
     DEF exchangeVars, ExecutorIsTrue, SeenIsReal, SellerHasSettled, AnswerIsTrue,
         SaleExists, NothingBought
<1>5. RowsAreTrue'
  <2>1. \/ trade' = trade
        \/ trade' = [trade EXCEPT ![w[p].intent] = w[p].row]
    BY DEF WriteStep, StoreStep, WriteGet, WritePut, IndexGet, IndexPut
  <2>2. \A i \in Intents : Truthful(trade'[i], i)
    BY <1>1, <2>1, SaleFacts DEF RowsAreTrue
  <2> QED BY <1>2, <2>2 DEF RowsAreTrue, Truthful, Flat, exchangeVars
<1>6. /\ \A q \in Procs \ {p} : w'[q] = w[q]
      /\ Ready(p)' \/ (w'[p].intent = w[p].intent /\ Truthful(w'[p].row, w[p].intent))
  <2>1. CASE WriteGet(p)
    <3>1. Truthful(Merge(trade[w[p].intent], w[p].row), w[p].intent)
      BY <1>1, SaleFacts DEF RowsAreTrue, Truthful, Merge
    <3> QED BY <1>1, <2>1, <3>1, SaleFacts DEF WriteGet, Calls
  <2>2. CASE WritePut(p) BY <1>1, <2>2, SaleFacts DEF WritePut, Calls
  <2>3. CASE IndexGet(p) BY <1>1, <2>3, SaleFacts DEF IndexGet, Calls
  <2>4. CASE IndexPut(p) BY <1>1, <2>4, SaleFacts DEF IndexPut, Ready, NoCall
  <2> QED BY <2>1, <2>2, <2>3, <2>4 DEF WriteStep, StoreStep
<1>7. WritesAreTrue'
  <2>1. ASSUME NEW q \in Procs, ~Ready(q)' PROVE Truthful(w'[q].row, w'[q].intent)
    <3>1. CASE q = p BY <1>6, <2>1, <3>1
    <3>2. CASE q # p BY <1>6, <2>1, <3>2, SaleFacts DEF WritesAreTrue, Ready
    <3> QED BY <3>1, <3>2
  <2> QED BY <1>2, <2>1 DEF WritesAreTrue, Truthful, Flat, exchangeVars
<1>8. RunsAreTrue'
  BY <1>2, SaleFacts DEF exchangeVars, RunsAreTrue, RunKnows, Matched, Flat
<1> QED BY <1>3, <1>4, <1>5, <1>7, <1>8 DEF SaleInv, StoreIsTrue

\* A call that is abandoned answers neither "done" nor "no position".
LEMMA UnwindSale ==
    ASSUME SaleInv, NEW p \in Procs, NEW last \in {"done", "crashed"},
           NEW ret \in {"THROWN", "none"}, Unwind(p, last, ret), EntryInv'
    PROVE  SaleInv'
<1>1. /\ UNCHANGED exchangeVars /\ trade' = trade
      /\ w' = [w EXCEPT ![p] = NoCall]
      /\ \A e \in Executors :
           /\ on'[e] = on[e]
           /\ pc'[e] = IF e = p THEN last ELSE pc[e]
           /\ ex'[e] = IF e = p THEN [ex[e] EXCEPT !.ret = ret] ELSE ex[e]
      /\ \A r \in Reconcilers :
           /\ r # p => UNCHANGED <<pc[r], rc[r], on[r]>>
           /\ r = p => pc'[r] = "idle"
  BY SaleFacts DEF Unwind, DropWrite
<1>2. ExchangeIsTrue' /\ \A i \in Intents : Remembers(i) BY <1>1, QuietExchange
<1>3. ExchangeTypeOK' BY DEF EntryInv, TypeInv, TypeOK
<1>4. ASSUME NEW e \in Executors PROVE Knows(e)'
  <2>1. CASE e # p
    BY <1>1, <1>2, <1>3, <2>1, KnowledgeKeeps DEF exchangeVars
  <2>2. CASE e = p
    <3>1. Knows(e) BY EachKnows DEF SaleInv
    <3>2. ex'[e].seen = ex[e].seen /\ ex'[e].ret = ret
      BY <1>1, <2>2, SaleFacts DEF ExecutorLocals
    <3> QED BY <1>1, <2>2, <3>1, <3>2 DEF Knows, Selling, exchangeVars
  <2> QED BY <2>1, <2>2
<1>5. StoreIsTrue' BY <1>1, <1>2, <1>3, BegunIsTrue
<1>6. ASSUME NEW r \in Reconcilers PROVE RunKnows(r)'
  <2>1. CASE r # p BY <1>1, <1>2, <1>3, <2>1, RunKeeps
  <2>2. CASE r = p BY <1>1, <2>2 DEF RunKnows, Booked
  <2> QED BY <2>1, <2>2
<1>7. RunsAreTrue' BY <1>6 DEF RunsAreTrue
<1> QED BY <1>2, <1>4, <1>5, <1>7, EachKnows DEF SaleInv

LEMMA EnvironmentSale ==
    ASSUME SaleInv, NEW j \in Intents, Environment(j), EntryInv'
    PROVE  SaleInv'
<1>1. ExchangeStep(j) /\ UNCHANGED <<trade, w, pc, on, ex, rc>>
  BY DEF Environment, storeVars, locals
<1>2. ExchangeTypeOK /\ ExchangeTypeOK' BY SaleFacts DEF EntryInv, TypeInv, TypeOK
<1>3. /\ ExchangeIsTrue' /\ \A i \in Intents : Remembers(i)
      /\ \A i \in Intents : net'["buy"][i] = "sent" => net["buy"][i] = "sent"
  BY <1>1, <1>2, EnvironmentIsTrue, EnvironmentRemembers
<1>4. ASSUME NEW e \in Executors PROVE Knows(e)'
  BY <1>1, <1>2, <1>3, KnowledgeKeeps
<1>5. RowsAreTrue' BY <1>1, <1>2, <1>3, SaleFacts, TruthKeeps DEF RowsAreTrue, Truthful, Flat
<1>6. WritesAreTrue'
  <2>1. ASSUME NEW q \in Procs, ~Ready(q)' PROVE Truthful(w[q].row, w[q].intent)'
    <3>1. ~Ready(q) /\ w[q] \in Calls BY <1>1, <2>1, SaleFacts DEF Ready, NoCall
    <3>2. w[q].intent \in Intents /\ Truthful(w[q].row, w[q].intent)
      BY <3>1, SaleFacts DEF WritesAreTrue, Calls
    <3> QED BY <1>1, <1>2, <1>3, <3>2, TruthKeeps DEF Truthful, Flat
  <2> QED BY <1>1, <2>1 DEF WritesAreTrue
<1>7. RunsAreTrue' BY <1>1, <1>2, <1>3, RunKeeps DEF RunsAreTrue
<1> QED BY <1>3, <1>4, <1>5, <1>6, <1>7, EachKnows DEF SaleInv, StoreIsTrue

LEMMA SaleInit == ASSUME Init PROVE SaleInv
<1>1. EntryInv BY EntryInit
<1>2. ExchangeIsTrue
  BY DEF Init, ExchangeInit, ExchangeIsTrue, EntryIsAccepted, AcceptedIsThere, SoldIsFlat,
         SalesFill, ListsAreBacked, SaleFollowsFinalEntry, Submitted, Kinds
<1>3. ExecutorIsTrue
  BY LiveAssumption, IntentAssumption
     DEF LiveAssumption, IntentAssumption, Init, FreshExecutor, NoOrder, ExecutorIsTrue,
         SeenIsReal, SellerHasSettled, AnswerIsTrue, Selling, TerminalEntry
<1>4. StoreIsTrue
  BY DEF Init, StoreInit, NoRow, NoCall, Ready, StoreIsTrue, RowsAreTrue, WritesAreTrue,
         Truthful
<1>5. RunsAreTrue
  BY LiveAssumption DEF LiveAssumption, Init, RunsAreTrue, RunKnows, Booked
<1> QED BY <1>1, <1>2, <1>3, <1>4, <1>5 DEF SaleInv

LEMMA SaleStep == ASSUME SaleInv, [Next]_vars PROVE SaleInv'
<1>0. EntryInv' BY EntryStep DEF SaleInv
<1>1. ASSUME NEW e \in Executors, ExecutorStep(e) PROVE SaleInv'
  BY <1>0, <1>1, ExecutorIsCareful, CarefulStepSale, ClaimSale
<1>2. ASSUME NEW r \in Reconcilers, ReconcilerStep(r) PROVE SaleInv'
  BY <1>0, <1>2, ReconcilerSale
<1>3. ASSUME NEW p \in Procs, WriteStep(p) PROVE SaleInv' BY <1>0, <1>3, WriteStepSale
<1>4. ASSUME NEW p \in Procs, WriteRefused(p) \/ Crash(p) PROVE SaleInv'
  BY <1>0, <1>4, UnwindSale DEF WriteRefused, Crash
<1>5. ASSUME NEW i \in Intents, Environment(i) PROVE SaleInv'
  BY <1>0, <1>5, EnvironmentSale
<1>6. CASE UNCHANGED vars
  <2>1. UNCHANGED exchangeVars /\ UNCHANGED <<trade, w, pc, on, ex, rc>>
    BY <1>6 DEF vars, storeVars, locals
  <2>2. ExchangeIsTrue' BY <2>1, QuietExchange
  <2>3. ExecutorIsTrue' /\ RunsAreTrue' /\ StoreIsTrue'
    BY <2>1, SaleFacts
       DEF exchangeVars, ExecutorIsTrue, SeenIsReal, SellerHasSettled, AnswerIsTrue,
           SaleExists, NothingBought, StoreIsTrue, RowsAreTrue, WritesAreTrue, Truthful, Ready,
           RunsAreTrue, RunKnows, Matched, Flat
  <2> QED BY <1>0, <2>2, <2>3 DEF SaleInv
<1> QED BY <1>1, <1>2, <1>3, <1>4, <1>5, <1>6 DEF Next

-----------------------------------------------------------------------------
(* The theorems.                                                           *)

\* Nothing is sold while the entry can still fill: settleEntryOrder lets no call
\* reach placeOco or emergencyClose before the entry order is final, for any
\* number of attempts, lost answers, and competing invocations.
THEOREM SalesFollowEntry == Spec => []SaleFollowsFinalEntry
<1>1. SaleInv => SaleFollowsFinalEntry BY DEF SaleInv, ExchangeIsTrue
<1> QED BY <1>1, SaleInit, SaleStep, PTL DEF Spec

\* A row says PROTECTED only of a list the exchange took, although four store
\* calls lie between the answer and the row, others write the row meanwhile, and
\* what they write back is what they read.
THEOREM ProtectionIsReal == Spec => []ProtectedIsReal
<1>1. SaleInv => ProtectedIsReal
  BY SaleFacts DEF RowsAreTrue, Truthful, ProtectedIsReal
<1> QED BY <1>1, SaleInit, SaleStep, PTL DEF Spec

\* Where a market sale that was accepted is filled, a row marked emergencyClosed
\* has nothing left to sell, for ever after: the entry was final before the sale.
THEOREM EmergencyCloses == ~ThinBook => (Spec => []EmergencyIsFlat)
<1> SUFFICES ASSUME ~ThinBook PROVE Spec => []EmergencyIsFlat OBVIOUS
<1>1. SaleInv => EmergencyIsFlat
  BY SaleFacts, BookFacts
     DEF RowsAreTrue, Truthful, SoldIsFlat, SalesFill, EmergencyIsFlat
<1> QED BY <1>1, SaleInit, SaleStep, PTL DEF Spec

\* Under the same condition the answers "done" and "no position" leave nothing
\* that no protective list was ever placed for.
THEOREM AnswersAreHonest == ~ThinBook => (Spec => []AnswerIsHonest)
<1> SUFFICES ASSUME ~ThinBook PROVE Spec => []AnswerIsHonest OBVIOUS
<1>1. ASSUME SaleInv, NEW e \in Executors, Ended(e), ex[e].ret \in {"OK", "NO_POSITION"},
             held[on[e]] > 0
      PROVE  oco[on[e]] # "ABSENT"
  <2>1. CASE ex[e].ret = "OK"
    <3>1. on[e] \in Intents /\ SaleExists(on[e])
      BY <1>1, <2>1, SaleFacts DEF Ended, AnswerIsTrue
    <3> QED BY <1>1, <3>1, SaleFacts, BookFacts DEF SaleExists, SoldIsFlat, SalesFill
  <2>2. CASE ex[e].ret = "NO_POSITION"
    <3>1. held[on[e]] = 0 BY <1>1, <2>2, SaleFacts DEF Ended, AnswerIsTrue, NothingBought
    <3> QED BY <1>1, <3>1
  <2> QED BY <1>1, <2>1, <2>2
<1>2. SaleInv => AnswerIsHonest BY <1>1 DEF AnswerIsHonest
<1> QED BY <1>2, SaleInit, SaleStep, PTL DEF Spec

\* The reconciler closes a row only when the position is gone for good, although
\* its four reads see four different moments, the account owner sells and cancels
\* in between, and the executor is still at work on the row.
THEOREM ExitsAreFlat == Spec => []ExitedIsFlat
<1>1. SaleInv => ExitedIsFlat
  BY SaleFacts DEF RowsAreTrue, Truthful, Flat, ListsAreBacked, ExitedIsFlat
<1> QED BY <1>1, SaleInit, SaleStep, PTL DEF Spec

-----------------------------------------------------------------------------
(* Write ahead.  The row tells of an order before the order can be at the   *)
(* exchange, and keeps telling: the stale row that another process puts     *)
(* back was read after the ids were there, or the call is over and will     *)
(* never place a list.                                                      *)

Early == {"NONE", "SIGNAL_CREATED", "APPROVED"}
HasIds(row) == "protectionIds" \in row.flags

\* No call will do any more for the intent.
Over(i) == \A e \in Executors : on[e] = i => pc[e] \in {"done", "crashed"}

\* A write by anybody else can do no harm.
Safe(i) == HasIds(trade[i]) \/ Over(i)

RowTells(i) ==
    /\ Submitted("buy", i) => trade[i].state \notin Early
    /\ Submitted("oco", i) => HasIds(trade[i])
    /\ trade[i].state = "FAILED_SAFE" => Safe(i)

WriteTells(p) ==
    ~Ready(p) =>
        /\ w[p].row.state \in Early => p \in Executors /\ pc[p] = "reconcile"
        /\ p \in Executors => w[p].intent = on[p]
        /\ p \in Reconcilers => Safe(w[p].intent)
        /\ w[p].step = "put" /\ HasIds(trade[w[p].intent]) => HasIds(w[p].row)
        /\ HasIds(w[p].row) => \/ HasIds(trade[w[p].intent])
                               \/ p \in Executors /\ pc[p] = "ocoQuery"
        /\ w[p].row.state = "FAILED_SAFE" => Safe(w[p].intent)

Landed(p) == Ready(p) \/ w[p].step \in {"ixget", "ixput"}

OwnerTells(e) ==
    /\ pc[e] = "buySend" /\ Landed(e) => trade[on[e]].state \notin Early
    /\ pc[e] \in {"ocoQuery", "ocoSend"} =>
         HasIds(IF Landed(e) THEN trade[on[e]] ELSE w[e].row)

RunTells(r) ==
    /\ pc[r] = "reads" =>
         /\ rc[r].row.state = "FAILED_SAFE" => Safe(on[r])
         /\ HasIds(rc[r].row) => HasIds(trade[on[r]])
         /\ ~HasIds(rc[r].row) =>
              /\ rc[r].snap.list = "ABSENT"
              /\ rc[r].snap.tp = "ABSENT"
              /\ rc[r].snap.sl = "ABSENT"
    /\ pc[r] \in Booked => HasIds(trade[on[r]])

RecordInv ==
    /\ SaleInv
    /\ \A i \in Intents : RowTells(i)
    /\ \A p \in Procs : WriteTells(p)
    /\ \A e \in Executors : OwnerTells(e)
    /\ \A r \in Reconcilers : RunTells(r)


LEMMA RecordFacts ==
    ASSUME RecordInv
    PROVE  /\ SaleInv /\ EntryInv /\ TypeInv
           /\ \A i \in Intents : RowTells(i)
           /\ \A p \in Procs : WriteTells(p)
           /\ \A e \in Executors : OwnerTells(e)
           /\ \A r \in Reconcilers : RunTells(r)
           /\ ReconcilerHolds /\ OwnersDiffer /\ OwnedIsClaimed
           /\ Executors \subseteq Procs /\ Reconcilers \subseteq Procs
           /\ Procs = Executors \cup Reconcilers
           /\ Executors \cap Reconcilers = {}
           /\ trade \in [Intents -> Rows]
           /\ w \in [Procs -> Calls \cup {NoCall}]
           /\ pc \in [Procs -> ExecutorPcs \cup ReconcilerPcs]
           /\ on \in [Procs -> Intents \cup {NoIntent}]
           /\ \A p \in Procs : ~Ready(p) =>
                /\ w[p] \in Calls /\ w[p].intent \in Intents /\ w[p].row \in Rows
                /\ trade[w[p].intent].state # "NONE"
           /\ \A e \in Executors : pc[e] \notin {"idle", "done", "crashed"} =>
                on[e] \in Intents /\ trade[on[e]].state # "NONE"
           /\ \A r \in Reconcilers : pc[r] \in Booked \cup {"reads"} =>
                on[r] \in Intents /\ trade[on[r]].state # "NONE"
<1>1. SaleInv /\ EntryInv /\ TypeInv BY SaleFacts DEF RecordInv
<1>2. \A p \in Procs : ~Ready(p) =>
        /\ w[p] \in Calls /\ w[p].intent \in Intents /\ w[p].row \in Rows
        /\ trade[w[p].intent].state # "NONE"
  BY <1>1, SaleFacts, EntryFacts DEF Ready, NoCall, Calls, WritesAreStates
<1>3. \A e \in Executors : pc[e] \notin {"idle", "done", "crashed"} =>
        on[e] \in Intents /\ trade[on[e]].state # "NONE"
  BY <1>1, SaleFacts, EntryFacts DEF WorksOnIntent, OwnedIsClaimed
<1>4. \A r \in Reconcilers : pc[r] \in Booked \cup {"reads"} =>
        on[r] \in Intents /\ trade[on[r]].state # "NONE"
  BY <1>1, SaleFacts, EntryFacts DEF WorksOnIntent, ReconcilerHolds, Holding, Booked
<1> QED BY <1>1, <1>2, <1>3, <1>4, SaleFacts, EntryFacts DEF RecordInv

\* The rows forget nothing either, once their owner is past the gate.
RowsGrow ==
    \A i \in Intents :
        /\ trade[i].state \notin Early =>
             \/ trade'[i].state \notin Early
             \/ \E e \in Executors : on[e] = i /\ pc[e] = "reconcile"
        /\ HasIds(trade[i]) => HasIds(trade'[i])
        /\ trade[i].state # "NONE" /\ Over(i) => Over(i)'

LEMMA SafeKeeps ==
    ASSUME RowsGrow, NEW i \in Intents, trade[i].state # "NONE", Safe(i)
    PROVE  Safe(i)'
BY DEF RowsGrow, Safe

\* What a write that does not move tells stays true.
LEMMA WriteKeeps ==
    ASSUME RecordInv, RowsGrow, NEW q \in Procs, UNCHANGED <<w[q], pc[q], on[q]>>,
           ~Ready(q) /\ w[q].step = "put" /\ HasIds(trade'[w[q].intent]) =>
               HasIds(trade[w[q].intent]) \/ HasIds(w[q].row)
    PROVE  WriteTells(q)'
<1> SUFFICES ASSUME ~Ready(q) PROVE WriteTells(q)'
  BY DEF WriteTells, Ready
<1>1. WriteTells(q) /\ w[q].intent \in Intents /\ trade[w[q].intent].state # "NONE"
  BY RecordFacts
<1>2. Safe(w[q].intent) => Safe(w[q].intent)' BY <1>1, SafeKeeps
<1>3. HasIds(trade[w[q].intent]) => HasIds(trade'[w[q].intent]) BY <1>1 DEF RowsGrow
<1> QED BY <1>1, <1>2, <1>3 DEF WriteTells, HasIds

LEMMA OwnerKeeps ==
    ASSUME RecordInv, RowsGrow, NEW e \in Executors, UNCHANGED <<w[e], pc[e], on[e]>>
    PROVE  OwnerTells(e)'
<1>1. CASE pc[e] \in {"buySend", "ocoQuery", "ocoSend"}
  <2>1. OwnerTells(e) /\ on[e] \in Intents BY <1>1, RecordFacts
  <2>2. /\ trade[on[e]].state \notin Early => trade'[on[e]].state \notin Early
        /\ HasIds(trade[on[e]]) => HasIds(trade'[on[e]])
    <3>1. on[e] # NoIntent /\ pc[e] # "reconcile" BY <1>1, <2>1, RecordFacts, SaleFacts
    <3>2. \A f \in Executors : on[f] = on[e] => pc[f] # "reconcile"
      BY <3>1, RecordFacts DEF OwnersDiffer
    <3> QED BY <2>1, <3>2 DEF RowsGrow
  <2> QED BY <2>1, <2>2 DEF OwnerTells, Landed, Ready, HasIds
<1>2. CASE pc[e] \notin {"buySend", "ocoQuery", "ocoSend"} BY <1>2 DEF OwnerTells
<1> QED BY <1>1, <1>2

LEMMA RunTellsKeeps ==
    ASSUME RecordInv, RowsGrow, NEW r \in Reconcilers, UNCHANGED <<rc[r], pc[r], on[r]>>
    PROVE  RunTells(r)'
<1>1. CASE pc[r] \in Booked \cup {"reads"}
  <2>1. RunTells(r) /\ on[r] \in Intents /\ trade[on[r]].state # "NONE"
    BY <1>1, RecordFacts
  <2>2. Safe(on[r]) => Safe(on[r])' BY <2>1, SafeKeeps
  <2>3. HasIds(trade[on[r]]) => HasIds(trade'[on[r]]) BY <2>1 DEF RowsGrow
  <2> QED BY <2>1, <2>2, <2>3 DEF RunTells, HasIds
<1>2. CASE pc[r] \notin Booked \cup {"reads"} BY <1>2 DEF RunTells
<1> QED BY <1>1, <1>2

-----------------------------------------------------------------------------
(* What each step of the executor writes ahead of.                         *)

\* Nothing leaves before its row is written.
RecordedStep(e) ==
    /\ Ready(e) /\ pc[e] \notin {"idle", "done", "crashed"}
    /\ UNCHANGED <<on, rc, trade>>
    /\ \E l \in ExecutorPcs \ {"idle", "reconcile"} :
        /\ pc' = [pc EXCEPT ![e] = l]
        /\ \/ /\ w' = w
              /\ l \notin {"buySend", "ocoQuery"}
              /\ l = "ocoSend" => pc[e] = "ocoQuery"
           \/ \E s \in TradeStates \ Early, f \in SUBSET Flags :
                /\ BeginWrite(e, on[e], s, f, "none")
                /\ l # "ocoSend"
                /\ s = "FAILED_SAFE" => l = "done"
                /\ "protectionIds" \in f <=> l = "ocoQuery"
    /\ \A i \in Intents :
        /\ net["buy"][i] = "none" /\ net'["buy"][i] # "none" => pc[e] = "buySend" /\ i = on[e]
        /\ net["oco"][i] = "none" /\ net'["oco"][i] # "none" => pc[e] = "ocoSend" /\ i = on[e]

\* Only BuySend and OcoSend make an order that was not sent one that was.
LEMMA SendsAreMeant ==
    ASSUME ExchangeTypeOK, NEW e \in Executors, on[e] \in Intents,
           \/ UNCHANGED exchangeVars
           \/ pc[e] = "buySend" /\ Send("buy", on[e])
           \/ pc[e] = "ocoSend" /\ Send("oco", on[e])
           \/ Send("emg", on[e])
           \/ \E k \in Kinds : GiveUp(k, on[e])
           \/ CancelEntry(on[e]),
           NEW i \in Intents
    PROVE  /\ net["buy"][i] = "none" /\ net'["buy"][i] # "none" => pc[e] = "buySend" /\ i = on[e]
           /\ net["oco"][i] = "none" /\ net'["oco"][i] # "none" => pc[e] = "ocoSend" /\ i = on[e]
BY DEF ExchangeTypeOK, exchangeVars, Send, GiveUp, CancelEntry, Kinds

\* The two ways a step touches the store.
LEMMA QuietIsRecorded ==
    ASSUME SaleInv, NEW e \in Executors, Ready(e), pc[e] \notin {"idle", "done", "crashed"},
           ExecutorFrame, NoWrite,
           NEW l \in ExecutorPcs \ {"idle", "reconcile", "buySend", "ocoQuery"},
           Goto(e, l), l = "ocoSend" => pc[e] = "ocoQuery",
           \/ UNCHANGED exchangeVars
           \/ pc[e] = "buySend" /\ Send("buy", on[e])
           \/ pc[e] = "ocoSend" /\ Send("oco", on[e])
           \/ Send("emg", on[e])
           \/ \E k \in Kinds : GiveUp(k, on[e])
           \/ CancelEntry(on[e])
    PROVE  RecordedStep(e)
<1>1. on[e] \in Intents BY SaleFacts DEF WorksOnIntent
<1>2. \A i \in Intents :
        /\ net["buy"][i] = "none" /\ net'["buy"][i] # "none" => pc[e] = "buySend" /\ i = on[e]
        /\ net["oco"][i] = "none" /\ net'["oco"][i] # "none" => pc[e] = "ocoSend" /\ i = on[e]
  BY <1>1, SaleFacts, SendsAreMeant
<1> QED BY <1>2 DEF RecordedStep, ExecutorFrame, NoWrite, storeVars, Goto

LEMMA WriteIsRecorded ==
    ASSUME SaleInv, NEW e \in Executors, Ready(e), pc[e] \notin {"idle", "done", "crashed"},
           ExecutorFrame,
           NEW s \in TradeStates \ Early, NEW f \in SUBSET Flags, Write(e, s, f),
           NEW l \in ExecutorPcs \ {"idle", "reconcile", "ocoSend"}, Goto(e, l),
           s = "FAILED_SAFE" => l = "done",
           "protectionIds" \in f <=> l = "ocoQuery",
           UNCHANGED exchangeVars
    PROVE  RecordedStep(e)
<1>1. on[e] \in Intents BY SaleFacts DEF WorksOnIntent
<1>2. \A i \in Intents :
        /\ net["buy"][i] = "none" /\ net'["buy"][i] # "none" => pc[e] = "buySend" /\ i = on[e]
        /\ net["oco"][i] = "none" /\ net'["oco"][i] # "none" => pc[e] = "ocoSend" /\ i = on[e]
  BY <1>1, SaleFacts, SendsAreMeant
<1>3. UNCHANGED <<on, rc, trade>> BY DEF ExecutorFrame, Write
<1>4. \E t \in TradeStates \ Early, g \in SUBSET Flags :
        /\ BeginWrite(e, on[e], t, g, "none")
        /\ l # "ocoSend"
        /\ t = "FAILED_SAFE" => l = "done"
        /\ "protectionIds" \in g <=> l = "ocoQuery"
  BY DEF Write
<1> QED BY <1>2, <1>3, <1>4 DEF RecordedStep, Goto


LEMMA FinishIsRecorded ==
    ASSUME SaleInv, NEW e \in Executors, Ready(e), pc[e] \notin {"idle", "done", "crashed"},
           ExecutorFrame,
           NEW s \in TradeStates \ Early, NEW f \in SUBSET Flags, "protectionIds" \notin f,
           NEW ret, Finish(e, s, f, ret),
           UNCHANGED exchangeVars
    PROVE  RecordedStep(e)
<1>1. "done" \in ExecutorPcs \ {"idle", "reconcile", "ocoSend"} /\ "done" # "ocoQuery"
  BY DEF ExecutorPcs
<1>2. Write(e, s, f) /\ Goto(e, "done") BY DEF Finish, Return
<1> QED BY <1>1, <1>2, WriteIsRecorded

\* A step that writes nothing.
LEMMA GoesOn ==
    ASSUME SaleInv, NEW e \in Executors, Ready(e), pc[e] \notin {"idle", "done", "crashed"},
           ExecutorFrame, NoWrite, UNCHANGED exchangeVars,
           NEW l \in ExecutorPcs \ {"idle", "reconcile", "buySend", "ocoQuery"},
           Goto(e, l), l = "ocoSend" => pc[e] = "ocoQuery"
    PROVE  RecordedStep(e)
BY QuietIsRecorded

\* The states and marks the executor writes.
LEMMA WritesAre ==
    /\ {"ENTRY_SUBMITTING", "ENTRY_ACCEPTED", "FILLED", "PARTIALLY_FILLED",
        "PROTECTION_PENDING", "PROTECTED", "FAILED_SAFE"} \subseteq TradeStates \ Early
    /\ {} \in SUBSET Flags /\ Position \in SUBSET Flags
    /\ {"emergencyClosed"} \in SUBSET Flags /\ {"protectionIds"} \in SUBSET Flags
    /\ \A f \in {{}, Position, {"emergencyClosed"}} : "protectionIds" \notin f
    /\ "protectionIds" \in {"protectionIds"}
    /\ {"buyQuery", "buyWait", "buyRequery", "settle", "cancel", "finalQuery", "filled",
        "normalize", "ocoWait", "ocoRequery", "emgQuery", "emgSend", "emgWait", "emgRequery",
        "done"} \subseteq ExecutorPcs \ {"idle", "reconcile", "buySend", "ocoQuery", "ocoSend"}
    /\ {"buySend", "ocoQuery", "ocoSend"} \subseteq ExecutorPcs
BY DEF TradeStates, Early, Flags, Position, ExecutorPcs

LEMMA EntryIsRecorded ==
    ASSUME SaleInv, NEW e \in Executors,
           \/ PassGate(e) \/ BlockAtGate(e) \/ RefusePreTrade(e)
           \/ BuyQuery(e) \/ BuySend(e) \/ BuyAccepted(e) \/ BuyRejected(e)
           \/ BuyUnknown(e) \/ BuyRequery(e)
    PROVE  RecordedStep(e)
<1>1. Ready(e) /\ pc[e] \notin {"idle", "done", "crashed"} /\ ExecutorFrame
  BY DEF PassGate, BlockAtGate, RefusePreTrade, BuyQuery, BuySend, BuyAccepted, BuyRejected,
         BuyUnknown, BuyRequery, At
<1>2. CASE PassGate(e) BY <1>1, <1>2, WritesAre, GoesOn DEF PassGate
<1>3. CASE BlockAtGate(e) BY <1>1, <1>3, WritesAre, FinishIsRecorded DEF BlockAtGate
<1>4. CASE RefusePreTrade(e) BY <1>1, <1>4, WritesAre, FinishIsRecorded DEF RefusePreTrade
<1>5. CASE BuyQuery(e)
  <2>1. UNCHANGED exchangeVars BY <1>5 DEF BuyQuery
  <2>2. CASE NoWrite
    <3>1. \/ Goto(e, "settle") \/ Goto(e, "done")
          \/ Goto(e, "buySend") /\ Write(e, "ENTRY_SUBMITTING", {})
      BY <1>5 DEF BuyQuery, Return
    <3>2. ~ Write(e, "ENTRY_SUBMITTING", {})
      <4>1. e \in Procs /\ w \in [Procs -> Calls \cup {NoCall}] BY SaleFacts
      <4> QED BY <1>1, <2>2, <4>1 DEF NoWrite, storeVars, Write, BeginWrite, Ready
    <3> QED BY <1>1, <2>1, <2>2, <3>1, <3>2, WritesAre, GoesOn
  <2>3. CASE ~NoWrite
    <3>1. Write(e, "ENTRY_SUBMITTING", {}) /\ Goto(e, "buySend")
      BY <1>5, <2>3 DEF BuyQuery
    <3>2. "buySend" \in ExecutorPcs \ {"idle", "reconcile", "ocoSend"}
      BY DEF ExecutorPcs
    <3> QED BY <1>1, <2>1, <3>1, <3>2, WritesAre, WriteIsRecorded
  <2> QED BY <2>2, <2>3
<1>6. CASE BuySend(e)
  <2>1. NoWrite /\ pc[e] = "buySend" BY <1>6 DEF BuySend, At
  <2>2. CASE Send("buy", on[e]) /\ Goto(e, "buyWait")
    BY <1>1, <2>1, <2>2, WritesAre, QuietIsRecorded
  <2>3. CASE Goto(e, "done") /\ UNCHANGED exchangeVars
    BY <1>1, <2>1, <2>3, WritesAre, GoesOn
  <2> QED BY <1>6, <2>2, <2>3 DEF BuySend, Return
<1>7. CASE BuyAccepted(e)
  <2>1. Write(e, "ENTRY_ACCEPTED", {}) /\ Goto(e, "settle") /\ UNCHANGED exchangeVars
    BY <1>7 DEF BuyAccepted
  <2> QED BY <1>1, <2>1, WritesAre, WriteIsRecorded
<1>8. CASE BuyRejected(e) BY <1>1, <1>8, WritesAre, FinishIsRecorded DEF BuyRejected
<1>9. CASE BuyUnknown(e)
  <2>1. /\ NoWrite /\ \E k \in Kinds : GiveUp(k, on[e])
        /\ Goto(e, "buyRequery") \/ Goto(e, "done")
    BY <1>9 DEF BuyUnknown, Return, Kinds
  <2> QED BY <1>1, <2>1, WritesAre, QuietIsRecorded
<1>10. CASE BuyRequery(e)
  <2>1. /\ NoWrite /\ UNCHANGED exchangeVars
        /\ Goto(e, "settle") \/ Goto(e, "done")
    BY <1>10 DEF BuyRequery, Return
  <2> QED BY <1>1, <2>1, WritesAre, GoesOn
<1> QED BY <1>2, <1>3, <1>4, <1>5, <1>6, <1>7, <1>8, <1>9, <1>10

LEMMA FillIsRecorded ==
    ASSUME SaleInv, NEW e \in Executors,
           \/ SettleFinal(e) \/ SettlePoll(e) \/ SettleExhausted(e)
           \/ CancelRest(e) \/ FinalQuery(e) \/ Filled(e) \/ Normalize(e)
    PROVE  RecordedStep(e)
<1>1. Ready(e) /\ pc[e] \notin {"idle", "done", "crashed"} /\ ExecutorFrame
  BY DEF SettleFinal, SettlePoll, SettleExhausted, CancelRest, FinalQuery, Filled, Normalize, At
<1>2. ASSUME NEW order, Settled(e, order), UNCHANGED exchangeVars PROVE RecordedStep(e)
  <2>1. CASE order.qty > 0
    <3>1. PICK s \in {"FILLED", "PARTIALLY_FILLED"} : Write(e, s, {}) /\ Goto(e, "filled")
      BY <1>2, <2>1 DEF Settled
    <3> QED BY <1>1, <1>2, <3>1, WritesAre, WriteIsRecorded
  <2>2. CASE ~(order.qty > 0)
    <3>1. Finish(e, "FAILED_SAFE", {}, "NO_POSITION") BY <1>2, <2>2 DEF Settled
    <3> QED BY <1>1, <1>2, <3>1, WritesAre, FinishIsRecorded
  <2> QED BY <2>1, <2>2
<1>3. CASE SettleFinal(e) BY <1>2, <1>3 DEF SettleFinal
<1>4. CASE SettlePoll(e)
  <2>1. /\ NoWrite /\ UNCHANGED exchangeVars
        /\ \E l \in {"cancel", "settle", "done"} : Goto(e, l)
    BY <1>4 DEF SettlePoll, Return
  <2> QED BY <1>1, <2>1, WritesAre, GoesOn
<1>5. CASE SettleExhausted(e)
  <2>1. /\ NoWrite /\ UNCHANGED exchangeVars
        /\ \E l \in {"cancel", "done"} : Goto(e, l)
    BY <1>5 DEF SettleExhausted, Return
  <2> QED BY <1>1, <2>1, WritesAre, GoesOn
<1>6. CASE CancelRest(e)
  <2>1. /\ NoWrite
        /\ CancelEntry(on[e]) \/ UNCHANGED exchangeVars
        /\ \E l \in {"finalQuery", "done"} : Goto(e, l)
    BY <1>6 DEF CancelRest, Return
  <2> QED BY <1>1, <2>1, WritesAre, QuietIsRecorded
<1>7. CASE FinalQuery(e)
  <2>1. UNCHANGED exchangeVars BY <1>7 DEF FinalQuery
  <2>2. Settled(e, buy[on[e]]) \/ (NoWrite /\ Goto(e, "done"))
    BY <1>7 DEF FinalQuery, Return
  <2> QED BY <1>1, <1>2, <2>1, <2>2, WritesAre, GoesOn
<1>8. CASE Filled(e)
  <2>1. UNCHANGED exchangeVars BY <1>8 DEF Filled
  <2>2. CASE Finish(e, "FAILED_SAFE", Position, "RECONCILE")
    BY <1>1, <2>1, <2>2, WritesAre, FinishIsRecorded
  <2>3. CASE ~Finish(e, "FAILED_SAFE", Position, "RECONCILE")
    <3>1. PICK s \in {"FILLED", "PARTIALLY_FILLED"} : Write(e, s, {}) /\ Goto(e, "normalize")
      BY <1>8, <2>3 DEF Filled
    <3> QED BY <1>1, <2>1, <3>1, WritesAre, WriteIsRecorded
  <2> QED BY <2>2, <2>3
<1>9. CASE Normalize(e)
  <2>1. UNCHANGED exchangeVars BY <1>9 DEF Normalize
  <2>2. CASE Write(e, "PROTECTION_PENDING", {"protectionIds"}) /\ Goto(e, "ocoQuery")
    <3>1. "ocoQuery" \in ExecutorPcs \ {"idle", "reconcile", "ocoSend"} BY DEF ExecutorPcs
    <3>2. "protectionIds" \in {"protectionIds"} <=> "ocoQuery" = "ocoQuery" OBVIOUS
    <3> QED BY <1>1, <2>1, <2>2, <3>1, <3>2, WritesAre, WriteIsRecorded
  <2>3. CASE Write(e, "PROTECTION_PENDING", Position) /\ Goto(e, "emgQuery")
    BY <1>1, <2>1, <2>3, WritesAre, WriteIsRecorded
  <2> QED BY <1>9, <2>2, <2>3 DEF Normalize
<1> QED BY <1>3, <1>4, <1>5, <1>6, <1>7, <1>8, <1>9

LEMMA SaleIsRecorded ==
    ASSUME SaleInv, NEW e \in Executors,
           \/ OcoFound(e) \/ OcoQuery(e) \/ OcoSend(e) \/ OcoAccepted(e)
           \/ OcoNotAccepted(e) \/ OcoRequery(e)
           \/ EmgQuery(e) \/ EmgSend(e) \/ EmgAccepted(e) \/ EmgNotAccepted(e)
           \/ EmgRequery(e)
    PROVE  RecordedStep(e)
<1>1. Ready(e) /\ pc[e] \notin {"idle", "done", "crashed"} /\ ExecutorFrame
  BY DEF OcoFound, OcoQuery, OcoSend, OcoAccepted, OcoNotAccepted, OcoRequery,
         EmgQuery, EmgSend, EmgAccepted, EmgNotAccepted, EmgRequery, At
<1>2. ASSUME UNCHANGED exchangeVars,
             NEW s \in {"PROTECTED", "PROTECTION_PENDING", "FAILED_SAFE"},
             NEW f \in {{}, Position, {"emergencyClosed"}}, NEW ret, Finish(e, s, f, ret)
      PROVE  RecordedStep(e)
  BY <1>1, <1>2, WritesAre, FinishIsRecorded
<1>3. ASSUME UNCHANGED exchangeVars, Closed(e) \/ LeftOpen(e) PROVE RecordedStep(e)
  BY <1>2, <1>3 DEF Closed, LeftOpen
<1>4. CASE OcoFound(e) BY <1>2, <1>4 DEF OcoFound
<1>5. CASE OcoQuery(e)
  <2>1. UNCHANGED exchangeVars BY <1>5 DEF OcoQuery
  <2>2. CASE NoWrite /\ Goto(e, "ocoSend")
    <3>1. pc[e] = "ocoQuery" BY <1>5 DEF OcoQuery, At
    <3>2. "ocoSend" \in ExecutorPcs \ {"idle", "reconcile", "buySend", "ocoQuery"}
      BY DEF ExecutorPcs
    <3> QED BY <1>1, <2>1, <2>2, <3>1, <3>2, GoesOn
  <2>3. CASE Finish(e, "PROTECTION_PENDING", {}, "RECONCILE") BY <1>2, <2>1, <2>3
  <2> QED BY <1>5, <2>2, <2>3 DEF OcoQuery
<1>6. CASE OcoSend(e)
  <2>1. NoWrite /\ pc[e] = "ocoSend" BY <1>6 DEF OcoSend, At
  <2>2. CASE Send("oco", on[e]) /\ Goto(e, "ocoWait")
    BY <1>1, <2>1, <2>2, WritesAre, QuietIsRecorded
  <2>3. CASE Goto(e, "ocoRequery") /\ UNCHANGED exchangeVars
    BY <1>1, <2>1, <2>3, WritesAre, GoesOn
  <2> QED BY <1>6, <2>2, <2>3 DEF OcoSend
<1>7. CASE OcoAccepted(e) BY <1>2, <1>7 DEF OcoAccepted
<1>8. CASE OcoNotAccepted(e)
  <2>1. NoWrite /\ Goto(e, "ocoRequery") BY <1>8 DEF OcoNotAccepted
  <2>2. UNCHANGED exchangeVars \/ \E k \in Kinds : GiveUp(k, on[e])
    BY <1>8 DEF OcoNotAccepted, Kinds
  <2> QED BY <1>1, <2>1, <2>2, WritesAre, QuietIsRecorded
<1>9. CASE OcoRequery(e)
  <2>1. UNCHANGED exchangeVars BY <1>9 DEF OcoRequery
  <2>2. CASE NoWrite /\ Goto(e, "emgQuery") BY <1>1, <2>1, <2>2, WritesAre, GoesOn
  <2>3. CASE Finish(e, "PROTECTION_PENDING", {}, "RECONCILE") BY <1>2, <2>1, <2>3
  <2> QED BY <1>9, <2>2, <2>3 DEF OcoRequery
<1>10. CASE EmgQuery(e)
  <2>1. UNCHANGED exchangeVars BY <1>10 DEF EmgQuery
  <2>2. CASE NoWrite /\ Goto(e, "emgSend") BY <1>1, <2>1, <2>2, WritesAre, GoesOn
  <2>3. CASE ~(NoWrite /\ Goto(e, "emgSend")) BY <1>3, <1>10, <2>1, <2>3 DEF EmgQuery
  <2> QED BY <2>2, <2>3
<1>11. CASE EmgSend(e)
  <2>1. NoWrite BY <1>11 DEF EmgSend
  <2>2. CASE Send("emg", on[e]) /\ Goto(e, "emgWait")
    BY <1>1, <2>1, <2>2, WritesAre, QuietIsRecorded
  <2>3. CASE Goto(e, "emgRequery") /\ UNCHANGED exchangeVars
    BY <1>1, <2>1, <2>3, WritesAre, GoesOn
  <2> QED BY <1>11, <2>2, <2>3 DEF EmgSend
<1>12. CASE EmgAccepted(e) BY <1>3, <1>12 DEF EmgAccepted
<1>13. CASE EmgNotAccepted(e)
  <2>1. NoWrite /\ Goto(e, "emgRequery") BY <1>13 DEF EmgNotAccepted
  <2>2. UNCHANGED exchangeVars \/ \E k \in Kinds : GiveUp(k, on[e])
    BY <1>13 DEF EmgNotAccepted, Kinds
  <2> QED BY <1>1, <2>1, <2>2, WritesAre, QuietIsRecorded
<1>14. CASE EmgRequery(e) BY <1>3, <1>14 DEF EmgRequery
<1> QED BY <1>4, <1>5, <1>6, <1>7, <1>8, <1>9, <1>10, <1>11, <1>12, <1>13, <1>14

LEMMA ExecutorRecords ==
    ASSUME SaleInv, NEW e \in Executors, ExecutorStep(e)
    PROVE  \/ \E i \in Intents : ClaimIntent(e, i) \/ DuplicateIntent(e, i)
           \/ RecordedStep(e)
BY EntryIsRecorded, FillIsRecorded, SaleIsRecorded DEF ExecutorStep

-----------------------------------------------------------------------------
(* The steps.                                                              *)

\* The invariant, process by process.
LEMMA AllTell ==
    ASSUME SaleInv',
           \A i \in Intents : RowTells(i)', \A p \in Procs : WriteTells(p)',
           \A e \in Executors : OwnerTells(e)', \A r \in Reconcilers : RunTells(r)'
    PROVE  RecordInv'
BY DEF RecordInv

\* A row that does not change tells what it told, of orders that are not new.
LEMMA RowKeeps ==
    ASSUME RecordInv, RowsGrow, NEW i \in Intents, UNCHANGED trade[i],
           \A k \in {"buy", "oco"} : Submitted(k, i)' => Submitted(k, i)
    PROVE  RowTells(i)'
<1>1. RowTells(i) BY RecordFacts
<1>2. trade[i].state = "FAILED_SAFE" => Safe(i)' BY <1>1, SafeKeeps DEF RowTells
<1> QED BY <1>1, <1>2 DEF RowTells, HasIds

LEMMA RecordedTold ==
    ASSUME RecordInv, NEW e \in Executors, RecordedStep(e), SaleInv'
    PROVE  RecordInv'
<1>1. /\ e \in Procs /\ e \notin Reconcilers /\ on[e] \in Intents /\ on[e] # NoIntent
      /\ Ready(e) /\ UNCHANGED <<on, rc, trade>>
  BY RecordFacts, SaleFacts DEF RecordedStep
<1>2. PICK l \in ExecutorPcs \ {"idle", "reconcile"} :
        /\ pc' = [pc EXCEPT ![e] = l]
        /\ \/ /\ w' = w
              /\ l \notin {"buySend", "ocoQuery"}
              /\ l = "ocoSend" => pc[e] = "ocoQuery"
           \/ \E s \in TradeStates \ Early, f \in SUBSET Flags :
                /\ BeginWrite(e, on[e], s, f, "none")
                /\ l # "ocoSend"
                /\ s = "FAILED_SAFE" => l = "done"
                /\ "protectionIds" \in f <=> l = "ocoQuery"
  BY DEF RecordedStep
<1>3. \A q \in Procs \ {e} : UNCHANGED <<w[q], pc[q], on[q]>>
  BY <1>1, <1>2, RecordFacts DEF BeginWrite
<1>4. pc'[e] = l BY <1>1, <1>2, RecordFacts
<1>5. RowsGrow
  <2>1. \A f \in Executors \ {e} : UNCHANGED <<pc[f], on[f]>> BY <1>3, RecordFacts
  <2>2. pc[e] \notin {"done", "crashed"} BY DEF RecordedStep
  <2> QED BY <1>1, <2>1, <2>2 DEF RowsGrow, Over, HasIds
<1>6. ASSUME NEW i \in Intents PROVE RowTells(i)'
  <2>1. /\ net["buy"][i] = "none" /\ net'["buy"][i] # "none" => pc[e] = "buySend" /\ i = on[e]
        /\ net["oco"][i] = "none" /\ net'["oco"][i] # "none" => pc[e] = "ocoSend" /\ i = on[e]
    BY DEF RecordedStep
  <2>2. RowTells(i) /\ OwnerTells(e) BY RecordFacts
  <2>3. pc[e] = "buySend" => trade[on[e]].state \notin Early
    BY <1>1, <2>2 DEF OwnerTells, Landed
  <2>4. pc[e] = "ocoSend" => HasIds(trade[on[e]])
    BY <1>1, <2>2 DEF OwnerTells, Landed
  <2>5. trade[i].state = "FAILED_SAFE" => Safe(i)'
    BY <1>5, <2>2, SafeKeeps DEF RowTells
  <2> QED BY <1>1, <2>1, <2>2, <2>3, <2>4, <2>5 DEF RowTells, Submitted, HasIds
<1>7. ASSUME NEW q \in Procs \ {e} PROVE WriteTells(q)'
  BY <1>1, <1>3, <1>5, WriteKeeps
<1>8. WriteTells(e)' /\ OwnerTells(e)'
  <2>1. CASE /\ w' = w
             /\ l \notin {"buySend", "ocoQuery"}
             /\ l = "ocoSend" => pc[e] = "ocoQuery"
    <3>1. Ready(e)' BY <1>1, <2>1 DEF Ready
    <3>2. pc[e] = "ocoQuery" => HasIds(trade[on[e]])
      <4>1. OwnerTells(e) BY RecordFacts
      <4> QED BY <1>1, <4>1 DEF OwnerTells, Landed
    <3> QED BY <1>1, <1>4, <2>1, <3>1, <3>2 DEF WriteTells, OwnerTells, Landed, HasIds
  <2>2. CASE \E s \in TradeStates \ Early, f \in SUBSET Flags :
               /\ BeginWrite(e, on[e], s, f, "none")
               /\ l # "ocoSend"
               /\ s = "FAILED_SAFE" => l = "done"
               /\ "protectionIds" \in f <=> l = "ocoQuery"
    <3>1. PICK s \in TradeStates \ Early, f \in SUBSET Flags :
            /\ BeginWrite(e, on[e], s, f, "none")
            /\ l # "ocoSend"
            /\ s = "FAILED_SAFE" => l = "done"
            /\ "protectionIds" \in f <=> l = "ocoQuery"
      BY <2>2
    <3>2. w'[e] = [step |-> "get", intent |-> on[e], index |-> <<>>,
                   row |-> [state |-> s, flags |-> f, exit |-> "none"]]
      BY <1>1, <3>1, RecordFacts DEF BeginWrite
    <3>3. s = "FAILED_SAFE" => Over(on[e])'
      BY <1>1, <1>4, <3>1, RecordFacts DEF Over, OwnersDiffer
    <3>4. WriteTells(e)'
      BY <1>1, <1>4, <3>1, <3>2, <3>3 DEF WriteTells, HasIds, Safe
    <3>5. OwnerTells(e)'
      BY <1>1, <1>4, <3>1, <3>2 DEF OwnerTells, Landed, Ready, HasIds
    <3> QED BY <3>4, <3>5
  <2> QED BY <1>2, <2>1, <2>2
<1>9. ASSUME NEW f \in Executors \ {e} PROVE OwnerTells(f)'
  BY <1>3, <1>5, OwnerKeeps, RecordFacts
<1>10. ASSUME NEW r \in Reconcilers PROVE RunTells(r)'
  BY <1>1, <1>3, <1>5, RunTellsKeeps, RecordFacts
<1> QED BY <1>6, <1>7, <1>8, <1>9, <1>10, AllTell

\* A free row was never written to, and nothing was ever sent for it.
LEMMA FreeIsFresh ==
    ASSUME SaleInv, NEW i \in Intents, trade[i].state = "NONE"
    PROVE  trade[i].flags = {} /\ ~Submitted("buy", i) /\ ~Submitted("oco", i)
<1>1. posts[i] = 0 BY SaleFacts, EntryFacts DEF UnclaimedIsUnsent
<1>2. net["buy"][i] = "none" /\ buy[i].status \notin TerminalEntry
  BY <1>1, SaleFacts, BookFacts DEF EntryIsAccepted
<1>3. trade[i].flags = {} BY <1>2, SaleFacts DEF RowsAreTrue, Truthful
<1>4. ~Submitted("oco", i) BY <1>2, SaleFacts DEF SaleFollowsFinalEntry, Kinds
<1> QED BY <1>2, <1>3, <1>4 DEF Submitted

LEMMA ClaimTold ==
    ASSUME RecordInv, NEW e \in Executors, NEW i \in Intents, ClaimIntent(e, i), SaleInv'
    PROVE  RecordInv'
<1>1. /\ e \in Procs /\ e \notin Reconcilers
      /\ pc[e] = "idle" /\ on[e] = NoIntent /\ trade[i].state = "NONE"
      /\ trade' = [trade EXCEPT ![i] = [NoRow EXCEPT !.state = "SIGNAL_CREATED"]]
      /\ on' = [on EXCEPT ![e] = i]
      /\ pc' = [pc EXCEPT ![e] = "reconcile"]
      /\ w' = [w EXCEPT ![e] = [step |-> "get", intent |-> i, index |-> <<>>,
                  row |-> [state |-> "APPROVED", flags |-> {}, exit |-> "none"]]]
      /\ rc' = rc /\ net' = net
  BY RecordFacts, SaleFacts
     DEF ClaimIntent, ClaimRow, At, Goto, BeginWrite, exchangeVars, IdleOwnsNothing
<1>2. trade[i].flags = {} /\ ~Submitted("buy", i) /\ ~Submitted("oco", i)
  BY <1>1, FreeIsFresh, RecordFacts
<1>3. \A q \in Procs \ {e} : UNCHANGED <<w[q], pc[q], on[q]>> BY <1>1, RecordFacts
<1>4. \A j \in Intents \ {i} : trade'[j] = trade[j] BY <1>1, RecordFacts
<1>5. trade'[i] = [NoRow EXCEPT !.state = "SIGNAL_CREATED"] BY <1>1, RecordFacts
<1>6. pc'[e] = "reconcile" /\ on'[e] = i BY <1>1, RecordFacts
<1>7. RowsGrow
  <2>1. \A j \in Intents \ {i} : Over(j) => Over(j)'
    BY <1>3, <1>6, RecordFacts DEF Over
  <2> QED BY <1>1, <1>2, <1>4, <2>1 DEF RowsGrow, HasIds, Early
<1>8. ASSUME NEW j \in Intents PROVE RowTells(j)'
  <2>1. CASE j = i
    BY <1>1, <1>2, <1>5, <2>1 DEF RowTells, Submitted, NoRow
  <2>2. CASE j # i BY <1>1, <1>4, <1>7, <2>2, RowKeeps DEF Submitted
  <2> QED BY <2>1, <2>2
<1>9. ASSUME NEW q \in Procs \ {e} PROVE WriteTells(q)'
  <2>1. ~Ready(q) => w[q].intent \in Intents \ {i} BY <1>1, RecordFacts
  <2> QED BY <1>3, <1>4, <1>7, <2>1, WriteKeeps
<1>10. WriteTells(e)' BY <1>1, <1>6, RecordFacts DEF WriteTells, HasIds
<1>11. ASSUME NEW f \in Executors PROVE OwnerTells(f)'
  <2>1. CASE f = e BY <1>6, <2>1 DEF OwnerTells
  <2>2. CASE f # e BY <1>3, <1>7, <2>2, OwnerKeeps, RecordFacts
  <2> QED BY <2>1, <2>2
<1>12. ASSUME NEW r \in Reconcilers PROVE RunTells(r)'
  BY <1>1, <1>3, <1>7, RunTellsKeeps, RecordFacts
<1> QED BY <1>8, <1>9, <1>10, <1>11, <1>12, AllTell

LEMMA DuplicateTold ==
    ASSUME RecordInv, NEW e \in Executors, NEW i \in Intents, DuplicateIntent(e, i), SaleInv'
    PROVE  RecordInv'
<1>1. /\ e \in Procs /\ e \notin Reconcilers
      /\ pc[e] = "idle" /\ on[e] = NoIntent /\ Ready(e)
      /\ pc' = [pc EXCEPT ![e] = "done"]
      /\ UNCHANGED <<trade, w, on, rc, net>>
  BY RecordFacts, SaleFacts
     DEF DuplicateIntent, At, Return, Goto, NoWrite, storeVars, ExecutorFrame, exchangeVars,
         IdleOwnsNothing
<1>2. \A q \in Procs \ {e} : UNCHANGED <<w[q], pc[q], on[q]>> BY <1>1, RecordFacts
<1>3. pc'[e] = "done" /\ Ready(e)' BY <1>1, RecordFacts DEF Ready
<1>4. RowsGrow
  <2>1. \A j \in Intents : Over(j) => Over(j)' BY <1>1, <1>2, <1>3, RecordFacts DEF Over
  <2> QED BY <1>1, <2>1 DEF RowsGrow, HasIds
<1>5. ASSUME NEW j \in Intents PROVE RowTells(j)' BY <1>1, <1>4, RowKeeps DEF Submitted
<1>6. ASSUME NEW q \in Procs PROVE WriteTells(q)'
  <2>1. CASE q = e BY <1>3, <2>1 DEF WriteTells
  <2>2. CASE q # e BY <1>1, <1>2, <1>4, <2>2, WriteKeeps
  <2> QED BY <2>1, <2>2
<1>7. ASSUME NEW f \in Executors PROVE OwnerTells(f)'
  <2>1. CASE f = e BY <1>3, <2>1 DEF OwnerTells
  <2>2. CASE f # e BY <1>2, <1>4, <2>2, OwnerKeeps, RecordFacts
  <2> QED BY <2>1, <2>2
<1>8. ASSUME NEW r \in Reconcilers PROVE RunTells(r)'
  BY <1>1, <1>2, <1>4, RunTellsKeeps, RecordFacts
<1> QED BY <1>5, <1>6, <1>7, <1>8, AllTell


\* What a run of the reconciler has read, and why it may write.
LEMMA RunRecords ==
    ASSUME RecordInv, NEW r \in Reconcilers, ReconcilerStep(r), RowsGrow
    PROVE  /\ RunTells(r)'
           /\ \/ w' = w
              \/ /\ on[r] \in Intents /\ Safe(on[r]) /\ on' = on
                 /\ \E s \in {"EXITED", "FAILED_SAFE"}, f \in {{}, Position}, x \in Exits :
                      BeginWrite(r, on[r], s, f, x)
<1>0. /\ r \in Procs /\ RunTells(r) /\ rc \in [Reconcilers -> ReconcilerLocals]
      /\ pc[r] \notin {"idle", "next"} => on[r] \in Intents
      /\ trade' = trade
  <2>1. TypeInv BY RecordFacts
  <2>2. RunStep(r) BY <2>1, ReconcilerStepIs
  <2> QED BY <2>1, <2>2, RecordFacts, RunLocals DEF RunStep, storeVars
<1>1. pc[r] \in Booked \cup {"reads"} =>
        on[r] \in Intents /\ trade[on[r]].state # "NONE"
  BY RecordFacts
<1> USE DEF At, Goto
<1>2. CASE StartRun(r) \/ NextIntent(r) \/ ReadFails(r)
  <2>1. pc'[r] \in {"idle", "next", "row"} /\ w' = w
    BY <1>0, <1>2, RecordFacts DEF StartRun, NextIntent, ReadFails, NoWrite, storeVars
  <2> QED BY <2>1 DEF RunTells, Booked
<1>3. CASE ReadRow(r)
  <2>1. w' = w /\ on' = on BY <1>3 DEF ReadRow, NoWrite, storeVars
  <2>2. CASE trade[on[r]].state \in Reconcilable
    <3> DEFINE row == trade[on[r]]
               snap == IF HasIds(row) THEN Unread ELSE UnreadNoIds
    <3>1. pc'[r] = "reads" /\ rc' = [rc EXCEPT ![r].row = row, ![r].snap = snap]
      BY <1>0, <1>3, <2>2, RecordFacts DEF ReadRow, HasIds
    <3>2. rc'[r].row = row /\ rc'[r].snap = snap
      BY <1>0, <3>1 DEF ReconcilerLocals
    <3>3. PICK i \in Intents : i = on[r] BY <1>0, <1>3 DEF ReadRow
    <3>4. row.state = "FAILED_SAFE" => Safe(i)'
      <4>1. row = trade[i] /\ RowTells(i) BY <3>3, RecordFacts
      <4>2. row.state = "FAILED_SAFE" => trade[i].state # "NONE" /\ Safe(i)
        BY <4>1 DEF RowTells
      <4> QED BY <4>2, SafeKeeps
    <3>5. ~HasIds(row) => snap.list = "ABSENT" /\ snap.tp = "ABSENT" /\ snap.sl = "ABSENT"
      BY DEF UnreadNoIds
    <3>6. row = trade'[i] /\ on'[r] = i BY <1>0, <2>1, <3>3
    <3> HIDE DEF row, snap
    <3> QED BY <2>1, <3>1, <3>2, <3>4, <3>5, <3>6 DEF RunTells, Booked, HasIds, Safe, Over
  <2>3. CASE trade[on[r]].state \notin Reconcilable
    BY <1>0, <1>3, <2>1, <2>3, RecordFacts DEF ReadRow, RunTells, Booked
  <2> QED BY <2>1, <2>2, <2>3
<1>4. CASE ReadExchange(r)
  <2> DEFINE snap == rc[r].snap
  <2>1. w' = w /\ on' = on /\ pc' = pc /\ pc[r] = "reads" /\ on[r] \in Intents
    BY <1>0, <1>4 DEF ReadExchange, ReadOne, NoWrite, storeVars
  <2>2. snap \in Snapshots BY <1>0 DEF ReconcilerLocals
  <2>3. PICK new : rc' = [rc EXCEPT ![r].snap = new] /\
          \/ new = [snap EXCEPT !.list = ListStatus(on[r])] /\ snap.list = "unread"
          \/ new = [snap EXCEPT !.tp = LegStatus(on[r], "TP")] /\ snap.tp = "unread"
          \/ new = [snap EXCEPT !.sl = LegStatus(on[r], "SL")] /\ snap.sl = "unread"
          \/ new = [snap EXCEPT !.base = BaseBalance(on[r])] /\ snap.base = "unread"
    BY <1>4 DEF ReadExchange, ReadOne
  <2>4. rc'[r].snap = new /\ rc'[r].row = rc[r].row
    BY <1>0, <2>3 DEF ReconcilerLocals
  <2>5. ~HasIds(rc[r].row) => new.list = "ABSENT" /\ new.tp = "ABSENT" /\ new.sl = "ABSENT"
    BY <1>0, <2>1, <2>2, <2>3 DEF RunTells, Snapshots
  <2>6. PICK i \in Intents : i = on[r] BY <2>1
  <2>7. rc[r].row.state = "FAILED_SAFE" => Safe(i)'
    <3>1. trade[i].state # "NONE" BY <1>1, <2>1, <2>6
    <3>2. rc[r].row.state = "FAILED_SAFE" => Safe(i) BY <1>0, <2>1, <2>6 DEF RunTells
    <3> QED BY <3>1, <3>2, SafeKeeps
  <2> QED BY <1>0, <2>1, <2>4, <2>5, <2>6, <2>7 DEF RunTells, Booked, HasIds, Safe, Over
<1>5. CASE Decide(r)
  <2>1. on[r] \in Intents /\ pc[r] = "reads" /\ UNCHANGED <<on, rc>>
    BY <1>0, <1>5 DEF Decide
  <2>2. /\ rc[r].row.state = "FAILED_SAFE" => Safe(on[r])
        /\ ProtectionGone(rc[r].snap) => HasIds(trade[on[r]])
        /\ Matched(rc[r].snap) => HasIds(trade[on[r]])
    BY <1>0, <2>1 DEF RunTells, ProtectionGone, Matched
  <2>3. /\ pc'[r] \in {"next", "trades"}
        /\ pc'[r] = "trades" => Matched(rc[r].snap)
    BY <1>0, <1>5, RecordFacts DEF Decide
  <2>4. \/ w' = w
        \/ /\ \/ BeginWrite(r, on[r], "EXITED", {}, "external")
              \/ BeginWrite(r, on[r], "FAILED_SAFE", Position, "none")
           /\ Safe(on[r])
    BY <1>5, <2>2 DEF Decide, Safe
  <2>5. RunTells(r)' BY <1>0, <2>1, <2>2, <2>3 DEF RunTells, Booked, HasIds
  <2>6. "external" \in Exits /\ "none" \in Exits BY DEF Exits
  <2> QED BY <2>1, <2>4, <2>5, <2>6
<1>6. CASE ReadTrades(r) \/ ClaimFinalize(r) \/ ClaimPnl(r) \/ DailyGet(r) \/ DailyPut(r)
  <2>1. on[r] \in Intents /\ HasIds(trade[on[r]]) /\ on' = on
    BY <1>0, <1>6
       DEF RunTells, Booked, ReadTrades, ClaimFinalize, ClaimPnl, DailyGet, DailyPut
  <2>2. pc'[r] # "reads"
    BY <1>0, <1>6, RecordFacts
       DEF ReadTrades, ClaimFinalize, ClaimPnl, DailyGet, DailyPut, WriteExit
  <2>3. RunTells(r)' BY <1>0, <2>1, <2>2 DEF RunTells, HasIds
  <2>4. w' = w \/ BeginWrite(r, on[r], "EXITED", {}, rc[r].pnl)
    BY <1>6
       DEF ReadTrades, ClaimFinalize, ClaimPnl, DailyGet, DailyPut, WriteExit, NoWrite, storeVars
  <2>5. rc[r].pnl \in Exits BY <1>0 DEF ReconcilerLocals
  <2> QED BY <2>1, <2>3, <2>4, <2>5 DEF Safe
<1> QED BY <1>2, <1>3, <1>4, <1>5, <1>6 DEF ReconcilerStep

LEMMA ReconcilerTold ==
    ASSUME RecordInv, NEW r \in Reconcilers, ReconcilerStep(r), SaleInv'
    PROVE  RecordInv'
<1>0. r \in Procs /\ r \notin Executors BY RecordFacts
<1>1. RunStep(r) BY RecordFacts, ReconcilerStepIs
<1>2. net' = net /\ trade' = trade
  BY <1>1 DEF RunStep, storeVars, exchangeVars
<1>3. \A q \in Procs \ {r} : UNCHANGED <<w[q], pc[q], on[q]>>
  BY <1>0, <1>1, RecordFacts DEF RunStep, storeVars, BeginWrite
<1>4. RowsGrow
  <2>1. \A e \in Executors : UNCHANGED <<pc[e], on[e]>> BY <1>0, <1>3, RecordFacts
  <2> QED BY <1>2, <2>1 DEF RowsGrow, Over, HasIds
<1>5. ASSUME NEW i \in Intents PROVE RowTells(i)' BY <1>2, <1>4, RowKeeps DEF Submitted
<1>6. ASSUME NEW q \in Procs \ {r} PROVE WriteTells(q)'
  BY <1>2, <1>3, <1>4, WriteKeeps
<1>7. /\ RunTells(r)'
      /\ \/ w' = w
         \/ /\ on[r] \in Intents /\ Safe(on[r]) /\ on' = on
            /\ \E s \in {"EXITED", "FAILED_SAFE"}, f \in {{}, Position}, x \in Exits :
                 BeginWrite(r, on[r], s, f, x)
  BY <1>4, RunRecords
<1>8. WriteTells(r)'
  <2>1. CASE w' = w
    <3>1. Ready(r)' BY <1>1, <2>1 DEF RunStep, Ready
    <3> QED BY <3>1 DEF WriteTells
  <2>2. CASE w' # w
    <3>1. PICK s \in {"EXITED", "FAILED_SAFE"}, f \in {{}, Position}, x \in Exits :
            BeginWrite(r, on[r], s, f, x)
      BY <1>7, <2>2
    <3>2. w'[r] = [step |-> "get", intent |-> on[r], index |-> <<>>,
                   row |-> [state |-> s, flags |-> f, exit |-> x]]
      BY <1>0, <3>1, RecordFacts DEF BeginWrite
    <3>3. PICK i \in Intents : i = on[r] /\ Safe(i) BY <1>7, <2>2
    <3>4. trade[i].state # "NONE"
      <4>1. pc[r] \in Booked \cup {"reads"}
        BY <1>1, <2>2 DEF RunStep, storeVars, Holding, Booked
      <4> QED BY <3>3, <4>1, RecordFacts
    <3>5. Safe(i)' BY <1>4, <3>3, <3>4, SafeKeeps
    <3>6. w'[r].intent = i BY <3>2, <3>3
    <3>7. ~HasIds(w'[r].row) /\ w'[r].row.state \notin Early /\ w'[r].step = "get"
      BY <3>1, <3>2 DEF HasIds, Position, Early
    <3> QED BY <1>0, <3>5, <3>6, <3>7 DEF WriteTells, HasIds, Safe, Over
  <2> QED BY <2>1, <2>2
<1>9. ASSUME NEW e \in Executors PROVE OwnerTells(e)'
  BY <1>0, <1>3, <1>4, OwnerKeeps, RecordFacts
<1>10. ASSUME NEW q \in Reconcilers \ {r} PROVE RunTells(q)'
  <2>1. UNCHANGED <<pc[q], rc[q], on[q]>> BY OtherRuns, RecordFacts
  <2> QED BY <1>4, <2>1, RunTellsKeeps
<1> QED BY <1>5, <1>6, <1>7, <1>8, <1>9, <1>10, AllTell


\* The row as it was read, merged with the patch.
LEMMA GetTold ==
    ASSUME RecordInv, NEW p \in Procs, WriteGet(p), UNCHANGED <<pc, on, rc, net>>, SaleInv'
    PROVE  RecordInv'
<1>1. /\ ~Ready(p) /\ w[p] \in Calls /\ w[p].intent \in Intents /\ w[p].row \in Rows
      /\ w[p].step = "get" /\ trade' = trade
  BY RecordFacts DEF WriteGet, Ready
<1>2. PICK i \in Intents : i = w[p].intent BY <1>1
<1>3. /\ w'[p].step = "put" /\ w'[p].intent = i
      /\ w'[p].row = Merge(trade[i], w[p].row)
      /\ \A q \in Procs \ {p} : w'[q] = w[q]
  BY <1>1, <1>2, RecordFacts DEF WriteGet, Calls
<1>4. /\ w'[p].row.state = w[p].row.state
      /\ HasIds(w'[p].row) <=> HasIds(trade[i]) \/ HasIds(w[p].row)
  BY <1>3 DEF Merge, HasIds
<1>5. RowsGrow BY <1>1 DEF RowsGrow, Over, HasIds
<1>6. ASSUME NEW j \in Intents PROVE RowTells(j)' BY <1>1, <1>5, RowKeeps DEF Submitted
<1>7. ASSUME NEW q \in Procs PROVE WriteTells(q)'
  <2>1. CASE q = p
    <3>1. WriteTells(p) /\ trade[i].state # "NONE" BY <1>1, <1>2, RecordFacts
    <3>2. Safe(i) => Safe(i)' BY <1>5, <3>1, SafeKeeps
    <3>3. /\ w[p].row.state \in Early => p \in Executors /\ pc[p] = "reconcile"
          /\ p \in Executors => i = on[p]
          /\ p \in Reconcilers => Safe(i)
          /\ HasIds(w[p].row) => HasIds(trade[i]) \/ (p \in Executors /\ pc[p] = "ocoQuery")
          /\ w[p].row.state = "FAILED_SAFE" => Safe(i)
      BY <1>1, <1>2, <3>1 DEF WriteTells
    <3> QED BY <1>1, <1>3, <1>4, <2>1, <3>2, <3>3 DEF WriteTells, HasIds, Safe, Over
  <2>2. CASE q # p BY <1>1, <1>3, <1>5, <2>2, WriteKeeps
  <2> QED BY <2>1, <2>2
<1>8. ASSUME NEW e \in Executors PROVE OwnerTells(e)'
  <2>1. CASE e = p
    <3>1. OwnerTells(p) /\ ~Landed(p) /\ ~Landed(p)'
      BY <1>1, <1>3, <2>1, RecordFacts DEF Landed, Ready
    <3> QED BY <1>4, <2>1, <3>1 DEF OwnerTells, HasIds
  <2>2. CASE e # p BY <1>3, <1>5, <2>2, OwnerKeeps, RecordFacts
  <2> QED BY <2>1, <2>2
<1>9. ASSUME NEW r \in Reconcilers PROVE RunTells(r)' BY <1>5, RunTellsKeeps
<1> QED BY <1>6, <1>7, <1>8, <1>9, AllTell

\* The row put back: whoever read it before the ids were there is the executor
\* that brings them, or may write without them because the call is over.
LEMMA PutTold ==
    ASSUME RecordInv, NEW p \in Procs, WritePut(p), UNCHANGED <<pc, on, rc, net>>, SaleInv'
    PROVE  RecordInv'
<1>1. /\ ~Ready(p) /\ w[p] \in Calls /\ w[p].intent \in Intents /\ w[p].row \in Rows
      /\ w[p].step = "put"
  BY RecordFacts DEF WritePut, Ready
<1>2. PICK i \in Intents : i = w[p].intent BY <1>1
<1>3. /\ w'[p].step = "ixget" /\ w'[p].intent = i /\ w'[p].row = w[p].row
      /\ \A q \in Procs \ {p} : w'[q] = w[q]
      /\ trade'[i] = w[p].row
      /\ \A j \in Intents \ {i} : trade'[j] = trade[j]
  BY <1>1, <1>2, RecordFacts DEF WritePut, Calls
<1>4. /\ w[p].row.state \in Early => p \in Executors /\ pc[p] = "reconcile"
      /\ p \in Executors => i = on[p]
      /\ p \in Reconcilers => Safe(i)
      /\ HasIds(trade[i]) => HasIds(w[p].row)
      /\ HasIds(w[p].row) => HasIds(trade[i]) \/ (p \in Executors /\ pc[p] = "ocoQuery")
      /\ w[p].row.state = "FAILED_SAFE" => Safe(i)
  <2>1. WriteTells(p) BY RecordFacts
  <2> QED BY <1>1, <1>2, <2>1 DEF WriteTells
<1>5. RowsGrow BY <1>3, <1>4 DEF RowsGrow, Over, HasIds
<1>6. trade[i].state # "NONE" BY <1>1, <1>2, RecordFacts
<1>7. Safe(i) => Safe(i)' BY <1>5, <1>6, SafeKeeps
<1>8. ASSUME NEW j \in Intents PROVE RowTells(j)'
  <2>1. CASE j = i
    <3>1. RowTells(i) BY RecordFacts
    <3>2. w[p].row.state \in Early => ~Submitted("buy", i)
      <4>1. ASSUME w[p].row.state \in Early PROVE posts[i] = 0
        BY <1>4, <4>1, RecordFacts, SaleFacts DEF OwnerSendsOnce, BeforeEntry
      <4> QED BY <4>1, RecordFacts, SaleFacts DEF EntryIsAccepted, Submitted
    <3> QED BY <1>3, <1>4, <1>7, <2>1, <3>1, <3>2 DEF RowTells, Submitted, HasIds
  <2>2. CASE j # i BY <1>3, <1>5, <2>2, RowKeeps DEF Submitted
  <2> QED BY <2>1, <2>2
<1>9. ASSUME NEW q \in Procs PROVE WriteTells(q)'
  <2>1. CASE q = p
    BY <1>1, <1>3, <1>4, <1>7, <2>1 DEF WriteTells, HasIds, Safe, Over
  <2>2. CASE q # p
    <3>1. ASSUME ~Ready(q), w[q].intent = i, HasIds(trade'[i]), ~HasIds(trade[i])
          PROVE  FALSE
      <4>1. p \in Executors /\ pc[p] = "ocoQuery" /\ on[p] = i
        BY <1>3, <1>4, <3>1 DEF HasIds
      <4>2. WriteTells(q) /\ q \in Executors \cup Reconcilers BY RecordFacts
      <4>3. q \in Executors => on[q] = i BY <3>1, <4>2 DEF WriteTells
      <4>4. q \notin Executors BY <2>2, <4>1, <4>3, RecordFacts, SaleFacts DEF OwnersDiffer
      <4>5. Safe(i) BY <3>1, <4>2, <4>4 DEF WriteTells
      <4> QED BY <3>1, <4>1, <4>5 DEF Safe, Over
    <3>2. ~Ready(q) => w[q].intent \in Intents BY RecordFacts
    <3>3. ~Ready(q) /\ HasIds(trade'[w[q].intent]) => HasIds(trade[w[q].intent])
      BY <1>3, <3>1, <3>2
    <3> QED BY <1>3, <1>5, <2>2, <3>3, WriteKeeps
  <2> QED BY <2>1, <2>2
<1>10. ASSUME NEW e \in Executors PROVE OwnerTells(e)'
  <2>1. CASE e = p
    <3>1. OwnerTells(p) /\ ~Landed(p) /\ on[p] = i
      BY <1>1, <1>4, <2>1, RecordFacts DEF Landed, Ready
    <3>2. Landed(p)' /\ trade'[on[p]] = w[p].row BY <1>3, <3>1 DEF Landed
    <3>3. pc[p] = "buySend" => w[p].row.state \notin Early BY <1>4
    <3> QED BY <2>1, <3>1, <3>2, <3>3 DEF OwnerTells, HasIds
  <2>2. CASE e # p BY <1>3, <1>5, <2>2, OwnerKeeps, RecordFacts
  <2> QED BY <2>1, <2>2
<1>11. ASSUME NEW r \in Reconcilers PROVE RunTells(r)' BY <1>5, RunTellsKeeps
<1> QED BY <1>8, <1>9, <1>10, <1>11, AllTell

\* The index follows the row.
LEMMA IndexTold ==
    ASSUME RecordInv, NEW p \in Procs, IndexGet(p) \/ IndexPut(p),
           UNCHANGED <<pc, on, rc, net>>, SaleInv'
    PROVE  RecordInv'
<1>1. /\ ~Ready(p) /\ w[p] \in Calls /\ w[p].intent \in Intents /\ trade' = trade
      /\ w[p].step \in {"ixget", "ixput"}
  BY RecordFacts DEF IndexGet, IndexPut, Ready
<1>2. /\ \A q \in Procs \ {p} : w'[q] = w[q]
      /\ \/ Ready(p)'
         \/ w'[p].step = "ixput" /\ w'[p].intent = w[p].intent /\ w'[p].row = w[p].row
  <2>1. NoCall.step = "none" BY RecordFacts, EntryFacts
  <2> QED BY <1>1, <2>1, RecordFacts DEF IndexGet, IndexPut, Calls, Ready
<1>3. RowsGrow BY <1>1 DEF RowsGrow, Over, HasIds
<1>4. ASSUME NEW j \in Intents PROVE RowTells(j)' BY <1>1, <1>3, RowKeeps DEF Submitted
<1>5. ASSUME NEW q \in Procs PROVE WriteTells(q)'
  <2>1. CASE q = p
    <3>1. CASE Ready(p)' BY <2>1, <3>1 DEF WriteTells
    <3>2. CASE w'[p].step = "ixput" /\ w'[p].intent = w[p].intent /\ w'[p].row = w[p].row
      <4>1. PICK i \in Intents : i = w[p].intent BY <1>1
      <4>2. WriteTells(p) /\ trade[i].state # "NONE" BY <1>1, <4>1, RecordFacts
      <4>3. Safe(i) => Safe(i)' BY <1>3, <4>2, SafeKeeps
      <4> QED BY <1>1, <2>1, <3>2, <4>1, <4>2, <4>3 DEF WriteTells, HasIds, Safe, Over
    <3> QED BY <1>2, <3>1, <3>2
  <2>2. CASE q # p BY <1>1, <1>2, <1>3, <2>2, WriteKeeps
  <2> QED BY <2>1, <2>2
<1>6. ASSUME NEW e \in Executors PROVE OwnerTells(e)'
  <2>1. CASE e = p
    <3>1. OwnerTells(p) /\ Landed(p) /\ Landed(p)'
      BY <1>1, <1>2, <2>1, RecordFacts DEF Landed
    <3> QED BY <1>1, <2>1, <3>1 DEF OwnerTells, HasIds
  <2>2. CASE e # p BY <1>2, <1>3, <2>2, OwnerKeeps, RecordFacts
  <2> QED BY <2>1, <2>2
<1>7. ASSUME NEW r \in Reconcilers PROVE RunTells(r)' BY <1>3, RunTellsKeeps
<1> QED BY <1>4, <1>5, <1>6, <1>7, AllTell

\* A call that is abandoned is over, and so is its write.
LEMMA UnwindTold ==
    ASSUME RecordInv, NEW p \in Procs, NEW last \in {"done", "crashed"}, NEW ret,
           Unwind(p, last, ret), SaleInv'
    PROVE  RecordInv'
<1>1. /\ trade' = trade /\ net' = net
      /\ w' = [w EXCEPT ![p] = NoCall]
      /\ \A q \in Procs \ {p} : UNCHANGED <<pc[q], on[q]>>
      /\ \A r \in Reconcilers \ {p} : UNCHANGED rc[r]
      /\ p \in Executors => pc'[p] \in {"done", "crashed"} /\ on'[p] = on[p]
      /\ p \in Reconcilers => pc'[p] = "idle"
  BY RecordFacts DEF Unwind, DropWrite, exchangeVars
<1>2. Ready(p)' /\ \A q \in Procs \ {p} : w'[q] = w[q]
  BY <1>1, RecordFacts, EntryFacts DEF Ready
<1>3. RowsGrow
  <2>1. \A j \in Intents : Over(j) => Over(j)' BY <1>1, RecordFacts DEF Over
  <2> QED BY <1>1, <2>1 DEF RowsGrow, HasIds
<1>4. ASSUME NEW j \in Intents PROVE RowTells(j)' BY <1>1, <1>3, RowKeeps DEF Submitted
<1>5. ASSUME NEW q \in Procs PROVE WriteTells(q)'
  <2>1. CASE q = p BY <1>2, <2>1 DEF WriteTells
  <2>2. CASE q # p BY <1>1, <1>2, <1>3, <2>2, WriteKeeps
  <2> QED BY <2>1, <2>2
<1>6. ASSUME NEW e \in Executors PROVE OwnerTells(e)'
  <2>1. CASE e = p BY <1>1, <2>1 DEF OwnerTells
  <2>2. CASE e # p BY <1>1, <1>2, <1>3, <2>2, OwnerKeeps, RecordFacts
  <2> QED BY <2>1, <2>2
<1>7. ASSUME NEW r \in Reconcilers PROVE RunTells(r)'
  <2>1. CASE r = p BY <1>1, <2>1 DEF RunTells, Booked
  <2>2. CASE r # p BY <1>1, <1>3, <2>2, RunTellsKeeps, RecordFacts
  <2> QED BY <2>1, <2>2
<1> QED BY <1>4, <1>5, <1>6, <1>7, AllTell

\* Steps that leave the store and every process alone and send nothing.
LEMMA StillTold ==
    ASSUME RecordInv, UNCHANGED <<trade, w, pc, on, rc>>, SaleInv',
           \A i \in Intents, k \in {"buy", "oco"} : Submitted(k, i)' => Submitted(k, i)
    PROVE  RecordInv'
<1>1. RowsGrow BY DEF RowsGrow, Over, HasIds
<1>2. ASSUME NEW j \in Intents PROVE RowTells(j)' BY <1>1, RowKeeps
<1>3. ASSUME NEW q \in Procs PROVE WriteTells(q)' BY <1>1, WriteKeeps
<1>4. ASSUME NEW e \in Executors PROVE OwnerTells(e)' BY <1>1, OwnerKeeps
<1>5. ASSUME NEW r \in Reconcilers PROVE RunTells(r)' BY <1>1, RunTellsKeeps
<1> QED BY <1>2, <1>3, <1>4, <1>5, AllTell

LEMMA RecordInit == ASSUME Init PROVE RecordInv
<1>1. SaleInv BY SaleInit
<1>2. /\ Executors \subseteq Procs /\ Reconcilers \subseteq Procs
      /\ \A p \in Procs : pc[p] = "idle" /\ Ready(p)
      /\ \A i \in Intents : /\ trade[i].state = "NONE"
                            /\ ~Submitted("buy", i) /\ ~Submitted("oco", i)
  BY LiveAssumption
     DEF LiveAssumption, Init, StoreInit, ExchangeInit, Ready, NoCall, NoRow, Submitted, Kinds
<1> QED BY <1>1, <1>2
    DEF RecordInv, RowTells, WriteTells, OwnerTells, RunTells, Booked

LEMMA RecordStep == ASSUME RecordInv, [Next]_vars PROVE RecordInv'
<1>0. SaleInv' BY SaleStep, RecordFacts
<1>1. ASSUME NEW e \in Executors, ExecutorStep(e) PROVE RecordInv'
  BY <1>0, <1>1, ExecutorRecords, RecordedTold, ClaimTold, DuplicateTold, RecordFacts
<1>2. ASSUME NEW r \in Reconcilers, ReconcilerStep(r) PROVE RecordInv'
  BY <1>0, <1>2, ReconcilerTold
<1>3. ASSUME NEW p \in Procs, WriteStep(p) PROVE RecordInv'
  <2>1. UNCHANGED <<pc, on, rc, net>> BY <1>3 DEF WriteStep, locals, exchangeVars
  <2> QED BY <1>0, <1>3, <2>1, GetTold, PutTold, IndexTold DEF WriteStep, StoreStep
<1>4. ASSUME NEW p \in Procs, WriteRefused(p) \/ Crash(p) PROVE RecordInv'
  BY <1>0, <1>4, UnwindTold DEF WriteRefused, Crash
<1>5. ASSUME NEW i \in Intents, Environment(i) PROVE RecordInv'
  <2>1. ExchangeTypeOK BY RecordFacts, SaleFacts
  <2>2. \A j \in Intents : \A k \in Kinds : net'[k][j] = "none" <=> net[k][j] = "none"
    BY <1>5, <2>1, BookFacts
       DEF Environment, ExchangeStep, Reject, AcceptBuy, FillBuy, ExpireBuy, AcceptOco,
           ExecuteOco, AcceptEmergency, OwnerCancelsOco, OwnerSells, Answer,
           ExchangeTypeOK, Kinds
  <2>3. \A j \in Intents, k \in {"buy", "oco"} : Submitted(k, j)' => Submitted(k, j)
    BY <2>2 DEF Submitted, Kinds
  <2>4. UNCHANGED <<trade, w, pc, on, rc>> BY <1>5 DEF Environment, storeVars, locals
  <2> QED BY <1>0, <2>3, <2>4, StillTold
<1>6. CASE UNCHANGED vars
  <2>1. UNCHANGED <<trade, w, pc, on, rc, net>>
    BY <1>6 DEF vars, storeVars, locals, exchangeVars
  <2>2. \A j \in Intents, k \in {"buy", "oco"} : Submitted(k, j)' => Submitted(k, j)
    BY <2>1 DEF Submitted
  <2> QED BY <1>0, <2>1, <2>2, StillTold
<1> QED BY <1>1, <1>2, <1>3, <1>4, <1>5, <1>6 DEF Next

\* Whatever was sent can be found again from the durable row: the entry leaves
\* only after its row has left APPROVED, and the protective list only after its
\* client ids are in the row; no stale row that another process puts back takes
\* either away, and no worker that dies between two calls leaves an order that
\* the store does not know of.
THEOREM OrdersAreOnRecord == Spec => []OrderIsOnRecord
<1>1. RecordInv => OrderIsOnRecord
  BY RecordFacts DEF RowTells, OrderIsOnRecord, HasIds, Early
<1> QED BY <1>1, RecordInit, RecordStep, PTL DEF Spec

-----------------------------------------------------------------------------
(* Refinement: without a reconciler the rows and the orders follow the      *)
(* abstract lifecycle.  An intent has one writer, its owner: where its call *)
(* stands says what the row says once the write under way has landed, and   *)
(* the write under way leads from the row that is there.                    *)

BeforeOco ==
    {"reconcile", "buyQuery", "buySend", "buyWait", "buyRequery", "settle", "cancel",
     "finalQuery", "filled", "normalize", "ocoQuery", "ocoSend"}
BeforeEmg == BeforeOco \cup {"ocoWait", "ocoRequery", "emgQuery", "emgSend"}

FillState(order) == IF order.status = "FILLED" THEN "FILLED" ELSE "PARTIALLY_FILLED"

\* The state a row has when the call stands at l, having read the order last so.
Fits(s, l, order) ==
    /\ l \in {"reconcile", "buyQuery"} => s = "APPROVED"
    /\ l \in {"buySend", "buyWait", "buyRequery"} => s = "ENTRY_SUBMITTING"
    /\ l \in {"settle", "cancel", "finalQuery"} => s \in {"ENTRY_SUBMITTING", "ENTRY_ACCEPTED"}
    /\ l \in {"filled", "normalize"} => s = FillState(order)
    /\ l \in {"ocoQuery", "ocoSend", "ocoWait", "ocoRequery",
              "emgQuery", "emgSend", "emgWait", "emgRequery"} => s = "PROTECTION_PENDING"

Follows(t, s) == s = t \/ s \in Lifecycle!Successors[t]

RowFits(e) ==
    LET t == trade[on[e]].state
        s == w[e].row.state
    IN
    /\ Ready(e) => Fits(t, pc[e], ex[e].seen)
    /\ ~Ready(e) => /\ w[e].intent = on[e]
                    /\ Fits(s, pc[e], ex[e].seen)
                    /\ w[e].step \in {"get", "put"} => Follows(t, s)
                    /\ w[e].step \in {"ixget", "ixput"} => t = s

SaleIsFirst(e) ==
    /\ pc[e] \in BeforeOco => ~Submitted("oco", on[e])
    /\ pc[e] \in BeforeEmg => ~Submitted("emg", on[e])

Lives(e) ==
    /\ ~Ready(e) => on[e] \in Intents
    /\ on[e] \in Intents => RowFits(e) /\ SaleIsFirst(e)

LifeInv == SaleInv /\ \A e \in Executors : Lives(e)

\* The steps of the lifecycle.
LEMMA SuccessorsAre ==
    /\ Follows("NONE", "SIGNAL_CREATED")
    /\ Follows("SIGNAL_CREATED", "APPROVED")
    /\ Follows("APPROVED", "ENTRY_SUBMITTING") /\ Follows("APPROVED", "FAILED_SAFE")
    /\ \A s \in {"ENTRY_ACCEPTED", "FAILED_SAFE", "FILLED", "PARTIALLY_FILLED"} :
          Follows("ENTRY_SUBMITTING", s)
    /\ \A s \in {"FAILED_SAFE", "FILLED", "PARTIALLY_FILLED"} : Follows("ENTRY_ACCEPTED", s)
    /\ \A t \in {"FILLED", "PARTIALLY_FILLED"}, s \in {"PROTECTION_PENDING", "FAILED_SAFE"} :
          Follows(t, s)
    /\ \A s \in {"PROTECTED", "FAILED_SAFE"} : Follows("PROTECTION_PENDING", s)
    /\ \A s \in TradeStates : Follows(s, s)
BY DEF Follows, Lifecycle!Successors, Lifecycle!Fills, TradeStates

\* What the executor does to orders: at most the submission its place is for.
LifeMove(e, l) ==
    \/ /\ \A i \in Intents : /\ oco'[i] = "ABSENT" <=> oco[i] = "ABSENT"
                             /\ \A k \in {"oco", "emg"} : Submitted(k, i)' <=> Submitted(k, i)
       /\ posts' = posts
       /\ l \in BeforeOco => pc[e] \in BeforeOco
       /\ l \in BeforeEmg => pc[e] \in BeforeEmg
    \/ pc[e] = "buySend" /\ Send("buy", on[e]) /\ l \in BeforeOco
    \/ pc[e] = "ocoSend" /\ Send("oco", on[e]) /\ l = "ocoWait"
    \/ pc[e] = "emgSend" /\ Send("emg", on[e]) /\ l = "emgWait"

\* What it does to the row: the next write leads on, or the row fits as it is.
LifeWrite(e, l, order) ==
    \/ UNCHANGED storeVars /\ Fits(trade[on[e]].state, l, order)
    \/ \E s \in TradeStates, f \in SUBSET Flags :
          /\ BeginWrite(e, on[e], s, f, "none") /\ UNCHANGED <<trade, index>>
          /\ Follows(trade[on[e]].state, s) /\ Fits(s, l, order)

LifeStep(e) ==
    /\ Ready(e) /\ pc[e] \notin {"idle", "done", "crashed"} /\ on[e] \in Intents
    /\ \E l, x : /\ pc' = [pc EXCEPT ![e] = l]
                 /\ ex' = [ex EXCEPT ![e] = x]
                 /\ LifeMove(e, l)
                 /\ LifeWrite(e, l, x.seen)
    /\ UNCHANGED on

LEMMA LifeFacts ==
    ASSUME LifeInv, NEW e \in Executors, Ready(e), pc[e] \notin {"idle", "done", "crashed"}
    PROVE  /\ SaleInv /\ on[e] \in Intents /\ e \in Procs
           /\ ex \in [Executors -> ExecutorLocals] /\ ex[e] \in ExecutorLocals
           /\ Fits(trade[on[e]].state, pc[e], ex[e].seen)
           /\ pc[e] = "buyQuery" => buy[on[e]].status = "ABSENT"
           /\ pc[e] \in BeforeOco => ~Submitted("oco", on[e])
           /\ pc[e] \in BeforeEmg => ~Submitted("emg", on[e])
<1>1. SaleInv BY DEF LifeInv
<1>2. on[e] \in Intents /\ ex[e] \in ExecutorLocals BY <1>1, OwnerKnows
<1>3. RowFits(e) /\ SaleIsFirst(e) BY <1>2 DEF LifeInv, Lives
<1>4. pc[e] = "buyQuery" => buy[on[e]].status = "ABSENT"
  BY <1>1, <1>2, SaleFacts DEF OwnerSendsOnce, BeforeEntry, EntryIsAccepted, NoOrder
<1> QED BY <1>1, <1>2, <1>3, <1>4, SaleFacts DEF RowFits, SaleIsFirst

\* A final write.
LEMMA FinishIsLife ==
    ASSUME LifeInv, NEW e \in Executors, Ready(e), pc[e] \notin {"idle", "done", "crashed"},
           NEW s \in TradeStates, NEW f \in SUBSET Flags, NEW ret,
           Finish(e, s, f, ret), Follows(trade[on[e]].state, s),
           UNCHANGED exchangeVars, UNCHANGED on
    PROVE  LifeStep(e)
<1>1. /\ pc' = [pc EXCEPT ![e] = "done"] /\ ex' = [ex EXCEPT ![e] = [ex[e] EXCEPT !.ret = ret]]
  BY DEF Finish, Return, Goto
<1>2. LifeMove(e, "done")
  BY DEF LifeMove, exchangeVars, Submitted, BeforeOco, BeforeEmg
<1>3. LifeWrite(e, "done", [ex[e] EXCEPT !.ret = ret].seen)
  BY DEF LifeWrite, Finish, Write, Fits
<1> QED BY <1>1, <1>2, <1>3, LifeFacts DEF LifeStep

\* A step without a write: the row fits where the call goes.
LEMMA QuietIsLife ==
    ASSUME LifeInv, NEW e \in Executors, Ready(e), pc[e] \notin {"idle", "done", "crashed"},
           NoWrite, UNCHANGED on,
           NEW l, NEW x \in ExecutorLocals, Goto(e, l), ex' = [ex EXCEPT ![e] = x],
           Fits(trade[on[e]].state, l, x.seen), LifeMove(e, l)
    PROVE  LifeStep(e)
<1>1. LifeWrite(e, l, x.seen) BY DEF LifeWrite, NoWrite
<1> QED BY <1>1, LifeFacts DEF LifeStep, Goto

\* A return without a write.
LEMMA ReturnIsLife ==
    ASSUME LifeInv, NEW e \in Executors, Ready(e), pc[e] \notin {"idle", "done", "crashed"},
           NoWrite, UNCHANGED on, NEW ret \in Returns, Return(e, ret), LifeMove(e, "done")
    PROVE  LifeStep(e)
<1>1. [ex[e] EXCEPT !.ret = ret] \in ExecutorLocals BY LifeFacts DEF ExecutorLocals
<1>2. Fits(trade[on[e]].state, "done", [ex[e] EXCEPT !.ret = ret].seen) BY DEF Fits
<1> QED BY <1>1, <1>2, QuietIsLife DEF Return

\* A write in the middle.
LEMMA WriteIsLife ==
    ASSUME LifeInv, NEW e \in Executors, Ready(e), pc[e] \notin {"idle", "done", "crashed"},
           NEW s \in TradeStates, NEW f \in SUBSET Flags, Write(e, s, f), UNCHANGED on,
           NEW l, NEW x \in ExecutorLocals, Goto(e, l), ex' = [ex EXCEPT ![e] = x],
           Follows(trade[on[e]].state, s), Fits(s, l, x.seen), UNCHANGED exchangeVars,
           l \in BeforeOco => pc[e] \in BeforeOco, l \in BeforeEmg => pc[e] \in BeforeEmg
    PROVE  LifeStep(e)
<1>1. LifeWrite(e, l, x.seen) BY DEF LifeWrite, Write
<1>2. LifeMove(e, l) BY DEF LifeMove, exchangeVars, Submitted
<1> QED BY <1>1, <1>2, LifeFacts DEF LifeStep, Goto

\* A step that touches neither the store nor what was submitted.
LEMMA MoveIsQuiet ==
    ASSUME LifeInv, NEW e \in Executors, on[e] \in Intents, NEW l,
           UNCHANGED exchangeVars \/ (\E k \in Kinds : GiveUp(k, on[e])) \/ CancelEntry(on[e]),
           l \in BeforeOco => pc[e] \in BeforeOco, l \in BeforeEmg => pc[e] \in BeforeEmg
    PROVE  LifeMove(e, l)
<1>1. ExchangeTypeOK BY SaleFacts DEF LifeInv
<1>2. CASE UNCHANGED exchangeVars BY <1>2 DEF exchangeVars, LifeMove, Submitted
<1>3. CASE \E k \in Kinds : GiveUp(k, on[e])
  BY <1>1, <1>3 DEF GiveUp, LifeMove, Submitted, ExchangeTypeOK, Kinds
<1>4. CASE CancelEntry(on[e]) BY <1>4 DEF CancelEntry, LifeMove, Submitted
<1> QED BY <1>2, <1>3, <1>4

LEMMA GoingIsLife ==
    ASSUME LifeInv, NEW e \in Executors, Ready(e), pc[e] \notin {"idle", "done", "crashed"},
           NoWrite, UNCHANGED <<on, ex>>, NEW l, Goto(e, l),
           Fits(trade[on[e]].state, l, ex[e].seen), LifeMove(e, l)
    PROVE  LifeStep(e)
<1>1. ex' = [ex EXCEPT ![e] = ex[e]] /\ ex[e] \in ExecutorLocals BY LifeFacts
<1> QED BY <1>1, QuietIsLife

LEMMA EntryIsLife ==
    ASSUME LifeInv, NEW e \in Executors,
           \/ PassGate(e) \/ BlockAtGate(e) \/ RefusePreTrade(e)
           \/ BuyQuery(e) \/ BuySend(e) \/ BuyAccepted(e) \/ BuyRejected(e)
           \/ BuyUnknown(e) \/ BuyRequery(e)
    PROVE  LifeStep(e)
<1>1. Ready(e) /\ pc[e] \notin {"idle", "done", "crashed"} /\ UNCHANGED on
  BY DEF PassGate, BlockAtGate, RefusePreTrade, BuyQuery, BuySend, BuyAccepted, BuyRejected,
         BuyUnknown, BuyRequery, At, ExecutorFrame
<1> DEFINE t == trade[on[e]].state
           Look == [ex[e] EXCEPT !.seen = buy[on[e]], !.polls = 0]
<1>2. /\ SaleInv /\ on[e] \in Intents /\ Fits(t, pc[e], ex[e].seen)
      /\ pc[e] = "buyQuery" => buy[on[e]].status = "ABSENT"
  BY <1>1, LifeFacts
<1>3. Look \in ExecutorLocals
  <2>1. 0 \in 0..SettleAttempts BY LiveAssumption DEF LiveAssumption
  <2>2. ex[e] \in ExecutorLocals /\ buy[on[e]] \in Orders BY <1>1, <1>2, OwnerKnows
  <2> QED BY <2>1, <2>2, SeenIsLocal DEF ExecutorLocals
<1>4. /\ {"RECONCILE", "NO_POSITION"} \subseteq Returns
      /\ {"ENTRY_SUBMITTING", "ENTRY_ACCEPTED", "FAILED_SAFE"} \subseteq TradeStates
      /\ {} \in SUBSET Flags
  BY WritesAre DEF Returns
<1>5. "done" \notin BeforeOco /\ "done" \notin BeforeEmg BY DEF BeforeOco, BeforeEmg
<1>6. ASSUME NoWrite, Return(e, "RECONCILE"),
             UNCHANGED exchangeVars \/ (\E k \in Kinds : GiveUp(k, on[e])) \/ CancelEntry(on[e])
      PROVE  LifeStep(e)
  <2>1. LifeMove(e, "done") BY <1>2, <1>5, <1>6, MoveIsQuiet
  <2> QED BY <1>1, <1>4, <1>6, <2>1, ReturnIsLife
<1> HIDE DEF t, Look
<1>7. CASE PassGate(e)
  <2>1. At(e, "reconcile") /\ Goto(e, "buyQuery") /\ NoWrite /\ UNCHANGED <<on, ex>>
        /\ UNCHANGED exchangeVars
    BY <1>7 DEF PassGate, ExecutorFrame
  <2>2. LifeMove(e, "buyQuery")
    BY <1>2, <2>1, MoveIsQuiet DEF At, BeforeOco, BeforeEmg
  <2>3. Fits(t, "buyQuery", ex[e].seen) BY <1>2, <2>1 DEF Fits, At
  <2> QED BY <1>1, <2>1, <2>2, <2>3, GoingIsLife DEF t
<1>8. CASE BlockAtGate(e) \/ RefusePreTrade(e)
  <2>1. At(e, "reconcile") /\ UNCHANGED exchangeVars
        /\ \E ret \in Returns : Finish(e, "FAILED_SAFE", {}, ret)
    BY <1>4, <1>8 DEF BlockAtGate, RefusePreTrade
  <2>2. Follows(t, "FAILED_SAFE") BY <1>2, <2>1, SuccessorsAre DEF Fits, At
  <2> QED BY <1>1, <1>4, <2>1, <2>2, FinishIsLife DEF t
<1>9. CASE BuyQuery(e)
  <2>1. At(e, "buyQuery") /\ UNCHANGED exchangeVars BY <1>9 DEF BuyQuery
  <2>2. CASE Write(e, "ENTRY_SUBMITTING", {}) /\ Goto(e, "buySend") /\ UNCHANGED ex
    <3>1. Follows(t, "ENTRY_SUBMITTING") BY <1>2, <2>1, SuccessorsAre DEF Fits, At
    <3>2. Fits("ENTRY_SUBMITTING", "buySend", ex[e].seen) BY DEF Fits
    <3>3. ex' = [ex EXCEPT ![e] = ex[e]] /\ ex[e] \in ExecutorLocals
      BY <1>1, <2>2, LifeFacts
    <3>4. pc[e] \in BeforeOco /\ pc[e] \in BeforeEmg BY <2>1 DEF At, BeforeOco, BeforeEmg
    <3> QED BY <1>1, <1>4, <2>1, <2>2, <3>1, <3>2, <3>3, <3>4, WriteIsLife DEF t
  <2>3. CASE Return(e, "RECONCILE") /\ NoWrite BY <1>6, <2>1, <2>3
  <2> QED BY <1>2, <1>9, <2>1, <2>2, <2>3 DEF BuyQuery, At
<1>10. CASE BuySend(e)
  <2>1. At(e, "buySend") /\ NoWrite BY <1>10 DEF BuySend
  <2>2. CASE Send("buy", on[e]) /\ Goto(e, "buyWait") /\ UNCHANGED ex
    <3>1. LifeMove(e, "buyWait") BY <2>1, <2>2 DEF LifeMove, At, BeforeOco
    <3>2. Fits(t, "buyWait", ex[e].seen) BY <1>2, <2>1 DEF Fits, At
    <3> QED BY <1>1, <2>1, <2>2, <3>1, <3>2, GoingIsLife DEF t
  <2>3. CASE Return(e, "RECONCILE") /\ UNCHANGED exchangeVars BY <1>6, <2>1, <2>3
  <2> QED BY <1>10, <2>2, <2>3 DEF BuySend
<1>11. CASE BuyAccepted(e)
  <2>1. /\ At(e, "buyWait") /\ UNCHANGED exchangeVars /\ Goto(e, "settle")
        /\ Write(e, "ENTRY_ACCEPTED", {}) /\ ex' = [ex EXCEPT ![e] = Look]
    BY <1>11 DEF BuyAccepted, Local, Look
  <2>2. Follows(t, "ENTRY_ACCEPTED") BY <1>2, <2>1, SuccessorsAre DEF Fits, At
  <2>3. Fits("ENTRY_ACCEPTED", "settle", Look.seen) BY DEF Fits
  <2>4. pc[e] \in BeforeOco /\ pc[e] \in BeforeEmg BY <2>1 DEF At, BeforeOco, BeforeEmg
  <2> QED BY <1>1, <1>3, <1>4, <2>1, <2>2, <2>3, <2>4, WriteIsLife DEF t
<1>12. CASE BuyRejected(e)
  <2>1. /\ At(e, "buyWait") /\ UNCHANGED exchangeVars
        /\ Finish(e, "FAILED_SAFE", {}, "NO_POSITION")
    BY <1>12 DEF BuyRejected
  <2>2. Follows(t, "FAILED_SAFE") BY <1>2, <2>1, SuccessorsAre DEF Fits, At
  <2> QED BY <1>1, <1>4, <2>1, <2>2, FinishIsLife DEF t
<1>13. CASE BuyUnknown(e)
  <2>1. At(e, "buyWait") /\ NoWrite /\ \E k \in Kinds : GiveUp(k, on[e])
    BY <1>13 DEF BuyUnknown, Kinds
  <2>2. CASE Goto(e, "buyRequery") /\ UNCHANGED ex
    <3>1. LifeMove(e, "buyRequery")
      BY <1>2, <2>1, MoveIsQuiet DEF At, BeforeOco, BeforeEmg
    <3>2. Fits(t, "buyRequery", ex[e].seen) BY <1>2, <2>1 DEF Fits, At
    <3> QED BY <1>1, <2>1, <2>2, <3>1, <3>2, GoingIsLife DEF t
  <2>3. CASE Return(e, "RECONCILE") BY <1>6, <2>1, <2>3
  <2> QED BY <1>13, <2>2, <2>3 DEF BuyUnknown
<1>14. CASE BuyRequery(e)
  <2>1. At(e, "buyRequery") /\ NoWrite /\ UNCHANGED exchangeVars BY <1>14 DEF BuyRequery
  <2>2. CASE Goto(e, "settle") /\ ex' = [ex EXCEPT ![e] = Look]
    <3>1. LifeMove(e, "settle")
      BY <1>2, <2>1, MoveIsQuiet DEF At, BeforeOco, BeforeEmg
    <3>2. Fits(t, "settle", Look.seen) BY <1>2, <2>1 DEF Fits, At
    <3> QED BY <1>1, <1>3, <2>1, <2>2, <3>1, <3>2, QuietIsLife DEF t
  <2>3. CASE Return(e, "RECONCILE") BY <1>6, <2>1, <2>3
  <2> QED BY <1>14, <2>2, <2>3 DEF BuyRequery, Local, Look
<1> QED BY <1>7, <1>8, <1>9, <1>10, <1>11, <1>12, <1>13, <1>14

LEMMA FillIsLife ==
    ASSUME LifeInv, NEW e \in Executors,
           \/ SettleFinal(e) \/ SettlePoll(e) \/ SettleExhausted(e)
           \/ CancelRest(e) \/ FinalQuery(e) \/ Filled(e) \/ Normalize(e)
    PROVE  LifeStep(e)
<1>1. Ready(e) /\ pc[e] \notin {"idle", "done", "crashed"} /\ UNCHANGED on
  BY DEF SettleFinal, SettlePoll, SettleExhausted, CancelRest, FinalQuery, Filled, Normalize,
         At, ExecutorFrame
<1> DEFINE t == trade[on[e]].state
           Seen(order) == [ex[e] EXCEPT !.seen = order]
<1>2. /\ SaleInv /\ on[e] \in Intents /\ Fits(t, pc[e], ex[e].seen)
      /\ ex[e] \in ExecutorLocals /\ ex[e].seen \in Orders /\ buy[on[e]] \in Orders
  BY <1>1, LifeFacts, OwnerKnows
<1>3. \A order \in Orders : Seen(order) \in ExecutorLocals /\ Seen(order).seen = order
  BY <1>2, SeenIsLocal DEF ExecutorLocals
<1>4. /\ {"RECONCILE", "NO_POSITION"} \subseteq Returns
      /\ {"FILLED", "PARTIALLY_FILLED", "PROTECTION_PENDING", "FAILED_SAFE"} \subseteq TradeStates
      /\ {} \in SUBSET Flags /\ Position \in SUBSET Flags /\ {"protectionIds"} \in SUBSET Flags
  BY WritesAre DEF Returns
<1>5. "done" \notin BeforeOco /\ "done" \notin BeforeEmg BY DEF BeforeOco, BeforeEmg
<1>6. pc[e] \in BeforeOco /\ pc[e] \in BeforeEmg
  BY DEF SettleFinal, SettlePoll, SettleExhausted, CancelRest, FinalQuery, Filled, Normalize,
         At, BeforeOco, BeforeEmg
<1>7. ASSUME NoWrite, Return(e, "RECONCILE"), UNCHANGED exchangeVars \/ CancelEntry(on[e])
      PROVE  LifeStep(e)
  <2>1. LifeMove(e, "done") BY <1>2, <1>5, <1>7, MoveIsQuiet
  <2> QED BY <1>1, <1>4, <1>7, <2>1, ReturnIsLife
<1> HIDE DEF t, Seen
<1>8. ASSUME pc[e] \in {"settle", "finalQuery"}, NEW order \in Orders, Settled(e, order),
             UNCHANGED exchangeVars
      PROVE  LifeStep(e)
  <2>1. t \in {"ENTRY_SUBMITTING", "ENTRY_ACCEPTED"} BY <1>2, <1>8 DEF Fits
  <2>2. CASE order.qty > 0
    <3>1. /\ Write(e, FillState(order), {}) /\ Goto(e, "filled")
          /\ ex' = [ex EXCEPT ![e] = Seen(order)]
      BY <1>8, <2>2 DEF Settled, FillState, Local, Seen
    <3>2. FillState(order) \in TradeStates /\ Follows(t, FillState(order))
      BY <1>4, <2>1, SuccessorsAre DEF FillState
    <3>3. Fits(FillState(order), "filled", Seen(order).seen) BY <1>3 DEF Fits
    <3> QED BY <1>1, <1>3, <1>4, <1>6, <1>8, <3>1, <3>2, <3>3, WriteIsLife DEF t
  <2>3. CASE ~(order.qty > 0)
    <3>1. Finish(e, "FAILED_SAFE", {}, "NO_POSITION") BY <1>8, <2>3 DEF Settled
    <3>2. Follows(t, "FAILED_SAFE") BY <2>1, SuccessorsAre
    <3> QED BY <1>1, <1>4, <1>8, <3>1, <3>2, FinishIsLife DEF t
  <2> QED BY <2>2, <2>3
<1>9. CASE SettleFinal(e) BY <1>2, <1>8, <1>9 DEF SettleFinal, At
<1>10. CASE SettlePoll(e)
  <2>1. At(e, "settle") /\ NoWrite /\ UNCHANGED exchangeVars BY <1>10 DEF SettlePoll
  <2>2. CASE Return(e, "RECONCILE") BY <1>7, <2>1, <2>2
  <2>3. CASE ~Return(e, "RECONCILE")
    <3>1. PICK order \in Orders, l \in {"cancel", "settle"} :
            /\ ex' = [ex EXCEPT ![e] = [ex[e] EXCEPT !.seen = order, !.polls = @ + 1]]
            /\ Goto(e, l) /\ ex[e].polls < SettleAttempts
      BY <1>2, <1>10, <2>3 DEF SettlePoll, Local
    <3>2. [ex[e] EXCEPT !.seen = order, !.polls = @ + 1] \in ExecutorLocals
      <4>1. ex[e].polls + 1 \in 0..SettleAttempts
        BY <1>2, <3>1, LiveAssumption DEF ExecutorLocals, LiveAssumption
      <4> QED BY <1>2, <4>1 DEF ExecutorLocals
    <3>3. LifeMove(e, l) BY <1>2, <1>6, <2>1, MoveIsQuiet
    <3>4. Fits(t, l, [ex[e] EXCEPT !.seen = order, !.polls = @ + 1].seen)
      BY <1>2, <2>1 DEF Fits, At
    <3> QED BY <1>1, <2>1, <3>1, <3>2, <3>3, <3>4, QuietIsLife DEF t
  <2> QED BY <2>2, <2>3
<1>11. CASE SettleExhausted(e)
  <2>1. At(e, "settle") /\ NoWrite /\ UNCHANGED exchangeVars BY <1>11 DEF SettleExhausted
  <2>2. CASE Return(e, "RECONCILE") BY <1>7, <2>1, <2>2
  <2>3. CASE Goto(e, "cancel") /\ UNCHANGED ex
    <3>1. LifeMove(e, "cancel") BY <1>2, <1>6, <2>1, MoveIsQuiet
    <3>2. Fits(t, "cancel", ex[e].seen) BY <1>2, <2>1 DEF Fits, At
    <3> QED BY <1>1, <2>1, <2>3, <3>1, <3>2, GoingIsLife DEF t
  <2> QED BY <1>11, <2>2, <2>3 DEF SettleExhausted
<1>12. CASE CancelRest(e)
  <2>1. At(e, "cancel") /\ NoWrite /\ (CancelEntry(on[e]) \/ UNCHANGED exchangeVars)
    BY <1>12 DEF CancelRest
  <2>2. CASE Return(e, "RECONCILE") BY <1>7, <2>1, <2>2
  <2>3. CASE Goto(e, "finalQuery") /\ UNCHANGED ex
    <3>1. LifeMove(e, "finalQuery") BY <1>2, <1>6, <2>1, MoveIsQuiet
    <3>2. Fits(t, "finalQuery", ex[e].seen) BY <1>2, <2>1 DEF Fits, At
    <3> QED BY <1>1, <2>1, <2>3, <3>1, <3>2, GoingIsLife DEF t
  <2> QED BY <1>12, <2>2, <2>3 DEF CancelRest
<1>13. CASE FinalQuery(e)
  <2>1. At(e, "finalQuery") /\ UNCHANGED exchangeVars BY <1>13 DEF FinalQuery
  <2>2. CASE Settled(e, buy[on[e]]) BY <1>2, <1>8, <2>1, <2>2 DEF At
  <2>3. CASE Return(e, "RECONCILE") /\ NoWrite BY <1>7, <2>1, <2>3
  <2> QED BY <1>13, <2>2, <2>3 DEF FinalQuery
<1>14. CASE Filled(e)
  <2>1. At(e, "filled") /\ UNCHANGED exchangeVars BY <1>14 DEF Filled
  <2>2. t = FillState(ex[e].seen) /\ t \in {"FILLED", "PARTIALLY_FILLED"}
    BY <1>2, <2>1 DEF Fits, At, FillState
  <2>3. CASE Finish(e, "FAILED_SAFE", Position, "RECONCILE")
    <3>1. Follows(t, "FAILED_SAFE") BY <2>2, SuccessorsAre
    <3> QED BY <1>1, <1>4, <2>1, <2>3, <3>1, FinishIsLife DEF t
  <2>4. CASE ~Finish(e, "FAILED_SAFE", Position, "RECONCILE")
    <3>1. /\ Write(e, t, {}) /\ Goto(e, "normalize")
          /\ ex' = [ex EXCEPT ![e] = ex[e]]
      BY <1>1, <1>14, <2>2, <2>4, LifeFacts DEF Filled, FillState
    <3>2. Follows(t, t) /\ t \in TradeStates BY <1>4, <2>2, SuccessorsAre
    <3>3. Fits(t, "normalize", ex[e].seen) BY <2>2 DEF Fits
    <3> QED BY <1>1, <1>2, <1>4, <1>6, <2>1, <3>1, <3>2, <3>3, WriteIsLife DEF t
  <2> QED BY <2>3, <2>4
<1>15. CASE Normalize(e)
  <2>1. At(e, "normalize") /\ UNCHANGED exchangeVars BY <1>15 DEF Normalize
  <2>2. t \in {"FILLED", "PARTIALLY_FILLED"} BY <1>2, <2>1 DEF Fits, At, FillState
  <2>3. PICK f \in {{"protectionIds"}, Position}, l \in {"ocoQuery", "emgQuery"} :
          /\ Write(e, "PROTECTION_PENDING", f) /\ Goto(e, l)
          /\ ex' = [ex EXCEPT ![e] = ex[e]]
    BY <1>1, <1>15, LifeFacts DEF Normalize
  <2>4. Follows(t, "PROTECTION_PENDING") BY <2>2, SuccessorsAre
  <2>5. Fits("PROTECTION_PENDING", l, ex[e].seen) BY DEF Fits
  <2> QED BY <1>1, <1>2, <1>4, <1>6, <2>1, <2>3, <2>4, <2>5, WriteIsLife DEF t
<1> QED BY <1>9, <1>10, <1>11, <1>12, <1>13, <1>14, <1>15

LEMMA SaleIsLife ==
    ASSUME LifeInv, NEW e \in Executors,
           \/ OcoFound(e) \/ OcoQuery(e) \/ OcoSend(e) \/ OcoAccepted(e)
           \/ OcoNotAccepted(e) \/ OcoRequery(e)
           \/ EmgQuery(e) \/ EmgSend(e) \/ EmgAccepted(e) \/ EmgNotAccepted(e)
           \/ EmgRequery(e)
    PROVE  LifeStep(e)
<1>1. Ready(e) /\ UNCHANGED on /\ pc[e] \notin {"idle", "done", "crashed"}
      /\ pc[e] \in {"ocoQuery", "ocoSend", "ocoWait", "ocoRequery",
                    "emgQuery", "emgSend", "emgWait", "emgRequery"}
  BY DEF OcoFound, OcoQuery, OcoSend, OcoAccepted, OcoNotAccepted, OcoRequery,
         EmgQuery, EmgSend, EmgAccepted, EmgNotAccepted, EmgRequery, At, ExecutorFrame
<1> DEFINE t == trade[on[e]].state
<1>2. /\ SaleInv /\ on[e] \in Intents /\ t = "PROTECTION_PENDING"
      /\ ex[e] \in ExecutorLocals
  BY <1>1, LifeFacts DEF Fits
<1>3. \A l, order : l \in {"ocoSend", "ocoWait", "ocoRequery", "emgQuery", "emgSend",
                           "emgWait", "emgRequery"} => Fits(t, l, order)
  BY <1>2 DEF Fits
<1> HIDE DEF t
<1>4. ASSUME UNCHANGED exchangeVars,
             NEW s \in {"PROTECTED", "PROTECTION_PENDING", "FAILED_SAFE"},
             NEW f \in {{}, Position, {"emergencyClosed"}}, NEW ret, Finish(e, s, f, ret)
      PROVE  LifeStep(e)
  <2>1. Follows(t, s) /\ s \in TradeStates BY <1>2, WritesAre, SuccessorsAre
  <2> QED BY <1>1, <1>4, <2>1, WritesAre, FinishIsLife DEF t
<1>5. ASSUME UNCHANGED exchangeVars, Closed(e) \/ LeftOpen(e) PROVE LifeStep(e)
  BY <1>4, <1>5 DEF Closed, LeftOpen
<1>6. ASSUME NoWrite, NEW l, Goto(e, l), UNCHANGED ex, LifeMove(e, l),
             l \in {"ocoSend", "ocoWait", "ocoRequery", "emgQuery", "emgSend",
                    "emgWait", "emgRequery"}
      PROVE  LifeStep(e)
  BY <1>1, <1>3, <1>6, GoingIsLife DEF t
<1>7. ASSUME NoWrite, Goto(e, "ocoRequery"), NEW a \in {"none", "reject", "unknown", "other"},
             Local(e, [ex[e] EXCEPT !.sent = a]), LifeMove(e, "ocoRequery")
      PROVE  LifeStep(e)
  <2>1. PICK x \in ExecutorLocals : ex' = [ex EXCEPT ![e] = x]
    BY <1>2, <1>7 DEF ExecutorLocals, Local
  <2>2. Fits(t, "ocoRequery", x.seen) BY <1>3
  <2> QED BY <1>1, <1>7, <2>1, <2>2, QuietIsLife DEF t
<1>8. CASE OcoFound(e) BY <1>4, <1>8 DEF OcoFound
<1>9. CASE OcoQuery(e)
  <2>1. At(e, "ocoQuery") /\ UNCHANGED exchangeVars BY <1>9 DEF OcoQuery
  <2>2. LifeMove(e, "ocoSend")
    BY <1>2, <2>1, MoveIsQuiet DEF At, BeforeOco, BeforeEmg
  <2>3. CASE NoWrite /\ Goto(e, "ocoSend") /\ UNCHANGED ex BY <1>6, <2>2, <2>3
  <2>4. CASE Finish(e, "PROTECTION_PENDING", {}, "RECONCILE") BY <1>4, <2>1, <2>4
  <2> QED BY <1>9, <2>3, <2>4 DEF OcoQuery
<1>10. CASE OcoSend(e)
  <2>1. At(e, "ocoSend") /\ NoWrite BY <1>10 DEF OcoSend
  <2>2. CASE Send("oco", on[e]) /\ Goto(e, "ocoWait") /\ UNCHANGED ex
    <3>1. LifeMove(e, "ocoWait") BY <2>1, <2>2 DEF LifeMove, At
    <3> QED BY <1>6, <2>1, <2>2, <3>1
  <2>3. CASE /\ Goto(e, "ocoRequery") /\ Local(e, [ex[e] EXCEPT !.sent = "other"])
             /\ UNCHANGED exchangeVars
    <3>1. LifeMove(e, "ocoRequery")
      BY <1>2, <2>1, <2>3, MoveIsQuiet DEF At, BeforeOco, BeforeEmg
    <3> QED BY <1>7, <2>1, <2>3, <3>1
  <2> QED BY <1>10, <2>2, <2>3 DEF OcoSend
<1>11. CASE OcoAccepted(e) BY <1>4, <1>11 DEF OcoAccepted
<1>12. CASE OcoNotAccepted(e)
  <2>1. At(e, "ocoWait") /\ NoWrite /\ Goto(e, "ocoRequery") BY <1>12 DEF OcoNotAccepted
  <2>2. UNCHANGED exchangeVars \/ \E k \in Kinds : GiveUp(k, on[e])
    BY <1>12 DEF OcoNotAccepted, Kinds
  <2>3. LifeMove(e, "ocoRequery")
    BY <1>2, <2>1, <2>2, MoveIsQuiet DEF At, BeforeOco, BeforeEmg
  <2>4. PICK a \in {"reject", "unknown", "other"} : Local(e, [ex[e] EXCEPT !.sent = a])
    BY <1>12 DEF OcoNotAccepted
  <2> QED BY <1>7, <2>1, <2>3, <2>4
<1>13. CASE OcoRequery(e)
  <2>1. At(e, "ocoRequery") /\ UNCHANGED exchangeVars BY <1>13 DEF OcoRequery
  <2>2. LifeMove(e, "emgQuery")
    BY <1>2, <2>1, MoveIsQuiet DEF At, BeforeOco, BeforeEmg
  <2>3. CASE NoWrite /\ Goto(e, "emgQuery") /\ UNCHANGED ex BY <1>6, <2>2, <2>3
  <2>4. CASE Finish(e, "PROTECTION_PENDING", {}, "RECONCILE") BY <1>4, <2>1, <2>4
  <2> QED BY <1>13, <2>3, <2>4 DEF OcoRequery
<1>14. CASE EmgQuery(e)
  <2>1. At(e, "emgQuery") /\ UNCHANGED exchangeVars BY <1>14 DEF EmgQuery
  <2>2. LifeMove(e, "emgSend")
    BY <1>2, <2>1, MoveIsQuiet DEF At, BeforeOco, BeforeEmg
  <2>3. CASE NoWrite /\ Goto(e, "emgSend") /\ UNCHANGED ex BY <1>6, <2>2, <2>3
  <2>4. CASE Closed(e) \/ LeftOpen(e) BY <1>5, <2>1, <2>4
  <2> QED BY <1>14, <2>3, <2>4 DEF EmgQuery
<1>15. CASE EmgSend(e)
  <2>1. At(e, "emgSend") /\ NoWrite /\ UNCHANGED ex BY <1>15 DEF EmgSend
  <2>2. CASE Send("emg", on[e]) /\ Goto(e, "emgWait")
    <3>1. LifeMove(e, "emgWait") BY <2>1, <2>2 DEF LifeMove, At
    <3> QED BY <1>6, <2>1, <2>2, <3>1
  <2>3. CASE Goto(e, "emgRequery") /\ UNCHANGED exchangeVars
    <3>1. LifeMove(e, "emgRequery")
      BY <1>2, <2>1, <2>3, MoveIsQuiet DEF At, BeforeOco, BeforeEmg
    <3> QED BY <1>6, <2>1, <2>3, <3>1
  <2> QED BY <1>15, <2>2, <2>3 DEF EmgSend
<1>16. CASE EmgAccepted(e) BY <1>5, <1>16 DEF EmgAccepted
<1>17. CASE EmgNotAccepted(e)
  <2>1. At(e, "emgWait") /\ NoWrite /\ Goto(e, "emgRequery") /\ UNCHANGED ex
    BY <1>17 DEF EmgNotAccepted
  <2>2. UNCHANGED exchangeVars \/ \E k \in Kinds : GiveUp(k, on[e])
    BY <1>17 DEF EmgNotAccepted, Kinds
  <2>3. LifeMove(e, "emgRequery")
    BY <1>2, <2>1, <2>2, MoveIsQuiet DEF At, BeforeOco, BeforeEmg
  <2> QED BY <1>6, <2>1, <2>3
<1>18. CASE EmgRequery(e) BY <1>5, <1>18 DEF EmgRequery
<1> QED BY <1>8, <1>9, <1>10, <1>11, <1>12, <1>13, <1>14, <1>15, <1>16, <1>17, <1>18

LEMMA ExecutorLives ==
    ASSUME LifeInv, NEW e \in Executors, ExecutorStep(e)
    PROVE  \/ \E i \in Intents : ClaimIntent(e, i) \/ DuplicateIntent(e, i)
           \/ LifeStep(e)
BY EntryIsLife, FillIsLife, SaleIsLife DEF ExecutorStep

-----------------------------------------------------------------------------
(* The invariant is kept.                                                  *)

LEMMA LifeIsSale ==
    ASSUME LifeInv
    PROVE  /\ SaleInv /\ OwnedIsClaimed
           /\ Executors \subseteq Procs
           /\ \A e \in Executors : w[e] \in Calls \cup {NoCall} /\ (~Ready(e) => w[e] \in Calls)
BY SaleFacts, EntryFacts DEF LifeInv, Ready, NoCall

\* An executor whose place, row and orders are as they were.
LEMMA OthersLive ==
    ASSUME LifeInv, NEW f \in Executors,
           on'[f] = on[f], pc'[f] = pc[f], ex'[f] = ex[f], w'[f] = w[f],
           on[f] \in Intents =>
             /\ trade'[on[f]].state = trade[on[f]].state
             /\ \A k \in {"oco", "emg"} : net'[k][on[f]] # "none" => net[k][on[f]] # "none"
    PROVE  Lives(f)'
<1>1. Lives(f) BY DEF LifeInv
<1> QED BY <1>1 DEF Lives, RowFits, SaleIsFirst, Submitted, Ready

LEMMA LifeStepLives ==
    ASSUME LifeInv, NEW e \in Executors, LifeStep(e), SaleInv'
    PROVE  LifeInv'
<1>1. /\ SaleInv /\ e \in Procs /\ on' = on /\ on[e] \in Intents /\ ExchangeTypeOK
      /\ pc \in [Procs -> ExecutorPcs \cup ReconcilerPcs]
      /\ ex \in [Executors -> ExecutorLocals]
      /\ w \in [Procs -> Calls \cup {NoCall}]
  BY LifeIsSale, SaleFacts DEF LifeStep
<1>2. PICK l, x : /\ pc' = [pc EXCEPT ![e] = l]
                  /\ ex' = [ex EXCEPT ![e] = x]
                  /\ LifeMove(e, l)
                  /\ LifeWrite(e, l, x.seen)
  BY DEF LifeStep
<1>3. Ready(e) /\ Lives(e) BY DEF LifeStep, LifeInv
<1>4. trade' = trade BY <1>2 DEF LifeWrite, storeVars
<1>5. \A i \in Intents : i # on[e] =>
        \A k \in {"oco", "emg"} : net'[k][i] # "none" => net[k][i] # "none"
  BY <1>1, <1>2 DEF LifeMove, Send, Submitted, ExchangeTypeOK, Kinds
<1>6. ASSUME NEW f \in Executors, f # e PROVE Lives(f)'
  <2>1. on[f] # on[e] BY <1>1, <1>6, SaleFacts DEF OwnersDiffer
  <2>2. w'[f] = w[f] BY <1>1, <1>2, <1>6, LifeIsSale DEF LifeWrite, storeVars, BeginWrite
  <2>3. on'[f] = on[f] /\ pc'[f] = pc[f] /\ ex'[f] = ex[f]
    BY <1>1, <1>2, <1>6, LifeIsSale
  <2> QED BY <1>4, <1>5, <2>1, <2>2, <2>3, OthersLive
<1>7. RowFits(e)'
  <2>1. pc'[e] = l /\ ex'[e] = x BY <1>1, <1>2
  <2>2. CASE UNCHANGED storeVars /\ Fits(trade[on[e]].state, l, x.seen)
    <3>1. Ready(e)' BY <1>3, <2>2 DEF Ready, storeVars
    <3> QED BY <1>1, <1>4, <2>1, <2>2, <3>1 DEF RowFits
  <2>3. CASE \E s \in TradeStates, f \in SUBSET Flags :
               /\ BeginWrite(e, on[e], s, f, "none") /\ UNCHANGED <<trade, index>>
               /\ Follows(trade[on[e]].state, s) /\ Fits(s, l, x.seen)
    <3>1. PICK s \in TradeStates, f \in SUBSET Flags :
               /\ BeginWrite(e, on[e], s, f, "none")
               /\ Follows(trade[on[e]].state, s) /\ Fits(s, l, x.seen)
      BY <2>3
    <3>2. w'[e] = [step |-> "get", intent |-> on[e], index |-> <<>>,
                   row |-> [state |-> s, flags |-> f, exit |-> "none"]]
      BY <1>1, <3>1 DEF BeginWrite
    <3>3. ~Ready(e)' BY <3>2 DEF Ready
    <3> QED BY <1>1, <1>4, <2>1, <3>1, <3>2, <3>3 DEF RowFits
  <2> QED BY <1>2, <2>2, <2>3 DEF LifeWrite
<1>8. SaleIsFirst(e)'
  <2>1. pc'[e] = l BY <1>1, <1>2
  <2>2. SaleIsFirst(e) BY <1>1, <1>3 DEF Lives
  <2>3. l \in BeforeOco => net'["oco"][on[e]] = "none"
    BY <1>1, <1>2, <2>2
       DEF LifeMove, Send, Submitted, SaleIsFirst, ExchangeTypeOK, Kinds, BeforeOco
  <2>4. l \in BeforeEmg => net'["emg"][on[e]] = "none"
    BY <1>1, <1>2, <2>2
       DEF LifeMove, Send, Submitted, SaleIsFirst, ExchangeTypeOK, Kinds, BeforeOco, BeforeEmg
  <2> QED BY <1>1, <2>1, <2>3, <2>4 DEF SaleIsFirst, Submitted
<1>9. Lives(e)' BY <1>1, <1>7, <1>8 DEF Lives
<1> QED BY <1>6, <1>9 DEF LifeInv

LEMMA ClaimLives ==
    ASSUME LifeInv, NEW e \in Executors, NEW i \in Intents, ClaimIntent(e, i), SaleInv'
    PROVE  LifeInv'
<1>1. /\ SaleInv /\ e \in Procs /\ trade \in [Intents -> Rows]
      /\ pc \in [Procs -> ExecutorPcs \cup ReconcilerPcs]
      /\ on \in [Procs -> Intents \cup {NoIntent}]
      /\ w \in [Procs -> Calls \cup {NoCall}] /\ NoIntent \notin Intents
  BY LifeIsSale, SaleFacts
<1>2. /\ trade[i].state = "NONE"
      /\ trade' = [trade EXCEPT ![i] = [NoRow EXCEPT !.state = "SIGNAL_CREATED"]]
      /\ on' = [on EXCEPT ![e] = i] /\ pc' = [pc EXCEPT ![e] = "reconcile"]
      /\ ex' = ex /\ net' = net
      /\ w' = [w EXCEPT ![e] = [step |-> "get", intent |-> i, index |-> <<>>,
                  row |-> [state |-> "APPROVED", flags |-> {}, exit |-> "none"]]]
  BY DEF ClaimIntent, ClaimRow, Goto, BeginWrite, exchangeVars
<1>3. ASSUME NEW f \in Executors, f # e PROVE Lives(f)'
  <2>1. on[f] # i BY <1>1, <1>2, <1>3, LifeIsSale DEF OwnedIsClaimed
  <2> QED BY <1>1, <1>2, <1>3, <2>1, LifeIsSale, OthersLive
<1>4. on'[e] = i /\ pc'[e] = "reconcile" /\ trade'[i].state = "SIGNAL_CREATED"
      /\ w'[e] = [step |-> "get", intent |-> i, index |-> <<>>,
                  row |-> [state |-> "APPROVED", flags |-> {}, exit |-> "none"]]
  BY <1>1, <1>2 DEF NoRow
<1>5. RowFits(e)'
  <2>1. ~Ready(e)' BY <1>4 DEF Ready
  <2>2. Fits("APPROVED", "reconcile", ex'[e].seen) BY DEF Fits
  <2> QED BY <1>4, <2>1, <2>2, SuccessorsAre DEF RowFits
<1>6. SaleIsFirst(e)'
  <2>1. ~Submitted("oco", i) /\ ~Submitted("emg", i)
    <3>1. posts[i] = 0 BY <1>1, <1>2, SaleFacts, EntryFacts DEF UnclaimedIsUnsent
    <3>2. buy[i].status \notin TerminalEntry
      BY <1>1, <3>1, SaleFacts, BookFacts DEF EntryIsAccepted
    <3> QED BY <1>1, <3>2, SaleFacts DEF SaleFollowsFinalEntry
  <2> QED BY <1>2, <1>4, <2>1 DEF SaleIsFirst, Submitted
<1>7. Lives(e)' BY <1>4, <1>5, <1>6 DEF Lives
<1> QED BY <1>3, <1>7 DEF LifeInv

LEMMA DuplicateLives ==
    ASSUME LifeInv, NEW e \in Executors, NEW i \in Intents, DuplicateIntent(e, i), SaleInv'
    PROVE  LifeInv'
<1>1. /\ SaleInv /\ e \in Procs
      /\ pc \in [Procs -> ExecutorPcs \cup ReconcilerPcs]
      /\ ex \in [Executors -> ExecutorLocals] /\ NoIntent \notin Intents
  BY LifeIsSale, SaleFacts
<1>2. /\ UNCHANGED <<trade, w, on, net>> /\ Ready(e) /\ on[e] = NoIntent
      /\ \A f \in Executors : f # e => pc'[f] = pc[f] /\ ex'[f] = ex[f]
  BY <1>1, LifeIsSale, SaleFacts
     DEF DuplicateIntent, NoWrite, storeVars, ExecutorFrame, exchangeVars, Return, Goto, At,
         IdleOwnsNothing
<1>3. ASSUME NEW f \in Executors, f # e PROVE Lives(f)' BY <1>2, <1>3, OthersLive
<1>4. Lives(e)' BY <1>1, <1>2 DEF Lives, Ready
<1> QED BY <1>3, <1>4 DEF LifeInv

\* The write under way goes on: it lands as it was begun.
LEMMA WriteStepLives ==
    ASSUME LifeInv, NEW e \in Executors, WriteStep(e), SaleInv'
    PROVE  LifeInv'
<1>1. /\ SaleInv /\ e \in Procs /\ trade \in [Intents -> Rows]
      /\ w \in [Procs -> Calls \cup {NoCall}] /\ NoIntent \notin Intents
  BY LifeIsSale, SaleFacts
<1>2. ~Ready(e) /\ w[e] \in Calls
  <2>1. ~Ready(e)
    BY DEF WriteStep, StoreStep, WriteGet, WritePut, IndexGet, IndexPut, Ready
  <2> QED BY <2>1, LifeIsSale
<1>3. /\ on[e] \in Intents /\ RowFits(e) /\ SaleIsFirst(e) /\ w[e].intent = on[e]
  BY <1>2 DEF LifeInv, Lives, RowFits
<1>4. UNCHANGED <<pc, on, ex, net>> BY DEF WriteStep, locals, exchangeVars
<1>5. trade' = trade \/ trade' = [trade EXCEPT ![on[e]] = w[e].row]
  BY <1>3 DEF WriteStep, StoreStep, WriteGet, WritePut, IndexGet, IndexPut
<1>6. \A f \in Executors : f # e => w'[f] = w[f]
  BY <1>1, LifeIsSale DEF WriteStep, StoreStep, WriteGet, WritePut, IndexGet, IndexPut
<1>7. ASSUME NEW f \in Executors, f # e PROVE Lives(f)'
  <2>1. on[f] \in Intents => on[f] # on[e]
    BY <1>1, <1>3, <1>7, SaleFacts DEF OwnersDiffer
  <2>2. on[f] \in Intents => trade'[on[f]].state = trade[on[f]].state
    BY <1>1, <1>5, <2>1
  <2> QED BY <1>4, <1>6, <1>7, <2>2, OthersLive
<1> DEFINE t == trade[on[e]].state
           s == w[e].row.state
<1>8. /\ Fits(s, pc[e], ex[e].seen)
      /\ w[e].step \in {"get", "put"} => Follows(t, s)
      /\ w[e].step \in {"ixget", "ixput"} => t = s
  BY <1>2, <1>3 DEF RowFits
<1>9. RowFits(e)'
  <2>1. CASE WriteGet(e)
    <3>1. /\ trade' = trade /\ w'[e].step = "put" /\ w'[e].intent = on[e]
          /\ w'[e].row.state = s /\ w[e].step = "get"
      BY <1>1, <1>2, <1>3, <2>1 DEF WriteGet, Merge, Calls
    <3> QED BY <1>4, <1>8, <3>1 DEF RowFits, Ready
  <2>2. CASE WritePut(e)
    <3>1. /\ trade'[on[e]].state = s /\ w'[e].step = "ixget" /\ w'[e].intent = on[e]
          /\ w'[e].row.state = s
      BY <1>1, <1>2, <1>3, <2>2 DEF WritePut, Calls
    <3> QED BY <1>4, <1>8, <3>1 DEF RowFits, Ready
  <2>3. CASE IndexGet(e)
    <3>1. /\ trade' = trade /\ w'[e].step = "ixput" /\ w'[e].intent = on[e]
          /\ w'[e].row.state = s /\ w[e].step = "ixget"
      BY <1>1, <1>2, <1>3, <2>3 DEF IndexGet, Calls
    <3> QED BY <1>4, <1>8, <3>1 DEF RowFits, Ready
  <2>4. CASE IndexPut(e)
    <3>1. trade' = trade /\ w'[e].step = "none" /\ w[e].step = "ixput"
      BY <1>1, <2>4 DEF IndexPut, NoCall
    <3> QED BY <1>4, <1>8, <3>1 DEF RowFits, Ready
  <2> QED BY <2>1, <2>2, <2>3, <2>4 DEF WriteStep, StoreStep
<1>10. SaleIsFirst(e)' BY <1>3, <1>4 DEF SaleIsFirst, Submitted
<1>11. Lives(e)' BY <1>3, <1>4, <1>9, <1>10 DEF Lives
<1> QED BY <1>7, <1>11 DEF LifeInv

\* An abandoned call leaves its row as it is, and sends nothing any more.
LEMMA UnwindLives ==
    ASSUME LifeInv, NEW e \in Executors, NEW last \in {"done", "crashed"},
           NEW ret, Unwind(e, last, ret), SaleInv'
    PROVE  LifeInv'
<1>1. /\ SaleInv /\ e \in Procs
      /\ pc \in [Procs -> ExecutorPcs \cup ReconcilerPcs]
      /\ on \in [Procs -> Intents \cup {NoIntent}]
      /\ w \in [Procs -> Calls \cup {NoCall}]
  BY LifeIsSale, SaleFacts
<1>2. /\ UNCHANGED <<net, trade>> /\ w' = [w EXCEPT ![e] = NoCall]
      /\ pc' = [pc EXCEPT ![e] = last]
      /\ \A f \in Executors : on'[f] = on[f] /\ (f # e => ex'[f] = ex[f])
  BY <1>1, LifeIsSale DEF Unwind, DropWrite, exchangeVars
<1>3. ASSUME NEW f \in Executors, f # e PROVE Lives(f)'
  BY <1>1, <1>2, <1>3, LifeIsSale, OthersLive
<1>4. Ready(e)' /\ pc'[e] = last BY <1>1, <1>2 DEF Ready, NoCall
<1>5. RowFits(e)' BY <1>4 DEF RowFits, Fits
<1>6. SaleIsFirst(e)' BY <1>4 DEF SaleIsFirst, BeforeOco, BeforeEmg
<1>7. Lives(e)' BY <1>4, <1>5, <1>6 DEF Lives
<1> QED BY <1>3, <1>7 DEF LifeInv

\* What the exchange does by itself submits nothing.
LEMMA EnvironmentSendsNothing ==
    ASSUME ExchangeTypeOK, NEW j \in Intents, ExchangeStep(j)
    PROVE  /\ posts' = posts
           /\ \A i \in Intents : \A k \in Kinds : net'[k][i] = "none" <=> net[k][i] = "none"
BY DEF ExchangeStep, Reject, AcceptBuy, FillBuy, ExpireBuy, AcceptOco, ExecuteOco,
       AcceptEmergency, OwnerCancelsOco, OwnerSells, Answer, ExchangeTypeOK, Kinds

LEMMA LifeInit == ASSUME Init PROVE LifeInv
<1>1. SaleInv BY SaleInit
<1>2. \A e \in Executors : on[e] = NoIntent /\ Ready(e)
  BY LiveAssumption DEF LiveAssumption, Init, StoreInit, NoCall, Ready
<1> QED BY <1>1, <1>2, SaleFacts DEF LifeInv, Lives

LEMMA LifeInvStep == ASSUME Reconcilers = {}, LifeInv, [Next]_vars PROVE LifeInv'
<1>0. SaleInv' /\ SaleInv BY SaleStep DEF LifeInv
<1>1. Procs = Executors BY LiveAssumption DEF LiveAssumption
<1>2. ASSUME NEW e \in Executors, ExecutorStep(e) PROVE LifeInv'
  BY <1>0, <1>2, ExecutorLives, ClaimLives, DuplicateLives, LifeStepLives
<1>3. ASSUME NEW e \in Executors, WriteStep(e) PROVE LifeInv' BY <1>0, <1>3, WriteStepLives
<1>4. ASSUME NEW e \in Executors, WriteRefused(e) \/ Crash(e) PROVE LifeInv'
  BY <1>0, <1>4, UnwindLives DEF WriteRefused, Crash
<1>5. ASSUME NEW i \in Intents, Environment(i) PROVE LifeInv'
  <2>1. UNCHANGED <<trade, w, pc, on, ex>> BY <1>5 DEF Environment, storeVars, locals
  <2>2. \A j \in Intents : \A k \in Kinds : net'[k][j] = "none" <=> net[k][j] = "none"
    BY <1>0, <1>5, SaleFacts, EnvironmentSendsNothing DEF Environment
  <2>3. \A f \in Executors : Lives(f)' BY <2>1, <2>2, OthersLive DEF Kinds
  <2> QED BY <1>0, <2>3 DEF LifeInv
<1>6. CASE UNCHANGED vars
  <2>1. UNCHANGED <<trade, w, pc, on, ex, net>>
    BY <1>6 DEF vars, storeVars, locals, exchangeVars
  <2>2. \A f \in Executors : Lives(f)' BY <2>1, OthersLive
  <2> QED BY <1>0, <2>2 DEF LifeInv
<1> QED BY <1>1, <1>2, <1>3, <1>4, <1>5, <1>6 DEF Next

-----------------------------------------------------------------------------
(* Every step is a step of the lifecycle, or none.                         *)

SameStates == \A i \in Intents : trade'[i].state = trade[i].state
SameSales ==
    \A i \in Intents : \A k \in {"oco", "emg"} : net'[k][i] = "none" <=> net[k][i] = "none"
SameGuards == \A i \in Intents : oco'[i] = "ABSENT" <=> oco[i] = "ABSENT"

\* The parts of the lifecycle that stay.
LEMMA PartsStay ==
    /\ SameStates =>
         [i \in Intents |-> trade'[i].state] = [i \in Intents |-> trade[i].state]
    /\ SameSales =>
         [i \in Intents |-> {k \in {"oco", "emg"} : net'[k][i] # "none"}] =
         [i \in Intents |-> {k \in {"oco", "emg"} : net[k][i] # "none"}]
    /\ SameGuards =>
         [i \in Intents |-> oco'[i] # "ABSENT"] = [i \in Intents |-> oco[i] # "ABSENT"]
BY DEF SameStates, SameSales, SameGuards

LEMMA Stutters ==
    ASSUME SameStates, SameSales, SameGuards, posts' = posts
    PROVE  UNCHANGED Lifecycle!vars
BY PartsStay DEF Lifecycle!vars, Submitted

LEMMA Advances ==
    ASSUME NEW i \in Intents, NEW s, Follows(trade[i].state, s),
           \A j \in Intents : trade'[j].state = IF j = i THEN s ELSE trade[j].state,
           s = "PROTECTED" => oco[i] # "ABSENT",
           SameSales, SameGuards, posts' = posts
    PROVE  Lifecycle!Advance(i) \/ UNCHANGED Lifecycle!vars
<1>1. CASE s = trade[i].state
  <2>1. SameStates BY <1>1 DEF SameStates
  <2> QED BY <2>1, Stutters
<1>2. CASE s # trade[i].state
  <2>1. s \in Lifecycle!Successors[trade[i].state] BY <1>2 DEF Follows
  <2>2. [j \in Intents |-> trade'[j].state] =
        [[j \in Intents |-> trade[j].state] EXCEPT ![i] = s]
    OBVIOUS
  <2>3. [j \in Intents |-> trade[j].state][i] = trade[i].state
        /\ [j \in Intents |-> oco[j] # "ABSENT"][i] = (oco[i] # "ABSENT")
    OBVIOUS
  <2> QED BY <2>1, <2>2, <2>3, PartsStay DEF Lifecycle!Advance, Submitted
<1> QED BY <1>1, <1>2

LEMMA SubmitsEntry ==
    ASSUME ExchangeTypeOK, NEW i \in Intents, Send("buy", i), SameStates,
           trade[i].state = "ENTRY_SUBMITTING", posts[i] = 0
    PROVE  Lifecycle!SubmitEntry(i)
<1>1. posts' = [posts EXCEPT ![i] = 1] BY DEF Send, ExchangeTypeOK
<1>2. SameSales /\ SameGuards BY DEF Send, SameSales, SameGuards, ExchangeTypeOK, Kinds
<1>3. [j \in Intents |-> trade[j].state][i] = "ENTRY_SUBMITTING" OBVIOUS
<1> QED BY <1>1, <1>2, <1>3, PartsStay DEF Lifecycle!SubmitEntry, Submitted

LEMMA SubmitsSale ==
    ASSUME ExchangeTypeOK, NEW i \in Intents, NEW k \in {"oco", "emg"}, Send(k, i), SameStates,
           trade[i].state = "PROTECTION_PENDING", net[k][i] = "none"
    PROVE  Lifecycle!SubmitSale(i)
<1> DEFINE S == [j \in Intents |-> {m \in {"oco", "emg"} : net[m][j] # "none"}]
           T == [j \in Intents |-> {m \in {"oco", "emg"} : net'[m][j] # "none"}]
<1>1. posts' = posts /\ SameGuards BY DEF Send, SameGuards
<1>2. \A j \in Intents : \A m \in {"oco", "emg"} :
        net'[m][j] # "none" <=> net[m][j] # "none" \/ (m = k /\ j = i)
  BY DEF Send, ExchangeTypeOK, Kinds
<1>3. T = [S EXCEPT ![i] = @ \cup {k}]
  <2>1. \A j \in Intents : T[j] = IF j = i THEN S[j] \cup {k} ELSE S[j] BY <1>2
  <2> QED BY <2>1
<1>4. k \in {"oco", "emg"} \ S[i] OBVIOUS
<1>5. [j \in Intents |-> trade[j].state][i] = "PROTECTION_PENDING" OBVIOUS
<1> QED BY <1>1, <1>3, <1>4, <1>5, PartsStay DEF Lifecycle!SubmitSale, Submitted

LEMMA GuardsIt ==
    ASSUME ExchangeTypeOK, NEW i \in Intents, AcceptOco(i), SameStates
    PROVE  Lifecycle!Guard(i)
<1>1. posts' = posts /\ SameSales
  BY DEF AcceptOco, Answer, SameSales, ExchangeTypeOK, Kinds
<1>2. [j \in Intents |-> oco'[j] # "ABSENT"] =
      [[j \in Intents |-> oco[j] # "ABSENT"] EXCEPT ![i] = TRUE]
  BY DEF AcceptOco, ExchangeTypeOK
<1>3. "oco" \in [j \in Intents |-> {m \in {"oco", "emg"} : net[m][j] # "none"}][i]
  BY DEF AcceptOco
<1> QED BY <1>1, <1>2, <1>3, PartsStay DEF Lifecycle!Guard, Submitted

LEMMA MoveFollows ==
    ASSUME LifeInv, NEW e \in Executors, LifeStep(e)
    PROVE  [Lifecycle!Next]_(Lifecycle!vars)
<1>1. /\ Ready(e) /\ on[e] \in Intents /\ SaleInv /\ ExchangeTypeOK
      /\ Fits(trade[on[e]].state, pc[e], ex[e].seen) /\ SaleIsFirst(e)
  BY LifeIsSale, SaleFacts DEF LifeStep, LifeInv, Lives, RowFits
<1>2. PICK l : LifeMove(e, l) BY DEF LifeStep
<1>3. SameStates BY DEF LifeStep, LifeWrite, storeVars, SameStates
<1>4. CASE /\ \A i \in Intents : /\ oco'[i] = "ABSENT" <=> oco[i] = "ABSENT"
                                 /\ \A k \in {"oco", "emg"} : Submitted(k, i)' <=> Submitted(k, i)
           /\ posts' = posts
  <2>1. SameSales /\ SameGuards BY <1>4 DEF SameSales, SameGuards, Submitted
  <2> QED BY <1>3, <1>4, <2>1, Stutters
<1>5. CASE pc[e] = "buySend" /\ Send("buy", on[e])
  <2>1. trade[on[e]].state = "ENTRY_SUBMITTING" BY <1>1, <1>5 DEF Fits
  <2>2. posts[on[e]] = 0 BY <1>1, <1>5, SaleFacts DEF OwnerSendsOnce, BeforeEntry
  <2>3. Lifecycle!SubmitEntry(on[e]) BY <1>1, <1>3, <1>5, <2>1, <2>2, SubmitsEntry
  <2> QED BY <1>1, <2>3 DEF Lifecycle!Next
<1>6. ASSUME NEW k \in {"oco", "emg"}, pc[e] \in {"ocoSend", "emgSend"}, Send(k, on[e]),
             net[k][on[e]] = "none"
      PROVE  [Lifecycle!Next]_(Lifecycle!vars)
  <2>1. trade[on[e]].state = "PROTECTION_PENDING" BY <1>1, <1>6 DEF Fits
  <2>2. Lifecycle!SubmitSale(on[e]) BY <1>1, <1>3, <1>6, <2>1, SubmitsSale
  <2> QED BY <1>1, <2>2 DEF Lifecycle!Next
<1>7. CASE pc[e] = "ocoSend" /\ Send("oco", on[e])
  <2>1. net["oco"][on[e]] = "none"
    BY <1>1, <1>7 DEF SaleIsFirst, Submitted, BeforeOco
  <2> QED BY <1>6, <1>7, <2>1
<1>8. CASE pc[e] = "emgSend" /\ Send("emg", on[e])
  <2>1. net["emg"][on[e]] = "none"
    BY <1>1, <1>8 DEF SaleIsFirst, Submitted, BeforeEmg
  <2> QED BY <1>6, <1>8, <2>1
<1> QED BY <1>2, <1>4, <1>5, <1>7, <1>8 DEF LifeMove

\* A claim is the first step of a life, and a write that lands the next one.
LEMMA StoreFollows ==
    ASSUME LifeInv, NEW e \in Executors,
           WriteStep(e) \/ \E i \in Intents : ClaimIntent(e, i) \/ DuplicateIntent(e, i)
    PROVE  [Lifecycle!Next]_(Lifecycle!vars)
<1>1. /\ SaleInv /\ trade \in [Intents -> Rows] /\ RowsAreTrue /\ WritesAreTrue /\ e \in Procs
  BY LifeIsSale, SaleFacts
<1>2. SameSales /\ SameGuards /\ posts' = posts
  BY DEF WriteStep, ClaimIntent, DuplicateIntent, exchangeVars, SameSales, SameGuards
<1>3. ASSUME trade' = trade PROVE [Lifecycle!Next]_(Lifecycle!vars)
  BY <1>2, <1>3, Stutters DEF SameStates
<1>4. ASSUME NEW i \in Intents, ClaimIntent(e, i) PROVE [Lifecycle!Next]_(Lifecycle!vars)
  <2>1. trade[i].state = "NONE"
        /\ trade' = [trade EXCEPT ![i] = [NoRow EXCEPT !.state = "SIGNAL_CREATED"]]
    BY <1>4 DEF ClaimIntent, ClaimRow
  <2>2. \A j \in Intents :
          trade'[j].state = IF j = i THEN "SIGNAL_CREATED" ELSE trade[j].state
    BY <1>1, <2>1 DEF NoRow
  <2>3. Follows(trade[i].state, "SIGNAL_CREATED") BY <2>1, SuccessorsAre
  <2>4. Lifecycle!Advance(i) \/ UNCHANGED Lifecycle!vars
    BY <1>2, <2>2, <2>3, Advances
  <2> QED BY <2>4 DEF Lifecycle!Next
<1>5. CASE WritePut(e)
  <2>1. ~Ready(e) /\ w[e].step = "put" BY <1>5 DEF WritePut, Ready
  <2>2. PICK s : s = w[e].row.state OBVIOUS
  <2>3. on[e] \in Intents /\ w[e].intent = on[e] /\ Follows(trade[on[e]].state, s)
    BY <2>1, <2>2 DEF LifeInv, Lives, RowFits
  <2>4. s = "PROTECTED" => oco[on[e]] # "ABSENT"
    BY <1>1, <2>1, <2>2, <2>3 DEF WritesAreTrue, Truthful
  <2>5. PICK i \in Intents : i = on[e] BY <2>3
  <2>6. \A j \in Intents : trade'[j].state = IF j = i THEN s ELSE trade[j].state
    BY <1>1, <1>5, <2>2, <2>3, <2>5 DEF WritePut
  <2>7. Lifecycle!Advance(i) \/ UNCHANGED Lifecycle!vars
    BY <1>2, <2>3, <2>4, <2>5, <2>6, Advances
  <2> QED BY <2>7 DEF Lifecycle!Next
<1>6. CASE WriteStep(e) /\ ~WritePut(e)
  BY <1>3, <1>6 DEF WriteStep, StoreStep, WriteGet, IndexGet, IndexPut
<1>7. ASSUME NEW i \in Intents, DuplicateIntent(e, i) PROVE [Lifecycle!Next]_(Lifecycle!vars)
  BY <1>3, <1>7 DEF DuplicateIntent, NoWrite, storeVars
<1> QED BY <1>4, <1>5, <1>6, <1>7

LEMMA LifeFollows ==
    ASSUME Reconcilers = {}, LifeInv, [Next]_vars
    PROVE  [Lifecycle!Next]_(Lifecycle!vars)
<1>0. SaleInv /\ ExchangeTypeOK BY LifeIsSale, SaleFacts
<1>1. Procs = Executors BY LiveAssumption DEF LiveAssumption
<1>2. ASSUME NEW e \in Executors, ExecutorStep(e) PROVE [Lifecycle!Next]_(Lifecycle!vars)
  BY <1>2, ExecutorLives, StoreFollows, MoveFollows
<1>3. ASSUME NEW e \in Executors, WriteStep(e) PROVE [Lifecycle!Next]_(Lifecycle!vars)
  BY <1>3, StoreFollows
<1>4. ASSUME NEW e \in Executors, WriteRefused(e) \/ Crash(e)
      PROVE  [Lifecycle!Next]_(Lifecycle!vars)
  <2>1. trade' = trade /\ UNCHANGED exchangeVars
    BY <1>4 DEF WriteRefused, Crash, Unwind, DropWrite
  <2> QED BY <2>1, Stutters DEF exchangeVars, SameStates, SameSales, SameGuards
<1>5. ASSUME NEW i \in Intents, Environment(i) PROVE [Lifecycle!Next]_(Lifecycle!vars)
  <2>1. SameStates BY <1>5 DEF Environment, storeVars, SameStates
  <2>2. ExchangeStep(i) BY <1>5 DEF Environment
  <2>3. SameSales /\ posts' = posts
    BY <1>0, <2>2, EnvironmentSendsNothing DEF SameSales, Kinds
  <2>4. CASE AcceptOco(i)
    <3>1. Lifecycle!Guard(i) BY <1>0, <2>1, <2>4, GuardsIt
    <3> QED BY <3>1 DEF Lifecycle!Next
  <2>5. CASE ~AcceptOco(i)
    <3>1. SameGuards
      BY <1>0, <2>2, <2>5
         DEF ExchangeStep, Reject, AcceptBuy, FillBuy, ExpireBuy, ExecuteOco,
             AcceptEmergency, OwnerCancelsOco, OwnerSells, ExchangeTypeOK, SameGuards
    <3> QED BY <2>1, <2>3, <3>1, Stutters
  <2> QED BY <2>4, <2>5
<1>6. CASE UNCHANGED vars
  BY <1>6, Stutters
     DEF vars, storeVars, exchangeVars, SameStates, SameSales, SameGuards
<1> QED BY <1>1, <1>2, <1>3, <1>4, <1>5, <1>6 DEF Next

\* Without a reconciler the executors implement the abstract lifecycle: for any
\* number of competing calls, lost answers and workers that die, a row only moves
\* forward, the entry and each sale leave at most once and only under a row that
\* says so, and a row says PROTECTED only of a list the exchange holds.
THEOREM ExecutorsImplementLifecycle == Reconcilers = {} => (Spec => FollowsLifecycle)
<1> SUFFICES ASSUME Reconcilers = {} PROVE Spec => FollowsLifecycle OBVIOUS
<1>1. Init => Lifecycle!Init
  <2> SUFFICES ASSUME Init PROVE Lifecycle!Init OBVIOUS
  <2>1. /\ \A i \in Intents : trade[i].state = "NONE" /\ oco[i] = "ABSENT"
        /\ \A i \in Intents : \A k \in {"oco", "emg"} : net[k][i] = "none"
        /\ posts = [i \in Intents |-> 0]
    BY DEF Init, StoreInit, ExchangeInit, NoRow, Kinds
  <2> QED BY <2>1 DEF Lifecycle!Init, Submitted
<1>2. LifeInv /\ [Next]_vars => LifeInv' BY LifeInvStep
<1>3. LifeInv /\ [Next]_vars => [Lifecycle!Next]_(Lifecycle!vars) BY LifeFollows
<1> QED BY <1>1, <1>2, <1>3, LifeInit, PTL DEF Spec, FollowsLifecycle, Lifecycle!Spec
=============================================================================
