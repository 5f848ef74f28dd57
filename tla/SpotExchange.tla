---------------------------- MODULE SpotExchange ----------------------------
(***************************************************************************)
(* Binance Spot and the signing relay in front of it, external to the      *)
(* repository's worker and modelled from how supabase-live-client.js uses  *)
(* them.  Each intent has three signed POSTs, told apart by their          *)
(* deterministic client ids: the entry order, the protective OCO list and  *)
(* the emergency market sale.  A POST that was sent may be executed,       *)
(* rejected, or lost, and with LateDelivery it may be executed after its   *)
(* caller gave up on it.                                                   *)
(***************************************************************************)
EXTENDS Naturals, TradeIntents

CONSTANTS
    LateDelivery,   \* may a request outlive the caller's timeout?
    ThinBook,       \* may a market sale expire without a fill?
    ManualActions   \* may the account owner cancel or sell by hand?

ASSUME ExchangeAssumption ==
    {LateDelivery, ThinBook, ManualActions} \subseteq BOOLEAN

VARIABLES
    buy,    \* the entry order: its status and executed quantity
    oco,    \* the protective list
    emg,    \* the emergency sale
    held,   \* quantity bought for the intent and not sold yet
    net,    \* how far each POST got
    posts   \* how many entry orders were ever submitted (a ghost)

exchangeVars == <<buy, oco, emg, held, net, posts>>

Kinds == {"buy", "oco", "emg"}
Lot == 2        \* quantity of a complete entry; 1 is a partial fill

OpenEntry == {"NEW", "PARTIALLY_FILLED"}
\* terminalEntryStatus; CANCELED stands for every end without a full fill.
TerminalEntry == {"FILLED", "CANCELED"}
Orders == [status : {"ABSENT"} \cup OpenEntry \cup TerminalEntry, qty : 0..Lot]
NoOrder == [status |-> "ABSENT", qty |-> 0]

ExchangeTypeOK ==
    /\ buy \in [Intents -> Orders]
    /\ oco \in [Intents -> {"ABSENT", "EXECUTING", "TP", "SL", "GONE"}]
    /\ emg \in [Intents -> {"ABSENT", "FILLED", "EXPIRED"}]
    /\ held \in [Intents -> 0..Lot]
    /\ \A i \in Intents : held[i] <= buy[i].qty
    /\ net \in [Kinds -> [Intents -> {"none", "sent", "ok", "reject", "lost"}]]
    /\ posts \in [Intents -> Nat]

ExchangeInit ==
    /\ buy = [i \in Intents |-> NoOrder]
    /\ oco = [i \in Intents |-> "ABSENT"]
    /\ emg = [i \in Intents |-> "ABSENT"]
    /\ held = [i \in Intents |-> 0]
    /\ net = [k \in Kinds |-> [i \in Intents |-> "none"]]
    /\ posts = [i \in Intents |-> 0]

-----------------------------------------------------------------------------
(* The caller's side of a POST.                                            *)

Send(k, i) ==
    /\ net' = [net EXCEPT ![k][i] = "sent"]
    /\ posts' = IF k = "buy" THEN [posts EXCEPT ![i] = @ + 1] ELSE posts
    /\ UNCHANGED <<buy, oco, emg, held>>

\* The caller's 15 s timeout: it learns nothing.
GiveUp(k, i) ==
    /\ net' = IF net[k][i] = "sent" /\ ~LateDelivery
              THEN [net EXCEPT ![k][i] = "lost"] ELSE net
    /\ UNCHANGED <<buy, oco, emg, held, posts>>

\* DELETE /api/v3/order: ends an open order, finds nothing to end otherwise.
CancelEntry(i) ==
    /\ buy' = IF buy[i].status \in OpenEntry
              THEN [buy EXCEPT ![i].status = "CANCELED"] ELSE buy
    /\ UNCHANGED <<oco, emg, held, net, posts>>

-----------------------------------------------------------------------------
(* The exchange's own steps.                                               *)

Answer(k, i, a) == net' = [net EXCEPT ![k][i] = a]

Reject(k, i) ==
    /\ net[k][i] = "sent"
    /\ Answer(k, i, "reject")
    /\ UNCHANGED <<buy, oco, emg, held, posts>>

AcceptBuy(i) ==
    /\ net["buy"][i] = "sent"
    /\ buy[i].status = "ABSENT"
    /\ buy' = [buy EXCEPT ![i].status = "NEW"]
    /\ Answer("buy", i, "ok")
    /\ UNCHANGED <<oco, emg, held, posts>>

FillBuy(i) ==
    /\ buy[i].status \in OpenEntry
    /\ \E q \in (buy[i].qty + 1)..Lot :
        /\ buy' = [buy EXCEPT ![i] =
                    [status |-> IF q = Lot THEN "FILLED" ELSE "PARTIALLY_FILLED",
                     qty |-> q]]
        /\ held' = [held EXCEPT ![i] = @ + q - buy[i].qty]
    /\ UNCHANGED <<oco, emg, net, posts>>

\* A market order whose rest finds no liquidity expires.
ExpireBuy(i) ==
    /\ buy[i].status \in OpenEntry
    /\ buy' = [buy EXCEPT ![i].status = "CANCELED"]
    /\ UNCHANGED <<oco, emg, held, net, posts>>

\* A sale needs a balance that no other order has locked.
AcceptOco(i) ==
    /\ net["oco"][i] = "sent"
    /\ held[i] > 0 /\ oco[i] = "ABSENT"
    /\ oco' = [oco EXCEPT ![i] = "EXECUTING"]
    /\ Answer("oco", i, "ok")
    /\ UNCHANGED <<buy, emg, held, posts>>

ExecuteOco(i) ==
    /\ oco[i] = "EXECUTING"
    /\ \E leg \in {"TP", "SL"} : oco' = [oco EXCEPT ![i] = leg]
    /\ held' = [held EXCEPT ![i] = 0]
    /\ UNCHANGED <<buy, emg, net, posts>>

AcceptEmergency(i) ==
    /\ net["emg"][i] = "sent"
    /\ held[i] > 0 /\ oco[i] # "EXECUTING" /\ emg[i] = "ABSENT"
    /\ \/ /\ emg' = [emg EXCEPT ![i] = "FILLED"]
          /\ held' = [held EXCEPT ![i] = 0]
       \/ /\ ThinBook
          /\ emg' = [emg EXCEPT ![i] = "EXPIRED"]
          /\ UNCHANGED held
    /\ Answer("emg", i, "ok")
    /\ UNCHANGED <<buy, oco, posts>>

OwnerCancelsOco(i) ==
    /\ ManualActions
    /\ oco[i] = "EXECUTING"
    /\ oco' = [oco EXCEPT ![i] = "GONE"]
    /\ UNCHANGED <<buy, emg, held, net, posts>>

OwnerSells(i) ==
    /\ ManualActions
    /\ held[i] > 0 /\ oco[i] # "EXECUTING"
    /\ held' = [held EXCEPT ![i] = 0]
    /\ UNCHANGED <<buy, oco, emg, net, posts>>

ExchangeStep(i) ==
    \/ \E k \in Kinds : Reject(k, i)
    \/ AcceptBuy(i) \/ FillBuy(i) \/ ExpireBuy(i)
    \/ AcceptOco(i) \/ ExecuteOco(i) \/ AcceptEmergency(i)
    \/ OwnerCancelsOco(i) \/ OwnerSells(i)

-----------------------------------------------------------------------------
(* What a GET shows.                                                       *)

ListStatus(i) ==
    CASE oco[i] = "ABSENT" -> "ABSENT"
      [] oco[i] = "EXECUTING" -> "EXECUTING"
      [] OTHER -> "ALL_DONE"

LegStatus(i, leg) ==
    CASE oco[i] = "ABSENT" -> "ABSENT"
      [] oco[i] = "EXECUTING" -> "NEW"
      [] oco[i] = leg -> "FILLED"
      [] OTHER -> "CANCELED"

BaseBalance(i) == IF held[i] = 0 THEN "dust" ELSE "held"
=============================================================================
