---------------------------- MODULE TradeIntents ----------------------------
(***************************************************************************)
(* The trade intents of the live executor, one per (signal, symbol):       *)
(* deterministicIntentId and every client order id are functions of them,  *)
(* so an intent stands for the row, the orders and the locks it names.     *)
(***************************************************************************)
CONSTANTS
    Intents,    \* the intents
    NoIntent    \* the intent of a process that works on none

ASSUME IntentAssumption == NoIntent \notin Intents
=============================================================================
