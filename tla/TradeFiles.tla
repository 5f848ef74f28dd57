----------------------------- MODULE TradeFiles -----------------------------
(***************************************************************************)
(* The canonical trade state of src/freqtrade/trade_state.py: the position *)
(* file and the reservation file on the persistent volume.  Every helper   *)
(* runs under one lock shared by all processes, so a helper is one step;   *)
(* what may separate its two writes is only a crash between them.          *)
(*                                                                         *)
(* A position is kept under its signal id, or under REC-<symbol>-<list>    *)
(* when the reconciler rebuilt it from an order list it did not know.      *)
(***************************************************************************)
EXTENDS Naturals

CONSTANTS
    Signals,    \* signal ids, each on a symbol of its own
    MaxLists,   \* bound: OCO lists the exchange ever opens
    MaxStop     \* bound: stop levels, 1 is the level of the signal

ASSUME FilesAssumption ==
    /\ Signals # {}
    /\ MaxLists \in Nat \ {0}
    /\ MaxStop \in Nat \ {0}
    /\ \A l \in 1..MaxLists : <<"REC", l>> \notin Signals   \* no signal has such an id

VARIABLES
    pos,    \* the position file
    res     \* the reservation file: key -> action -> status

Lists == 1..MaxLists
Stops == 1..MaxStop
Rec(l) == <<"REC", l>>
Keys == Signals \cup {Rec(l) : l \in Lists}
Actions == {"BUY", "OCO"}

Positions ==
    [st   : {"NONE", "BUY_FILLED", "PROTECTION_PENDING", "OCO_ACTIVE", "CLOSED"},
     list : 0..MaxLists,        \* oco_order_list_id, 0 is none
     stop : 0..MaxStop]

Reservations ==
    {"NONE", "RESERVED", "UNKNOWN", "FILLED", "PLACED", "REJECTED",
     "CLOSED_NO_FILL", "REPLACE_FAILED"}

Unresolved == {"RESERVED", "UNKNOWN"}

FilesInit ==
    /\ pos = [k \in Keys |-> [st |-> "NONE", list |-> 0, stop |-> 0]]
    /\ res = [k \in Keys |-> [a \in Actions |-> "NONE"]]

Tracked(k) == pos[k].st # "NONE"
OpenPosition(k) == pos[k].st \in {"BUY_FILLED", "PROTECTION_PENDING", "OCO_ACTIVE"}
KnownLists == {pos[k].list : k \in Keys} \ {0}

\* update_reservation: a row that does not exist is left alone.
SetReservation(k, a, status) ==
    res' = IF res[k][a] = "NONE" THEN res ELSE [res EXCEPT ![k][a] = status]

\* update_position with a status: no look at the status it replaces.
SetStatus(k, status) ==
    pos' = IF Tracked(k) THEN [pos EXCEPT ![k].st = status] ELSE pos

\* Mutant: an uncertain execution may be tried again.
MayRetry(k, a) == res[k][a] \in {"NONE", "UNKNOWN"}

\* reserve_execution: the first caller of a signal and action, and only it.  The
\* file is taken to be readable: load_reservations answers a read error with an
\* empty file, and then anyone is the first.
MayReserve(k, a) == res[k][a] = "NONE"
Reserve(k, a) == res' = [res EXCEPT ![k][a] = "RESERVED"]

\* record_buy: the levels of the signal again, whatever the position had.
BuyPosition(k) == [pos EXCEPT ![k].st = "BUY_FILLED", ![k].stop = 1]
RecordBuy(k) ==
    /\ pos' = BuyPosition(k)
    /\ SetReservation(k, "BUY", "FILLED")

\* record_oco, and _record_new_oco of the dynamic exit manager.
OcoPosition(k, l, stop) ==
    [pos EXCEPT ![k] = [st |-> "OCO_ACTIVE", list |-> l, stop |-> stop]]
RecordOco(k, l, stop) ==
    /\ pos' = OcoPosition(k, l, stop)
    /\ SetReservation(k, "OCO", "PLACED")

ClosePosition(k) == SetStatus(k, "CLOSED")
=============================================================================
