--------------------------- MODULE TradeLifecycle ---------------------------
(***************************************************************************)
(* What the live executor promises about an intent, whatever workers die,  *)
(* whatever answers are lost and however many calls compete for it:        *)
(*   - its durable state only moves forward through the trade states;      *)
(*   - the entry order is submitted at most once, and only when the row    *)
(*     already says ENTRY_SUBMITTING;                                      *)
(*   - a sale is submitted at most once per kind, and only when the row    *)
(*     already says PROTECTION_PENDING;                                    *)
(*   - the row says PROTECTED only when the exchange holds the OCO list.   *)
(* LiveTrade without a reconciler is shown to implement it.                *)
(***************************************************************************)
EXTENDS Naturals

CONSTANT Intents

VARIABLES
    state,      \* intent -> the durable trade state
    entries,    \* intent -> entry orders submitted
    sales,      \* intent -> the kinds of sale submitted
    guarded     \* intent -> has the exchange accepted the OCO list?

vars == <<state, entries, sales, guarded>>

Fills == {"FILLED", "PARTIALLY_FILLED"}

\* The states a trade may go to from each state.
Successors ==
    [NONE               |-> {"SIGNAL_CREATED"},
     SIGNAL_CREATED     |-> {"APPROVED"},
     APPROVED           |-> {"ENTRY_SUBMITTING", "FAILED_SAFE"},
     ENTRY_SUBMITTING   |-> {"ENTRY_ACCEPTED", "FAILED_SAFE"} \cup Fills,
     ENTRY_ACCEPTED     |-> {"FAILED_SAFE"} \cup Fills,
     FILLED             |-> {"PROTECTION_PENDING", "FAILED_SAFE"},
     PARTIALLY_FILLED   |-> {"PROTECTION_PENDING", "FAILED_SAFE"},
     PROTECTION_PENDING |-> {"PROTECTED", "FAILED_SAFE"},
     PROTECTED          |-> {},
     FAILED_SAFE        |-> {}]

Init ==
    /\ state = [i \in Intents |-> "NONE"]
    /\ entries = [i \in Intents |-> 0]
    /\ sales = [i \in Intents |-> {}]
    /\ guarded = [i \in Intents |-> FALSE]

Advance(i) ==
    /\ \E s \in Successors[state[i]] :
        /\ s = "PROTECTED" => guarded[i]
        /\ state' = [state EXCEPT ![i] = s]
    /\ UNCHANGED <<entries, sales, guarded>>

SubmitEntry(i) ==
    /\ state[i] = "ENTRY_SUBMITTING"
    /\ entries[i] = 0
    /\ entries' = [entries EXCEPT ![i] = 1]
    /\ UNCHANGED <<state, sales, guarded>>

SubmitSale(i) ==
    /\ state[i] = "PROTECTION_PENDING"
    /\ \E k \in {"oco", "emg"} \ sales[i] : sales' = [sales EXCEPT ![i] = @ \cup {k}]
    /\ UNCHANGED <<state, entries, guarded>>

Guard(i) ==
    /\ "oco" \in sales[i]
    /\ guarded' = [guarded EXCEPT ![i] = TRUE]
    /\ UNCHANGED <<state, entries, sales>>

Next == \E i \in Intents : Advance(i) \/ SubmitEntry(i) \/ SubmitSale(i) \/ Guard(i)

Spec == Init /\ [][Next]_vars
=============================================================================
