----------------------------- MODULE TradeStore -----------------------------
(***************************************************************************)
(* The durable side of the live executor: the rows `trade-intent:<id>` and *)
(* the index `live:active-intents` of src/src/supabase-live-client.js.     *)
(* The store offers get, put and an atomic claim; it has no transaction, so *)
(* writeTradeState is four calls (get row, put row, get index, put index)  *)
(* and any other process may run between two of them.                      *)
(***************************************************************************)
EXTENDS Naturals, Sequences, TradeIntents

CONSTANTS
    Procs,      \* worker invocations that write trade state
    IndexCap    \* the bound of the active index (20 in the code)

ASSUME StoreAssumption == IndexCap \in Nat \ {0}

VARIABLES
    trade,      \* intent -> its trade-intent row
    index,      \* live:active-intents, oldest entry first
    w           \* process -> the writeTradeState call it is executing

storeVars == <<trade, index, w>>

TradeStates ==
    {"SIGNAL_CREATED", "APPROVED", "ENTRY_SUBMITTING", "ENTRY_ACCEPTED",
     "PARTIALLY_FILLED", "FILLED", "PROTECTION_PENDING", "PROTECTED",
     "EXITED", "FAILED_SAFE"}

\* The marks a row carries.  The one patch that clears a mark
\* (emergencyClosed:false, after a sale that did not close) is written by calls
\* that never set it, so {...previous, ...patch} is the union of the two sets.
Flags == {"unprotectedPosition", "emergencyClosed", "protectionIds"}

\* How an EXITED row was reached: nothing, a balance that went away, or a
\* matched exit order whose PnL came from complete or incomplete trade reads.
Exits == {"none", "external", "exact", "inexact"}

Rows == [state : TradeStates \cup {"NONE"}, flags : SUBSET Flags, exit : Exits]

NoRow == [state |-> "NONE", flags |-> {}, exit |-> "none"]

NoCall == [step |-> "none", intent |-> NoIntent, row |-> NoRow, index |-> <<>>]

\* A call in progress: its next step, and what it has read.  `row` is the patch
\* before the row is read and the merged row after.
Calls == [step : {"get", "put", "ixget", "ixput"}, intent : Intents,
          row : Rows, index : Seq(Intents)]

StoreTypeOK ==
    /\ trade \in [Intents -> Rows]
    /\ index \in Seq(Intents)
    /\ w \in [Procs -> Calls \cup {NoCall}]

StoreInit ==
    /\ trade = [i \in Intents |-> NoRow]
    /\ index = <<>>
    /\ w = [p \in Procs |-> NoCall]

\* A process runs its own code only between two writeTradeState calls.
Ready(p) == w[p].step = "none"

-----------------------------------------------------------------------------

\* A bug Ownership must catch: a claim that overwrites the row it finds.
ClaimRowAsPut(i) ==
    /\ trade' = [trade EXCEPT ![i] = [NoRow EXCEPT !.state = "SIGNAL_CREATED"]]
    /\ UNCHANGED index

\* claimIntent: the atomic claim of a fresh row.
ClaimRow(i) ==
    /\ trade[i].state = "NONE"
    /\ trade' = [trade EXCEPT ![i] = [NoRow EXCEPT !.state = "SIGNAL_CREATED"]]
    /\ UNCHANGED index

\* Call writeTradeState(intent, state, patch).
BeginWrite(p, i, state, flags, exit) ==
    w' = [w EXCEPT ![p] =
            [step |-> "get", intent |-> i, index |-> <<>>,
             row |-> [state |-> state, flags |-> flags, exit |-> exit]]]

\* The two throws of writeTradeState, decided on the row read first.
Refused(previous, state) ==
    \/ previous.state = "EXITED" /\ state # "EXITED"
    \/ previous.state = "FAILED_SAFE" /\ state \notin {"FAILED_SAFE", "EXITED"}

Merge(previous, patch) ==
    [state |-> patch.state,
     flags |-> previous.flags \cup patch.flags,
     exit  |-> IF patch.exit = "none" THEN previous.exit ELSE patch.exit]

\* The rows updateActiveIntentIndex keeps in the index.
Active(row) ==
    \/ row.state \in {"PROTECTED", "PROTECTION_PENDING", "FILLED", "PARTIALLY_FILLED"}
    \/ row.state = "FAILED_SAFE" /\ "unprotectedPosition" \in row.flags

\* rows.filter(x => x.intentId !== i): an index never lists an intent twice.
Without(s, i) ==
    IF \E k \in 1..Len(s) : s[k] = i
    THEN LET k == CHOOSE k \in 1..Len(s) : s[k] = i
         IN  [j \in 1..(Len(s) - 1) |-> s[IF j < k THEN j ELSE j + 1]]
    ELSE s

\* slice(-IndexCap)
Newest(s) ==
    IF Len(s) <= IndexCap THEN s
    ELSE [j \in 1..IndexCap |-> s[Len(s) - IndexCap + j]]

Reindexed(s, i, row) ==
    Newest(IF Active(row) THEN Append(Without(s, i), i) ELSE Without(s, i))

WriteGet(p) ==
    /\ w[p].step = "get"
    /\ ~Refused(trade[w[p].intent], w[p].row.state)
    /\ w' = [w EXCEPT ![p].step = "put",
                      ![p].row = Merge(trade[w[p].intent], w[p].row)]
    /\ UNCHANGED <<trade, index>>

WritePut(p) ==
    /\ w[p].step = "put"
    /\ trade' = [trade EXCEPT ![w[p].intent] = w[p].row]
    /\ w' = [w EXCEPT ![p].step = "ixget"]
    /\ UNCHANGED index

IndexGet(p) ==
    /\ w[p].step = "ixget"
    /\ w' = [w EXCEPT ![p].step = "ixput", ![p].index = index]
    /\ UNCHANGED <<trade, index>>

\* The call is over: its locals are dropped.
IndexPut(p) ==
    /\ w[p].step = "ixput"
    /\ index' = Reindexed(w[p].index, w[p].intent, w[p].row)
    /\ w' = [w EXCEPT ![p] = NoCall]
    /\ UNCHANGED trade

StoreStep(p) == WriteGet(p) \/ WritePut(p) \/ IndexGet(p) \/ IndexPut(p)

\* The call throws, or its process dies: what was put stays put.
DropWrite(p) ==
    /\ w' = [w EXCEPT ![p] = NoCall]
    /\ UNCHANGED <<trade, index>>
=============================================================================
