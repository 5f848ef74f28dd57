---------------------------- MODULE IndicatorBot ----------------------------
(***************************************************************************)
(* ready_bot/indicator_bot.py: one run per invocation over a paper ledger  *)
(* in indicator_state.json.  A run loads the ledger, starts a new day when *)
(* the date changed, prices the universe, manages every open position,     *)
(* weighs the market gates, opens what it may and saves the ledger with    *)
(* one rename; a run that dies leaves the old file.  A position is one     *)
(* unit; prices, fees and slippage are whole numbers of the same scale.    *)
(***************************************************************************)
EXTENDS MicroEntry, FiniteSets, FiniteSetsExt

CONSTANTS Symbols,
          Ask, Bids,             \* prices a book can show
          Risks,                 \* distances from the entry to its stop
          Fee, Slip, WorseSlip,  \* per fill; Slip is the budgeted slippage
          Trail,                 \* trailing distance, trailing_atr_multiplier * ATR
          Cash,                  \* starting_cash_usdt
          MaxOpen, MaxDaily, MaxTrade, MaxPortfolio,
          FadeAge, IdleAge, HardAge, CoolAge, LossesToCool,
          EvidenceScope,         \* evidence_gate.scope
          MaxUnavailable,        \* max_unavailable_symbol_fraction, in per cent
          MaxTrades, MaxDays, MaxFaults   \* bounds of the exploration

\* what a run refuses to start without (validate_config): limits above zero and a
\* cooldown after two losses or more.  How the limits compare is not checked there.
ASSUME BotAssumption ==
  /\ IsFiniteSet(Symbols)
  /\ Ask \in Nat \ {0} /\ Bids \subseteq Nat \ {0} /\ Risks \subseteq Nat \ {0}
  /\ Fee \in Nat /\ Slip \in Nat /\ WorseSlip \in Nat /\ Trail \in Nat /\ Cash \in Nat
  /\ {MaxDaily, MaxTrade} \subseteq Nat \ {0} /\ MaxPortfolio \in Nat
  /\ {FadeAge, IdleAge, HardAge} \subseteq Nat
  /\ CoolAge \in Nat /\ LossesToCool \in Nat /\ LossesToCool >= 2

VARIABLES file,      \* indicator_state.json
          ledger,    \* the run's own copy of it
          step,      \* what the run does next, "idle" between runs
          bid,       \* symbol -> the price this run read, 0 when unavailable
          fresh,     \* symbols not held when the books were read
          todo,      \* positions to manage, then signals to weigh
          today,     \* the UTC date
          faults     \* dead runs, lost universes and unpriced positions so far
vars == <<file, ledger, step, bid, fresh, todo, today, faults>>

None == [entry |-> 0, stop |-> 0, risk |-> 0, even |-> FALSE, ran |-> FALSE,
         age |-> 0]
\* losses: losing closes in a row at the end of closed_trades; quiet: minutes
\* since the last of them; seen, done: symbols whose signal id of this minute is
\* in "seen", in "executed_signal_ids"; gap: what fills of this day were worse
\* than the stop the budget had counted with (kept for the properties)
load_state ==
  [cash |-> Cash, pos |-> [s \in Symbols |-> None], day |-> 1, dayPnl |-> 0,
   losses |-> 0, quiet |-> CoolAge, seen |-> {}, done |-> {}, trades |-> 0,
   gap |-> 0]
Init == /\ file = load_state /\ ledger = load_state /\ step = "idle"
        /\ bid = [s \in Symbols |-> 0] /\ fresh = {} /\ todo = {} /\ today = 1 /\ faults = 0

Held(l) == {s \in Symbols : l.pos[s].entry > 0}
Cost(p) == p.entry + Fee
\* cost less the proceeds of a fill at the stop
stop_risk(p) == Max({0, Cost(p) - (p.stop - Slip - Fee)})
Risk(l) == [s \in Symbols |-> stop_risk(l.pos[s])]
portfolio_stop_risk(l) == SumFunctionOnSet(Risk(l), Held(l))
Loss(l) == Max({0, -l.dayPnl})

reset_day(l) == IF l.day = today THEN l
                ELSE [l EXCEPT !.day = today, !.dayPnl = 0, !.gap = 0]

(***************************************************************************)
(* Loading, and the market reads.                                          *)
(***************************************************************************)
RunStarts == /\ step = "idle"
             /\ ledger' = reset_day(file)
             /\ step' = "universe"
             /\ UNCHANGED <<file, bid, fresh, todo, today, faults>>

\* no universe: the ledger is saved as it is, positions are not managed
UniverseFails == /\ step = "universe" /\ faults < MaxFaults
                 /\ step' = "save" /\ faults' = faults + 1
                 /\ UNCHANGED <<file, ledger, bid, fresh, todo, today>>

\* every symbol is read by itself and may fail; positions outside the universe
\* are read too (the price of a symbol that is not held only decides whether it
\* is a signal, see SignalsWeighed)
SnapshotsRead ==
  /\ step = "universe"
  /\ \E price \in [Held(ledger) -> Bids \cup {0}] :
       /\ bid' = [s \in Symbols |-> IF s \in Held(ledger) THEN price[s] ELSE Ask]
       /\ \/ 0 \notin {price[s] : s \in Held(ledger)} /\ UNCHANGED faults
          \/ /\ 0 \in {price[s] : s \in Held(ledger)} /\ faults < MaxFaults
             /\ faults' = faults + 1
  /\ fresh' = Symbols \ Held(ledger)
  /\ todo' = Held(ledger)
  /\ step' = "manage"
  /\ UNCHANGED <<file, ledger, today>>

(***************************************************************************)
(* manage_position and close_position.                                     *)
(***************************************************************************)
close_position(l, s, fill) ==
  LET p   == l.pos[s]
      pnl == fill - Fee - Cost(p)
  IN  [l EXCEPT !.pos[s] = None, !.cash = @ + fill - Fee, !.dayPnl = @ + pnl,
                !.losses = IF pnl < 0 THEN Min({@ + 1, LossesToCool}) ELSE 0,
                !.quiet = IF pnl < 0 THEN 0 ELSE CoolAge,
                !.gap = @ + Max({0, p.stop - Slip - fill})]

Priced(p, b) == [p EXCEPT !.ran = @ \/ 2 * (b - p.entry) >= p.risk]
MustCloseUntimed(p, b, faded) ==
  \/ b <= p.stop
  \/ b >= p.entry + 2 * p.risk
  \/ p.age >= FadeAge /\ faded
  \/ p.age >= IdleAge /\ ~p.ran
MustClose(p, b, faded) ==
  \/ b <= p.stop                        \* STOP
  \/ b >= p.entry + 2 * p.risk          \* TARGET
  \/ p.age >= FadeAge /\ faded          \* MOMENTUM_FADE
  \/ p.age >= IdleAge /\ ~p.ran         \* TIME_NO_FOLLOW_THROUGH
  \/ p.age >= HardAge                   \* HARD_TIME_STOP
\* breakeven first, then the trailing stop
TrailedLoosely(p, b) ==
  LET even == p.even \/ b >= p.entry + p.risk
  IN  [p EXCEPT !.even = even, !.stop = IF even THEN b - Trail ELSE @]
Trailed(p, b) ==
  LET even == p.even \/ b >= p.entry + p.risk
      base == IF b >= p.entry + p.risk THEN Max({p.stop, p.entry}) ELSE p.stop
  IN  [p EXCEPT !.even = even, !.stop = IF even THEN Max({base, b - Trail}) ELSE base]

\* the depth prices the exit, or the conservative fallback does
manage_position(s) ==
  /\ step = "manage" /\ s \in todo /\ bid[s] > 0
  /\ LET p == Priced(ledger.pos[s], bid[s])
     IN  \E faded \in BOOLEAN :
           IF MustClose(p, bid[s], faded)
           THEN \E slip \in {0, WorseSlip} :
                  ledger' = close_position(ledger, s, bid[s] - slip)
           ELSE ledger' = [ledger EXCEPT !.pos[s] = Trailed(p, bid[s])]
  /\ todo' = todo \ {s}
  /\ UNCHANGED <<file, step, bid, fresh, today, faults>>

\* OPEN_POSITION_UNPRICED: left for another run, and no entries in this one
UnpricedPosition(s) ==
  /\ step = "manage" /\ s \in todo /\ bid[s] = 0
  /\ todo' = todo \ {s}
  /\ UNCHANGED <<file, ledger, step, bid, fresh, today, faults>>

(***************************************************************************)
(* The gates and the entries.                                              *)
(***************************************************************************)
consecutive_loss_cooldown == ledger.losses = LossesToCool /\ ledger.quiet < CoolAge
\* the mode is "paper", so a gate of scope "live_only" blocks nothing
evidence_blocks_entries(claimed, trades, net) ==
  EvidenceScope # "live_only" /\ ~(claimed /\ trades /\ net)
Evidence == {e \in BOOLEAN : \E claimed, trades, net \in BOOLEAN :
                              e = ~evidence_blocks_entries(claimed, trades, net)}
EntriesAllowed == /\ ~consecutive_loss_cooldown
                  /\ \A s \in Held(ledger) : bid[s] > 0
                  /\ ledger.dayPnl > -MaxDaily

\* a symbol whose bars fail counts against the whole universe
Readings == {fetch_symbol_snapshot(f) : f \in Facts}
Gates == {MarketAllows(m) /\ e : m \in Markets, e \in Evidence}
data_integrity_ok(read) ==
  100 * Cardinality({s \in fresh : read[s] = "unavailable"})
    <= MaxUnavailable * Cardinality(Symbols)
Signals(read) ==
  {s \in fresh : read[s] = "eligible" /\ data_integrity_ok(read)}

\* only symbols that were not held when the books were read can be eligible
SignalsWeighed ==
  /\ step = "manage" /\ todo = {}
  /\ \E open \in Gates :
       todo' \in IF open /\ EntriesAllowed
                THEN {Signals(read) : read \in [fresh -> Readings]} ELSE {{}}
  /\ step' = "enter"
  /\ UNCHANGED <<file, ledger, bid, fresh, today, faults>>

NewPosition(risk) == [None EXCEPT !.entry = Ask, !.stop = Ask - risk, !.risk = risk]
Affordable(l, s, p) ==
  /\ Cardinality(Held(l)) < MaxOpen /\ s \notin Held(l)
  /\ l.dayPnl > -MaxDaily
  /\ Cost(p) <= l.cash
  /\ s \notin l.done
  /\ stop_risk(p) <= MaxTrade
  /\ portfolio_stop_risk(l) + stop_risk(p) <= MaxPortfolio
MayOpen(l, s, p) ==
  /\ Affordable(l, s, p)
  /\ Loss(l) + portfolio_stop_risk(l) + stop_risk(p) <= MaxDaily
open_position(l, s, p) ==
  IF MayOpen(l, s, p)
  THEN [l EXCEPT !.pos[s] = p, !.cash = @ - Cost(p), !.done = @ \cup {s},
                 !.trades = @ + 1]
  ELSE l

Answers == {Fills(o) : o \in Orders}
Full == Cardinality(Held(ledger)) >= MaxOpen
\* one signal: seen in this minute, refused on the way to its fill, or tried
EntryDecided(s) ==
  /\ step = "enter" /\ s \in todo /\ ~Full
  /\ \E risk \in Risks, ok \in Answers :
       ledger' = IF s \in ledger.seen THEN ledger
                 ELSE [(IF ok /\ ledger.trades < MaxTrades
                        THEN open_position(ledger, s, NewPosition(risk))
                        ELSE ledger) EXCEPT !.seen = @ \cup {s}]
  /\ todo' = todo \ {s}
  /\ UNCHANGED <<file, step, bid, fresh, today, faults>>

\* a full book leaves the other signals as they are, not even marked as seen
EntriesDone == /\ step = "enter" /\ (todo = {} \/ Full)
               /\ step' = "save" /\ todo' = {}
               /\ UNCHANGED <<file, ledger, bid, fresh, today, faults>>

\* written to a temporary file and renamed
save_state == /\ step = "save"
              /\ file' = ledger /\ step' = "idle"
              /\ bid' = [s \in Symbols |-> 0] /\ fresh' = {}
              /\ UNCHANGED <<ledger, todo, today, faults>>

(***************************************************************************)
(* The environment: the run dies, time passes between runs, a day ends.    *)
(***************************************************************************)
Crash == /\ step # "idle" /\ faults < MaxFaults /\ faults' = faults + 1
         /\ step' = "idle" /\ todo' = {} /\ fresh' = {}
         /\ bid' = [s \in Symbols |-> 0] /\ ledger' = file
         /\ UNCHANGED <<file, today>>
Older(p) == IF p.entry = 0 THEN p ELSE [p EXCEPT !.age = Min({@ + 1, HardAge})]
TimePasses == /\ step = "idle"
              /\ file' = [file EXCEPT !.pos = [s \in Symbols |-> Older(@[s])],
                                      !.quiet = Min({@ + 1, CoolAge}),
                                      !.seen = {}, !.done = {}]
              /\ ledger' = file'
              /\ UNCHANGED <<step, bid, fresh, todo, today, faults>>
Midnight == /\ today < MaxDays
            /\ today' = today + 1
            /\ UNCHANGED <<file, ledger, step, bid, fresh, todo, faults>>

Run == \/ RunStarts \/ UniverseFails \/ SnapshotsRead \/ SignalsWeighed
       \/ EntriesDone \/ save_state
       \/ \E s \in Symbols : \/ manage_position(s) \/ UnpricedPosition(s)
                             \/ EntryDecided(s)
Next == Run \/ Crash \/ TimePasses \/ Midnight
Spec == Init /\ [][Next]_vars

\* the workflow starts a run every few minutes and time passes between runs
FairSpec == Spec /\ WF_vars(Run) /\ SF_vars(TimePasses)
=============================================================================
