----------------------------- MODULE MicroEntry -----------------------------
(***************************************************************************)
(* When the early-momentum engine of ready_bot calls a symbol eligible:    *)
(* the bar checks, the points, the stage, the production guards, and the   *)
(* market gates of the run.  A symbol is a record of facts: a measure that *)
(* the code compares with thresholds is the number of thresholds it        *)
(* reaches, the others are Boolean.  Signals are scored in points, as in   *)
(* early_momentum.py.                                                      *)
(***************************************************************************)
EXTENDS Integers

CONSTANTS Intervals,  \* the keys of market_context.INTERVAL_MS
          Facts,      \* the symbol records explored, a subset of AllFacts
          Markets,    \* the market records explored, a subset of AllMarkets
          Orders      \* the order records explored, a subset of AllOrders

Vetoes == {"EMA200_1H", "LIQUIDITY", "SPREAD", "TAKER_FLOW_LT_50", "RSI_LATE"}

AllFacts ==
  [missing : 0..3,      \* candles missing in a row among the recent ones
   late : 0..4,         \* bar lengths since the last close
   complete : BOOLEAN,  \* history, book and filters could be read
   vetoes : SUBSET Vetoes,
   volume : 0..2,       \* of the last minute: 1.5, 1.8 times the median
   volume3 : BOOLEAN,   \* three minutes: 1.5 times
   taker : 0..3,        \* buy share of the last minute: 0.53, 0.56, 0.57
   rising : BOOLEAN, cvd : BOOLEAN,
   trades : 0..2,       \* trade count: 1.3, 1.5 times
   vwap : {"below", "near", "far"},
   slope : BOOLEAN, expansion : BOOLEAN, near : BOOLEAN,
   ranked : BOOLEAN,    \* among the eight best prefilter scores
   read : BOOLEAN,      \* book and trades could be read
   obi : 0..2,          \* weakest sample of the bid share: 0.55, 0.58
   stable : BOOLEAN,    \* spread no wider in the last sample
   ratio : 0..2,        \* buy share of the live trades: above one half, 0.52
   accelerates : BOOLEAN, fast : BOOLEAN, held : BOOLEAN, breakout : BOOLEAN,
   age : {"future", "fresh", "stale"}, slow : BOOLEAN, warm : BOOLEAN,
   bias : BOOLEAN,      \* microprice not more than half a point below the middle
   bidGone : BOOLEAN, askSurge : BOOLEAN, cancelled : BOOLEAN,
   rank : 0..100,       \* weighted percentile of the 5m, 15m and 1h returns
   behind : 0..3]       \* how many of them are below BTC's

\* one missing candle is forgiven
validate_bar_integrity(f) == f.missing < 2 /\ f.late <= 3
\* the 5-of-6 score is advice, a veto is not
indicator_snapshot(f) == f.vetoes = {}

Points(holds, n) == IF holds THEN n ELSE 0
prefilter_score(f) ==
    Points(f.volume >= 1, 12) + Points(f.volume = 2 /\ f.volume3, 8)
  + Points(f.taker >= 1, 10) + Points(f.taker >= 2 /\ f.rising, 10)
  + Points(f.cvd, 15)
  + Points(f.trades >= 1, 6) + Points(f.trades = 2, 4)
  + Points(f.vwap = "near", 5) + Points(f.slope, 5)
  + Points(f.expansion, 5) + Points(f.near, 5)
MicroCandidate(f) ==
  indicator_snapshot(f) /\ prefilter_score(f) >= 50 /\ f.ranked

score(f) == prefilter_score(f) + Points(f.obi >= 1, 8) + Points(f.obi = 2, 7)
chase(f) == f.vwap = "far" \/ (f.fast /\ (~f.rising \/ ~f.accelerates))
classify(points) == IF points >= 85 THEN "ENTRY_CANDIDATE"
                    ELSE IF points >= 75 THEN "ARMED"
                    ELSE IF points >= 65 THEN "WATCH" ELSE "IGNORE"
ignition(f) == /\ f.volume = 2 /\ f.volume3 /\ f.taker = 3
               /\ f.obi = 2 /\ f.vwap = "near"
required(f) == /\ f.volume = 2 /\ f.taker >= 2 /\ f.rising /\ f.ratio >= 1
               /\ f.obi = 2 /\ f.stable /\ f.vwap = "near"
               /\ f.held /\ f.breakout /\ ~chase(f)
combine_microstructure(f) ==
  LET s == classify(score(f))
  IN  IF s \in {"ARMED", "ENTRY_CANDIDATE"} /\ ~ignition(f) THEN "WATCH"
      ELSE IF s = "ENTRY_CANDIDATE" /\ ~required(f) THEN "ARMED" ELSE s

(***************************************************************************)
(* production_guard.py.                                                    *)
(***************************************************************************)
signal_freshness_status(f) == f.age = "fresh" /\ ~f.slow
warmup_status(f) == f.warm
\* a bullish book has to be confirmed by the trades
adverse_selection_status(f) ==
  f.obi = 2 => f.ratio = 2 /\ f.bias /\ ~f.bidGone
liquidity_disappearance_status(f) == ~f.bidGone /\ ~f.askSurge /\ ~f.cancelled
enrich_microstructure(f) ==
  /\ MicroCandidate(f) /\ f.read
  /\ combine_microstructure(f) = "ENTRY_CANDIDATE"
  /\ signal_freshness_status(f) /\ warmup_status(f)
  /\ adverse_selection_status(f) /\ liquidity_disappearance_status(f)
\* only a symbol that lags both the others and BTC is held back
relative_strength_ranking(f) == f.rank < 30 /\ f.behind >= 2
eligible(f) == enrich_microstructure(f) /\ ~relative_strength_ranking(f)

\* what one read of a symbol comes to
fetch_symbol_snapshot(f) ==
  IF ~f.complete \/ ~validate_bar_integrity(f) THEN "unavailable"
  ELSE IF eligible(f) THEN "eligible" ELSE "rejected"

(***************************************************************************)
(* The market of a run.  Returns are counted in half per cents.            *)
(***************************************************************************)
AllMarkets ==
  [offset : 0..1000, rtt : 0..2000,                      \* milliseconds
   ret1m : -5..5, ret3m : -5..5, ret1h : -5..5,          \* of BTC
   macro : BOOLEAN, breadth1h : 0..100, breadth15m : 0..100]

Size(n) == IF n < 0 THEN -n ELSE n
clock_sync_status(m) == m.offset <= 750 /\ m.rtt <= 1500
\* 0.8 per cent in a minute, 1.5 in three
btc_shock_status(m) == Size(m.ret1m) < 2 /\ Size(m.ret3m) < 3
btc_regime(m) == m.macro /\ m.ret1h > -3
classify_market_regime(m) ==
  /\ m.ret1h > -3
  /\ m.macro \/ m.breadth1h >= 35
  /\ m.breadth15m >= 20
MarketAllows(m) == /\ clock_sync_status(m) /\ btc_shock_status(m)
                   /\ classify_market_regime(m) /\ btc_regime(m)

(***************************************************************************)
(* One signal on its way to a paper fill.  Slippages, the tick and the     *)
(* drift are in basis points of the ask, which lies on a tick.             *)
(***************************************************************************)
AllOrders ==
  [halted : BOOLEAN,   \* the event file is unreadable, or halts all or the symbol
   listed : 0..5,                           \* complete daily bars
   corr : -100..100,        \* highest per cent with what is held, 0 if not known
   filled : 0..1000,                        \* per mille of the quote in the book
   drift : 0..40,         \* how far the best ask rose after the snapshot
   slip : 0..40, past : 0..40, samples : 0..9,
   tick : 1..40, spread : 0..15, points : 0..100, rising : BOOLEAN,
   latency : 0..9000]

load_event_risk(o) == ~o.halted
\* daily bars pass closed_bars only if it knows their interval
listing_age_status(o) == "1d" \in Intervals /\ o.listed >= 3
max_open_position_correlation(o) == o.corr <= 85
execution_quality_status(o) == o.filled >= 999 /\ o.slip <= 12
\* what the symbol's own fills were like counts from the third on
EffectiveSlip(o) == IF o.samples >= 3 /\ o.past > o.slip THEN o.past ELSE o.slip
choose_execution_plan(o) ==
  IF EffectiveSlip(o) > 12 \/ o.latency > 6500 THEN "REJECT"
  ELSE IF /\ o.points >= 92 /\ o.rising
          /\ o.spread <= 6 /\ EffectiveSlip(o) <= 4
       THEN "MARKET" ELSE "AGGRESSIVE_LIMIT"
RoundedUp(n, tick) == ((n + tick - 1) \div tick) * tick
Cross(o) == RoundedUp(IF EffectiveSlip(o) < 8 THEN EffectiveSlip(o) ELSE 8, o.tick)
\* the average price of the depth, above the ask the plan was made with
Paid(o) == o.drift + o.slip
\* a limit below the average price of the depth would not have filled
Fills(o) ==
  /\ load_event_risk(o) /\ listing_age_status(o)
  /\ max_open_position_correlation(o) /\ execution_quality_status(o)
  /\ \/ choose_execution_plan(o) = "MARKET"
     \/ choose_execution_plan(o) = "AGGRESSIVE_LIMIT" /\ Paid(o) <= Cross(o)
=============================================================================
