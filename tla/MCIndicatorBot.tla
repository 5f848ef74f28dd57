--------------------------- MODULE MCIndicatorBot ---------------------------
EXTENDS IndicatorBotProperties

\* a symbol about which everything speaks for an entry
Ideal ==
  [missing |-> 0, late |-> 0, complete |-> TRUE, vetoes |-> {}, volume |-> 2,
   volume3 |-> TRUE, taker |-> 3, rising |-> TRUE, cvd |-> TRUE, trades |-> 2,
   vwap |-> "near", slope |-> TRUE, expansion |-> TRUE, near |-> TRUE,
   ranked |-> TRUE, read |-> TRUE, obi |-> 2, stable |-> TRUE, ratio |-> 2,
   accelerates |-> TRUE, fast |-> FALSE, held |-> TRUE, breakout |-> TRUE,
   age |-> "fresh", slow |-> FALSE, warm |-> TRUE, bias |-> TRUE,
   bidGone |-> FALSE, askSurge |-> FALSE, cancelled |-> FALSE, rank |-> 100,
   behind |-> 0]

\* that symbol with one fact changed
Flags == {"complete", "volume3", "rising", "cvd", "slope", "expansion", "near",
          "ranked", "read", "stable", "accelerates", "fast", "held", "breakout",
          "slow", "warm", "bias", "bidGone", "askSurge", "cancelled"}
Changed(f) ==
  {f} \cup {[f EXCEPT ![x] = ~f[x]] : x \in Flags}
      \cup {[f EXCEPT !.missing = n] : n \in 1..3}
      \cup {[f EXCEPT !.late = n] : n \in 1..4}
      \cup {[f EXCEPT !.vetoes = {v}] : v \in Vetoes}
      \cup {[f EXCEPT !.volume = n] : n \in 0..1} \cup {[f EXCEPT !.taker = n] : n \in 0..2}
      \cup {[f EXCEPT !.trades = n] : n \in 0..1} \cup {[f EXCEPT !.obi = n] : n \in 0..1}
      \cup {[f EXCEPT !.ratio = n] : n \in 0..1}
      \cup {[f EXCEPT !.rank = 29, !.behind = n] : n \in 1..2}
      \cup {[f EXCEPT !.vwap = v] : v \in {"below", "far"}}
      \cup {[f EXCEPT !.age = a] : a \in {"future", "stale"}}
MCFacts == UNION {Changed(f) : f \in Changed(Ideal)}
MCMarkets ==
  [offset : {0, 750, 751}, rtt : {1500, 1501}, ret1m : {-2, 0, 2}, ret3m : {-3, 2},
   ret1h : {-3, -2}, macro : BOOLEAN, breadth1h : {34, 35}, breadth15m : {19, 20}]
MCOrders ==
  [halted : BOOLEAN,
   listed : {2, 3}, corr : {85, 86}, filled : {998, 999},
   drift : {0, 2}, slip : {4, 8, 9, 12, 13}, past : {0, 12, 13}, samples : {2, 3}, tick : {1, 3, 20},
   spread : {6, 7}, points : {91, 92}, rising : BOOLEAN, latency : {6500, 6501}]
=============================================================================
