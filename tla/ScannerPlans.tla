---------------------------- MODULE ScannerPlans ----------------------------
(***************************************************************************)
(* The studies of research/ that only search (every row picks), the frozen *)
(* replications on other data, and the discoveries whose search and proof  *)
(* share one walk over the bars.  Forms and units as in StudyPlans.        *)
(***************************************************************************)
EXTENDS StudyPlans

Searches(bars) == <<Part("pick", Both, "bar", 0, bars - 1, 1)>>

(***************************************************************************)
(* Hourly searches over one year of the current symbols.                   *)
(***************************************************************************)
ScannerLoad     == Load(365 * 24, 4000, "skip", TRUE)
ScannerRows     == Rows(168, "all", "raw")
ScannerSpace    == Space("signal", 12, FALSE)
ScannerLabel    == Label(0, 72, "horizon", "drop", "data")
Scanner         == Plan(ScannerLoad, ScannerRows, ScannerSpace, ScannerLabel, Searches(365 * 24))
ScannerV2Load   == Load(365 * 24, 4000, "skip", TRUE)
ScannerV2Rows   == Rows(168, "all", "raw")
ScannerV2Space  == Space("signal", 24, FALSE)
ScannerV2Label  == ScannerLabel
ScannerV2Tests  == Searches(365 * 24)
ScannerV2       == Plan(ScannerV2Load, ScannerV2Rows, ScannerV2Space, ScannerV2Label, ScannerV2Tests)
OrthogonalLoad  == Load(365 * 24, 4000, "skip", TRUE)
OrthogonalRows  == Rows(168, "all", "raw")
OrthogonalSpace == Space("signal", 24, FALSE)
OrthogonalLabel == Label(0, 72, "horizon", "drop", "data")
Orthogonal      == Plan(OrthogonalLoad, OrthogonalRows, OrthogonalSpace, OrthogonalLabel, Searches(365 * 24))
EventLoad       == Load(365 * 24, 4000, "skip", TRUE)
EventSpace      == Space("signal", 24, FALSE)
EventLabel      == Label(0, 72, "horizon", "drop", "data")
EventDriven     == Plan(EventLoad, Rows(30, "fixed", "raw"), EventSpace, EventLabel, Searches(365 * 24))
EventV2Load     == Load(365 * 24, 4000, "skip", TRUE)
EventV2Space    == Space("signal", 24, FALSE)
EventV2Label    == Label(0, 72, "horizon", "drop", "data")
EventDrivenV2   == Plan(EventV2Load, Rows(168, "fixed", "raw"), EventV2Space, EventV2Label, Searches(365 * 24))
\* frozen families, but the whole year answers; the pooled events are not spaced
RoundThreeLoad  == Load(365 * 24, 4000, "skip", TRUE)
RoundThreeRows  == Rows(30 * 24, "fixed", "raw")
RoundThreeLabel == Label(0, 72, "horizon", "drop", "data")
RoundThree      == Plan(RoundThreeLoad, RoundThreeRows, Space("none", 0, FALSE), RoundThreeLabel, Searches(365 * 24))

(***************************************************************************)
(* 5-minute, 10-second and daily searches; a symbol whose data are thin is *)
(* left out, a daily study whose service fails stops.                      *)
(***************************************************************************)
PremiumLoad     == Load(184 * 288, 0, "skip", FALSE)
PremiumSpace    == Space("signal", 144, FALSE)
PremiumLabel    == Label(0, 288, "horizon", "drop", "data")
Premium         == Plan(PremiumLoad, Rows(288, "fixed", "raw"), PremiumSpace, PremiumLabel, Searches(184 * 288))
MetricsLoad     == Load(184 * 288, 0, "skip", FALSE)
MetricsSpace    == Space("signal", 144, FALSE)
MetricsLabel    == Label(0, 288, "horizon", "drop", "data")
Metrics         == Plan(MetricsLoad, Rows(48, "fixed", "raw"), MetricsSpace, MetricsLabel, Searches(184 * 288))
LeadLagLoad     == Load(3 * 8640, 0, "skip", FALSE)
LeadLagSpace    == Space("signal", 360, FALSE)
LeadLagLabel    == Label(0, 8640, "horizon", "drop", "data")
LeadLag         == Plan(LeadLagLoad, Rows(540, "fixed", "raw"), LeadLagSpace, LeadLagLabel, Searches(3 * 8640))
RegimeLoad      == Load(370, 0, "abort", FALSE)
RegimeRows      == Rows(1, "all", "kept")
RegimeSearch    == Plan(RegimeLoad, RegimeRows, Space("none", 0, FALSE), Label(0, 3, "horizon", "drop", "data"),
                        Searches(370))
ShockDay        == Load(370, 0, "skip", FALSE)
ShockDayRows    == Rows(0, "all", "raw")
ExtremeShocks   == Plan(ShockDay, ShockDayRows, Space("none", 0, FALSE), Label(0, 3, "horizon", "drop", "data"),
                        Searches(370))

(***************************************************************************)
(* Frozen rules: nothing picks, or what picked lies in other bars.         *)
(***************************************************************************)
\* thresholds from the features, not the labels, of the first 60%
FlowGateTests   == <<Part("prove", Both, "share", 60, 100, 1)>>
FlowGate        == Plan(Load(30 * 288, 0, "abort", FALSE), Rows(0, "pick", "raw"), Space("none", 0, FALSE),
                        Label(0, 48, "horizon", "drop", "data"), FlowGateTests)
ExhaustionEvents == Space("signal", 48, FALSE)
Exhaustion      == Plan(Load(14 * 288, 0, "skip", FALSE), Rows(0, "pick", "raw"), ExhaustionEvents,
                        Label(0, 48, "horizon", "drop", "data"), <<Part("prove", Known, "bar", 0, 14 * 288 - 1, 1)>>)
\* January 2025 found the candidates, in a run with only its own data
UntouchedSpace  == Space("signal", 48, TRUE)
UntouchedParts  == <<Part("pick", Both, "bar", 0, 28 * 288 - 1, 0),
                     Part("prove", Both, "bar", 28 * 288, 42 * 288 - 1, 1)>>
FrozenUntouched == Plan(Load(42 * 288, 0, "abort", FALSE), Rows(0, "fixed", "raw"), UntouchedSpace,
                        Label(0, 48, "horizon", "drop", "part"), UntouchedParts)
\* fixed Pine rules: the first 70% is only reported; each part is walked alone
TradingViewLoad == Load(365 * 96, 0, "abort", FALSE)
TradingViewRows == Rows(220, "fixed", "raw")
\* the bar that ends a trade may be the next trade's signal
TradingViewTrades == Space("busy", 0, TRUE)
TradingViewLabel == Label(0, 49, "touch", "cut", "part")
TradingViewParts == <<Part("check", Both, "share", 0, 70, 0), Part("prove", Both, "share", 70, 100, 1)>>
TradingView     == Plan(TradingViewLoad, TradingViewRows, TradingViewTrades, TradingViewLabel, TradingViewParts)
\* a breakout, its retest within eight bars, eight hours
RetestLoad      == Load(974 * 96, 0, "abort", FALSE)
RetestEvents    == Space("signal", 8, FALSE)
RetestLabel     == Label(8, 32, "horizon", "drop", "data")
RetestParts     == <<Part("check", Both, "share", 0, 70, 0), Part("prove", Both, "share", 70, 100, 1)>>
BreakoutRetest  == Plan(RetestLoad, Rows(21, "fixed", "raw"), RetestEvents, RetestLabel, RetestParts)
\* fixed families on the last 40% of each symbol, one position at a time
PublicLoad      == Load(365 * 24, 4000, "skip", FALSE)
PublicRows      == Rows(24, "fixed", "raw")
PublicTrades    == Space("busy", 1, TRUE)
PublicLabel     == Label(0, 25, "touch", "cut", "data")
PublicLab       == Plan(PublicLoad, PublicRows, PublicTrades, PublicLabel, <<Part("prove", Both, "share", 60, 100, 1)>>)
\* the second barrier validation counts its labels on the raw bars again, and
\* holds some symbols out of every split
ValidationRows  == Rows(96, "fixed", "raw")
ValidationLabel == Label(0, 32, "touch", "cut", "data")
ValidationParts == <<Part("pick", Known, "bar", 0, 108 * 96 - 1, 1),
                     Part("check", Known, "bar", 108 * 96, 144 * 96 - 1, 1),
                     Part("prove", Known, "bar", 144 * 96, 180 * 96 - 1, 1),
                     Part("prove", New, "bar", 0, 180 * 96 - 1, 1)>>
IntradayValidation == Plan(BarrierLoad, ValidationRows, Space("none", 0, FALSE), ValidationLabel, ValidationParts)
\* the expected-value model is fitted anew for each of the tests an approval needs:
\* on the first 80% of the rows, on the rows before each of four walk-forward folds,
\* and on the rows of the symbols that are not held out.  One plan per test
ReplayLoad      == Load(8 * 30 * 96, 0, "skip", FALSE)
ReplayRows      == Rows(100, "pick", "raw")
ReplaySpace     == Space("signal", 4, FALSE)
\* an outcome that touched neither barrier is no row, and still spaces
ReplayOutcome   == Label(0, 4, "touch only", "drop", "data")
SplitAt(n, m)   == <<Part("pick", Both, "row", 0, n, 1), Part("prove", Both, "row", n, m, 1)>>
ReplayParts     == SplitAt(80, 100)
ReplayFolds     == {SplitAt(40 + 15 * n, 55 + 15 * n) : n \in 0..3}
ReplayHoldout   == <<Part("pick", Known, "row", 0, 100, 1), Part("prove", New, "row", 0, 100, 1)>>
EvReplays       == {Plan(ReplayLoad, ReplayRows, ReplaySpace, ReplayOutcome, parts) :
                      parts \in {ReplayParts, ReplayHoldout} \cup ReplayFolds}

(***************************************************************************)
(* Discoveries whose picking rows read bars that their proof reads.        *)
(***************************************************************************)
\* setups of one walk; walk-forward folds from 40% of the setups on, while
\* the variant is chosen on the first 60%
ForwardFolds    == <<Part("pick", Known, "row", 0, 60, 1), Part("prove", Known, "row", 60, 100, 1),
                     Part("prove", New, "row", 0, 100, 1), Part("prove", Known, "row", 40, 100, 1)>>
SetupEvents     == Rows(100, "fixed", "raw")
ConfirmEntry    == Space("signal", 4, FALSE)
RetestOutcome   == Label(4, 8, "touch", "drop", "data")
RetestEntry     == Plan(ReplayLoad, SetupEvents, ConfirmEntry, RetestOutcome, ForwardFolds)
\* the same events as the replay's, those without a touch among them
CandidateEvents == Rows(100, "fixed", "raw")
CandidateLabel  == [ReplayOutcome EXCEPT !.exit = "touch"]
CandidateFolds  == ForwardFolds
EvCandidate     == Plan(ReplayLoad, CandidateEvents, ReplaySpace, CandidateLabel, CandidateFolds)
\* the last days before the discovery year are labelled inside it
FrozenOosLoad   == Load(2 * 365, 0, "skip", FALSE)
FrozenOosParts  == <<Part("prove", Both, "bar", 0, 364, 1), Part("pick", Both, "bar", 365, 729, 0)>>
FrozenOos       == Plan(FrozenOosLoad, Rows(0, "fixed", "raw"), Space("none", 0, FALSE),
                        Label(0, 3, "horizon", "drop", "data"), FrozenOosParts)
MultiyearLoad   == Load(4 * 365, 0, "skip", FALSE)
MultiyearParts  == <<Part("prove", Both, "bar", 0, 364, 0), Part("prove", Both, "bar", 365, 729, 0),
                     Part("prove", Both, "bar", 730, 1094, 1), Part("pick", Both, "bar", 1095, 1459, 0)>>
FrozenMultiyear == Plan(MultiyearLoad, Rows(0, "fixed", "raw"), Space("none", 0, FALSE),
                        Label(0, 3, "horizon", "drop", "data"), MultiyearParts)
\* barriers walk the rows that the volume filter left; no spacing
BarrierRows     == Rows(96, "fixed", "kept")
BarrierLabel    == Label(0, 32, "touch", "cut", "data")
BarrierParts    == <<Part("pick", Known, "bar", 0, 72 * 96 - 1, 1),
                     Part("check", Known, "bar", 72 * 96, 96 * 96 - 1, 1),
                     Part("prove", Known, "bar", 96 * 96, 120 * 96 - 1, 1),
                     Part("prove", New, "bar", 0, 120 * 96 - 1, 1)>>
IntradayBarrier == Plan([BarrierLoad EXCEPT !.bars = 120 * 96], BarrierRows, Space("none", 0, FALSE), BarrierLabel,
                        BarrierParts)
\* the screen that chooses the symbols walks the last fifteen days, the holdout of
\* a chosen symbol's family the last twenty-four; a trade ends at any bar
DiscoveryLoad   == Load(120 * 96, 96, "skip", TRUE)
DiscoveryRows   == Rows(24, "fixed", "raw")
DiscoveryTrades == Label(0, 24 * 96, "touch", "cut", "part")
DiscoveryParts  == <<Part("pick", Both, "bar", 105 * 96, 120 * 96 - 1, 0),
                     Part("pick", Both, "share", 60, 80, 1), Part("prove", Both, "share", 80, 100, 1)>>
VectorDiscovery == Plan(DiscoveryLoad, DiscoveryRows, Space("busy", 1, TRUE), DiscoveryTrades, DiscoveryParts)
\* forward returns of the whole frame, cut at a date afterwards
RawFlowRows     == Rows(0, "fixed", "raw")
RawFlowParts    == <<Part("pick", Both, "bar", 0, 7 * 288 - 1, 1), Part("prove", Both, "bar", 7 * 288, 14 * 288 - 1, 1)>>
RawFlow         == Plan(Load(14 * 288, 0, "abort", FALSE), RawFlowRows, Space("none", 0, FALSE),
                        Label(0, 48, "horizon", "drop", "data"), RawFlowParts)
RawMetricsLoad  == Load(28 * 288, 0, "abort", FALSE)
RawMetricsRows  == Rows(0, "fixed", "raw")
RawMetricsParts == <<Part("pick", Both, "bar", 0, 14 * 288 - 1, 1), Part("prove", Both, "bar", 14 * 288, 28 * 288 - 1, 1)>>
RawMetrics      == Plan(RawMetricsLoad, RawMetricsRows, Space("none", 0, FALSE),
                        Label(0, 48, "horizon", "drop", "data"), RawMetricsParts)
\* order books in 5-minute rows of one coin, spot returns of four hours from the
\* minute after the row, taken before the frame is cut at dates.  Only the proving
\* rows are spaced, so the plans' rows are not.  The month's spot bars end with it
BookRows        == Rows(144, "fixed", "raw")
BookLabel       == Label(0, 49, "horizon", "drop", "data")
BookParts(a, b, c, d) == <<Part("pick", Known, "bar", a * 288, b * 288 - 1, 1),
                           Part("pick", Known, "bar", b * 288, c * 288 - 1, 1),
                           Part("prove", Known, "bar", c * 288, d * 288 - 1, 1)>>
BookLoad        == Load(31 * 288, 0, "abort", FALSE)
BookMonth       == BookParts(1, 14, 22, 31)
TrueBook        == Plan(BookLoad, BookRows, Space("none", 0, FALSE), BookLabel, BookMonth)
\* the same month, the book replayed as one file orders it, and again by its blocks
TrueBookV2      == TrueBook
TrueBookV3      == TrueBook
\* the fifteen oldest large files; the spot bars go on after them
DepthLoad       == Load(15 * 288 + 49, 0, "abort", FALSE)
DepthParts      == BookParts(0, 7, 11, 15)
DepthRound      == Plan(DepthLoad, BookRows, Space("none", 0, FALSE), BookLabel, DepthParts)
\* a position's exit and the next entry may fall in one bar: entries are filled at
\* the open of the bar in which the exits were found
JoatLoad        == Load(600 * 96, 0, "skip", FALSE)
JoatRows        == Rows(200, "fixed", "raw")
JoatTrades      == Space("busy", -1, TRUE)
JoatLabel       == Label(1, 96, "touch", "cut", "part")
JoatParts       == <<Part("check", Both, "bar", 0, 365 * 96 - 1, 0), Part("prove", Both, "bar", 365 * 96, 600 * 96 - 1, 1)>>
BastionJoat     == Plan(JoatLoad, JoatRows, JoatTrades, JoatLabel, JoatParts)
=============================================================================
