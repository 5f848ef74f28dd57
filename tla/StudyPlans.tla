----------------------------- MODULE StudyPlans -----------------------------
(***************************************************************************)
(* The studies of research/ as data, in the order of each script: what it  *)
(* loads, the rows its features leave, how it spaces signals, the bars a   *)
(* label reads, and the parts its verdict weighs.  Bars are counted from   *)
(* the oldest bar the study or the study that it replicates has read, in   *)
(* the script's own interval; parts are given in bars, in shares of a      *)
(* symbol's bars or in shares of the ordered rows.  Conditions on prices,  *)
(* costs, p-values and profit factors are abstracted.                      *)
(***************************************************************************)
EXTENDS Integers, Sequences, FiniteSets, FiniteSetsExt

\* bars: the longest history; least: fewer are refused; lost: what a symbol that
\* fails does to the run; anchor: BTC, the common index or the panel is required
Load(bars, least, lost, anchor) ==
  [bars |-> bars, least |-> least, lost |-> lost, anchor |-> anchor]
\* warm: first bars without features; thresholds: "fixed", from the rows that
\* pick, or from "all"; index: labels count "raw" bars, the rows "kept" by the
\* study's filters, or "contiguous" bars only
Rows(warm, thresholds, index) == [warm |-> warm, thresholds |-> thresholds, index |-> index]
\* kind: after a counted "signal", while "busy" with a position, or "none";
\* fresh: each part starts anew
Space(kind, bars, fresh) == [kind |-> kind, bars |-> bars, fresh |-> fresh]
\* wait: bars until the entry is confirmed; exit: at the first "touch" of a
\* barrier or at the "horizon"; end: what happens to a label that the data (or
\* its part) are too short for
Label(wait, horizon, exit, end, bound) ==
  [wait |-> wait, horizon |-> horizon, exit |-> exit, end |-> end, bound |-> bound]
\* use: its rows "pick", "check" or "prove"; need: 1 when a verdict needs them
Part(use, who, unit, from, to, need) ==
  [use |-> use, who |-> who, unit |-> unit, from |-> from, to |-> to, need |-> need]
Known == {"known"}   New == {"new"}   Both == {"known", "new"}
Plan(load, rows, space, label, parts) ==
  [load |-> load, rows |-> rows, space |-> space, label |-> label, parts |-> parts]
\* shares of one time line, 20% of the symbols held out of all but the last part
HeldOut(bars, a, b, strict) ==
  <<Part("pick", Known, "bar", 0, (bars * a) \div 100 - 1, 1),
    Part("check", Known, "bar", (bars * a) \div 100, (bars * b) \div 100 - 1, 1),
    Part("prove", Known, "bar", (bars * b) \div 100, bars - 1, 1),
    Part("prove", New, "bar", (bars * b) \div 100, bars - 1, strict)>>

(***************************************************************************)
(* Mid-momentum continuation: discovery, and two replications on symbols   *)
(* that are no longer listed.  15-minute bars.                             *)
(***************************************************************************)
BarrierLoad     == Load(180 * 96, 2500, "skip", TRUE)
MomentumRows    == Rows(96, "fixed", "raw")
MomentumSpace   == Space("signal", 16, FALSE)
MomentumLabel   == Label(0, 48, "touch", "cut", "data")
MomentumParts   == HeldOut(180 * 96, 60, 80, 1)
Momentum        == Plan(BarrierLoad, MomentumRows, MomentumSpace, MomentumLabel, MomentumParts)

\* the archived symbols' own months, 180 days long as well
ArchivedLoad    == Load(184 * 96, 96 * 20, "skip", TRUE)
ArchivedParts   == <<Part("pick", Known, "bar", 0, 184 * 96 - 1, 0),
                     Part("prove", New, "bar", 0, 184 * 96 - 1, 1)>>
MomentumArchived == Plan(ArchivedLoad, MomentumRows, MomentumSpace, MomentumLabel, ArchivedParts)
SegmentsLoad    == Load(184 * 96, 120, "skip", TRUE)
SegmentsRows    == Rows(96, "fixed", "contiguous")
SegmentsLabel   == Label(0, 48, "touch", "cut", "data")
SegmentsParts   == ArchivedParts
MomentumSegments == Plan(SegmentsLoad, SegmentsRows, MomentumSpace, SegmentsLabel, SegmentsParts)

(***************************************************************************)
(* Systematic scanner v3 and the sideways study built on it.  Hours.       *)
(***************************************************************************)
SystematicLoad  == Load(365 * 24, 2500, "skip", TRUE)
SystematicRows  == Rows(72, "fixed", "raw")
SystematicSpace == Space("signal", 24, TRUE)
SystematicLabel == Label(0, 72, "horizon", "drop", "data")
SystematicParts == HeldOut(365 * 24, 50, 75, 1)
Systematic      == Plan(SystematicLoad, SystematicRows, SystematicSpace, SystematicLabel, SystematicParts)
SidewaysRows    == Rows(72, "fixed", "raw")
SidewaysSpace   == Space("signal", 12, TRUE)
SidewaysLabel   == Label(0, 24, "horizon", "drop", "data")
\* too few unseen symbols' events are no objection
SidewaysParts   == HeldOut(180 * 24, 50, 75, 0)
Sideways        == Plan([SystematicLoad EXCEPT !.bars = 180 * 24], SidewaysRows, SidewaysSpace,
                        SidewaysLabel, SidewaysParts)

(***************************************************************************)
(* Indicator Fusion: one preregistered rule, so no part picks for V1; the  *)
(* rule of V2 was written after V1 had shown the recent year.  Hours.      *)
(***************************************************************************)
FusionLoad      == Load(365 * 24, 4000, "skip", FALSE)
FusionRows      == Rows(168, "fixed", "raw")
FusionSpace     == Space("busy", 1, TRUE)
FusionLabel     == Label(1, 18, "touch", "cut", "part")
FusionParts     == <<Part("check", Both, "share", 0, 60, 1), Part("check", Both, "share", 60, 80, 1),
                     Part("prove", Both, "share", 80, 100, 1)>>
Fusion          == Plan(FusionLoad, FusionRows, FusionSpace, FusionLabel, FusionParts)
FusionV2Load    == Load(730 * 24, 4000, "skip", FALSE)
FusionV2Rows    == Rows(168, "fixed", "raw")
FusionV2Label   == Label(1, 24, "touch", "cut", "part")
FusionV2Parts   == <<Part("prove", Both, "bar", 0, 365 * 24 - 1, 1),
                     Part("pick", Both, "bar", 365 * 24, 730 * 24 - 1, 1)>>
FusionV2        == Plan(FusionV2Load, FusionV2Rows, FusionSpace, FusionV2Label, FusionV2Parts)

(***************************************************************************)
(* One frozen candidate on the period before the one that found it; the    *)
(* validator's own data end where the discovery's begin.                   *)
(***************************************************************************)
ShockLoad       == Load(2 * 365 * 24, 4000, "skip", TRUE)
ShockSpace      == Space("signal", 24, TRUE)
ShockLabel      == Label(0, 72, "horizon", "drop", "part")
ShockParts      == <<Part("prove", Both, "bar", 0, 365 * 24 - 1, 1),
                     Part("pick", Both, "bar", 365 * 24, 2 * 365 * 24 - 1, 0)>>
UnderreactionOos == Plan(ShockLoad, Rows(6, "fixed", "raw"), ShockSpace, ShockLabel, ShockParts)
\* 5-minute bars, 2025-09 to 2026-03 and the six months of Round 7
DeleverageLoad  == Load(365 * 288, 0, "skip", FALSE)
DeleverageSpace == Space("signal", 144, TRUE)
DeleverageParts == <<Part("prove", Both, "bar", 0, 181 * 288 - 1, 1),
                     Part("pick", Both, "bar", 181 * 288, 365 * 288 - 1, 0)>>
DeleverageLabel == Label(0, 48, "horizon", "drop", "part")
DeleveragingOos == Plan(DeleverageLoad, Rows(12, "fixed", "raw"), DeleverageSpace, DeleverageLabel, DeleverageParts)

(***************************************************************************)
(* The indicator-only rule of ready_bot: an audit, two parameter searches, *)
(* a confirmation of the second one's rule.  15-minute bars, labels of up  *)
(* to seven days.                                                          *)
(***************************************************************************)
AuditLoad       == Load(180 * 96, 3000, "skip", TRUE)
AuditRows       == Rows(200 * 16, "fixed", "raw")
AuditTrades     == Space("busy", 1, TRUE)
\* a trade that neither barrier ended is reported apart, and blocks its symbol
AuditLabel      == Label(1, 672, "touch only", "cut", "data")
AuditParts      == <<Part("prove", Both, "bar", 0, 180 * 96 - 1, 1)>>
WinRateAudit    == Plan(AuditLoad, AuditRows, AuditTrades, AuditLabel, AuditParts)

PrecisionLoad   == Load(540 * 96, 12000, "skip", TRUE)
PrecisionRows   == Rows(200 * 16, "fixed", "raw")
SimulateOne     == Label(1, 672, "touch", "cut", "data")
PrecisionSpace  == Space("busy", 1, TRUE)
PrecisionParts  == <<Part("pick", Both, "bar", 0, 180 * 96 - 1, 1),
                     Part("pick", Both, "bar", 180 * 96, 270 * 96 - 1, 1),
                     Part("prove", Both, "bar", 270 * 96, 360 * 96 - 1, 1)>>
Precision       == Plan(PrecisionLoad, PrecisionRows, PrecisionSpace, SimulateOne, PrecisionParts)
UltraLoad       == Load(900 * 96, 12000, "skip", TRUE)
UltraLabel      == Label(1, 672, "touch", "cut", "data")
UltraSpace      == Space("busy", 1, TRUE)
UltraParts      == PrecisionParts
UltraPrecision  == Plan(UltraLoad, PrecisionRows, UltraSpace, UltraLabel, UltraParts)
ConfirmLoad     == Load(900 * 96, 3000, "skip", TRUE)
ConfirmSpace    == Space("busy", 1, TRUE)
\* the days that found the rule, and the recent ones, which the audit had shown
ConfirmParts    == <<Part("pick", Both, "bar", 0, 360 * 96 - 1, 0),
                     Part("pick", Both, "bar", 720 * 96, 900 * 96 - 1, 0),
                     Part("prove", Both, "bar", 720 * 96, 900 * 96 - 1, 1)>>
Confirmation    == Plan(ConfirmLoad, PrecisionRows, ConfirmSpace, UltraLabel, ConfirmParts)
=============================================================================
