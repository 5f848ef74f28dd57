---------------------------- MODULE ImagePatches ----------------------------
(***************************************************************************)
(* The patch scripts freqtrade/Dockerfile.railway runs over the copied     *)
(* files, as data.  A file is the set of texts in it that some script      *)
(* looks for, puts or replaces; a text only one script reads or writes is  *)
(* its own mark, and the original lines only one script looks for are left *)
(* out.  An edit is the scripts' one shape,                                *)
(*   if mark not in s:                                                     *)
(*       if anchor not in s: raise SystemExit(...)                         *)
(*       s = s.replace(anchor, replacement, 1)                             *)
(* where the replacement may or may not keep the anchor.                   *)
(***************************************************************************)
EXTENDS Sequences

\* unless: the mark; at: the anchors; cuts: the texts the replacement drops;
\* must: a missing anchor raises
Edit(file, unless, at, puts, cuts, must) ==
  [file |-> file, unless |-> unless, at |-> at, puts |-> puts, cuts |-> cuts,
   must |-> must]
Insert(file, own, at, puts, cuts) ==
  Edit(file, {own}, at, puts \cup {own}, cuts, TRUE)
Always(file, at, puts, cuts) == Edit(file, {}, at, puts, cuts, TRUE)
Silent(file, at, puts, cuts) == Edit(file, {}, at, puts, cuts, FALSE)
\* for required in [...]: if required not in s: raise SystemExit(...)
Verify(file, texts) == Edit(file, texts, {"never"}, {}, {}, TRUE)

\* edits whose files are saved together; stop: the mark that ends the process
\* with status 0 before them ("already applied")
Group(edits) == [stop |-> {}, edits |-> edits]
StopIf(mark, edits) == [stop |-> {mark}, edits |-> edits]

\* the files as copied, before the first script
Base == [engine     |-> {"PRE_MOMENTUM-banner"}, sizing |-> {"max-risk-of-env"},
         proxy      |-> {"cap-of-env"}, state |-> {}, market |-> {},
         reconcile  |-> {},
         ready      |-> {"webhook-resolver"}, quality |-> {},
         gate       |-> {"regime-lookup"}, exit |-> {}, entrypoint |-> {},
         recovery   |-> {}]
Files == DOMAIN Base

(***************************************************************************)
(* Sizing, and the first momentum lane.                                    *)
(***************************************************************************)
\* the old wording of the exposure loop is gone from trade_state.py: aborts
trade_state_gate == <<Group(<<
  Insert("state", "exposure-counts-PROTECTION_PENDING",
         {"exposure-of-OPEN-and-BUY_FILLED"}, {}, {})>>)>>
market_context_v2 == <<Group(<<Insert("market", "non-crypto-bases", {}, {}, {})>>)>>
reconcile_health == <<Group(<<
  Insert("reconcile", "health-marks-and-close-alert", {}, {}, {})>>)>>

SizingOfDynamic == Group(<<
  Insert("sizing", "max-risk-0.20", {"max-risk-of-env"}, {}, {"max-risk-of-env"})>>)
EngineOfDynamic == Group(<<
  Silent("engine", {"dynamic_sizing", "stake-40"}, {"stake-7"}, {"stake-40"}),
  Insert("engine", "dynamic_sizing", {},
         {"stake-7", "stake_usdt-in-payload", "quality-gate"}, {})>>)
ProxyOfDynamic == Group(<<
  Insert("proxy", "cap-7", {"cap-of-env"}, {}, {"cap-of-env"})>>)
dynamic_sizing == <<SizingOfDynamic, EngineOfDynamic, ProxyOfDynamic>>

momentum_ignition == <<Group(<<
  Insert("engine", "ignition", {},
         {"ignition-extension", "anti-chase", "fresh-breakout-bonus",
          "ignition-micro-gate", "GREEN-trigger", "target-1.4%",
          "stop-is-target/2.4"}, {}),
  Silent("engine", {"PRE_MOMENTUM-banner"}, {"IGNITION-banner"},
         {"PRE_MOMENTUM-banner"}),
  Verify("engine", {"IGNITION-banner"})>>)>>

controlled_breakout == <<Group(<<
  Insert("engine", "controlled-breakout",
         {"ignition-extension", "anti-chase", "fresh-breakout-bonus",
          "ignition-micro-gate", "GREEN-trigger"}, {},
         {"ignition-extension", "anti-chase", "ignition-micro-gate",
          "GREEN-trigger"})>>)>>

\* the three stake replacements have no anchor check; the check follows them
EngineOfGrowth == Group(<<
  Insert("engine", "target-1.5%", {"target-1.4%"}, {}, {"target-1.4%"}),
  Silent("engine", {"stake-7"}, {"stake-40"}, {"stake-7", "thin-stake-7"}),
  Verify("engine", {"stake-40", "stake_usdt-in-payload"})>>)
SizingOfGrowth == Group(<<
  Always("sizing", {}, {"priority-allocator"}, {"max-risk-0.20"})>>)
ProxyOfGrowth == Group(<<Insert("proxy", "cap-40", {"cap-7"}, {}, {"cap-7"})>>)
growth_mode == <<EngineOfGrowth, SizingOfGrowth, ProxyOfGrowth>>

(***************************************************************************)
(* Universe, discovery and the boot script.                                *)
(***************************************************************************)
new_listing == <<Group(<<Insert("engine", "listing-reservation", {}, {}, {})>>)>>
unicode_symbols == <<Group(<<Insert("proxy", "unicode-symbols", {}, {}, {})>>)>>
stablecoin == <<Group(<<Insert("engine", "excluded-universe", {}, {}, {})>>)>>
fast_discovery == <<StopIf("discovery", <<
  Always("engine", {}, {"discovery"}, {})>>)>>
\* no mark: a second run does not find the resolver it replaced
runtime_cleanup == <<Group(<<
  Always("ready", {"webhook-resolver"}, {"cloudflare-webhook"},
         {"webhook-resolver"})>>)>>
scoreboard == <<Group(<<Insert("engine", "scoreboard", {}, {}, {})>>)>>

(***************************************************************************)
(* The lanes: watch, explosive, extreme, early reversal, mid.              *)
(***************************************************************************)
adaptive_watch == <<Group(<<
  Insert("engine", "adaptive-watch", {},
         {"watch-ttl", "watch-state", "watch-price", "watch-alert"}, {}),
  Silent("engine", {"PRE_MOMENTUM-banner"}, {"WATCH-banner"},
         {"PRE_MOMENTUM-banner"}),
  Silent("engine", {"IGNITION-banner"}, {"WATCH-banner"}, {"IGNITION-banner"})>>)>>
no_daily_cap == <<Group(<<
  Insert("engine", "unlimited-signals", {"WATCH-banner"}, {}, {"WATCH-banner"}),
  Insert("engine", "explosive-lane", {"watch-ttl"},
         {"explosive-score", "explosive-rank", "explosive-metrics",
          "explosive-gate", "explosive-context"}, {})>>)>>
extreme_continuation == <<Group(<<
  Insert("engine", "extreme-lane", {"explosive-score", "explosive-rank"},
         {"extreme-stake", "extreme-rank", "extreme-metrics", "extreme-gate"}, {})>>)>>
early_reversal == <<Group(<<
  Insert("engine", "early-reversal-lane", {"extreme-stake"}, {}, {})>>)>>
tp_tick == <<Group(<<Insert("engine", "execution-tick", {}, {}, {})>>)>>
profit_engine_v2 == <<Group(<<
  Insert("quality", "strong-micro-exception", {}, {}, {}),
  Insert("engine", "mid-lane", {"extreme-stake", "extreme-rank"},
         {"mid-metrics", "mid-gate", "mid-rank", "mid-context", "mid-stake"}, {})>>)>>

(***************************************************************************)
(* The expert system: candidate records, portfolio gate, loss cap.         *)
(***************************************************************************)
expert_v3 == <<Group(<<
  Insert("engine", "import-trade_state", {},
         {"expert-row", "positions-cap", "portfolio-gate", "portfolio-snapshot",
          "candidate-path", "pre-ingest", "pre-ingest-of-v3"}, {}),
  Insert("engine", "recorded-lanes",
         {"explosive-metrics", "extreme-metrics", "mid-metrics",
          "explosive-gate", "extreme-gate", "mid-gate"}, {},
         {"explosive-gate", "extreme-gate", "mid-gate"})>>)>>
expert_v4 == <<Group(<<
  Insert("engine", "telemetry", {"pre-ingest-of-v3"}, {"reject-record"},
         {"pre-ingest-of-v3"})>>)>>
expert_v5 == <<Group(<<
  Insert("engine", "import-market_context", {"import-trade_state"}, {}, {}),
  Insert("engine", "shadow-opportunity", {"expert-row"}, {}, {"expert-row"}),
  Insert("engine", "v5-banner", {"telemetry"}, {}, {})>>)>>
expert_v6 == <<Group(<<
  Insert("engine", "daily-loss-cap",
         {"import-trade_state", "positions-cap", "portfolio-snapshot"}, {}, {}),
  Insert("engine", "v6-banner", {"v5-banner"}, {}, {})>>)>>
expert_v7 == <<Group(<<
  Insert("engine", "shadow-lane-health", {"v6-banner"}, {}, {})>>)>>

(***************************************************************************)
(* The spot sniper and what hangs on it.                                   *)
(***************************************************************************)
MarketOfSniper == Group(<<Insert("market", "opportunity-rank", {}, {}, {})>>)
EngineOfSniper == Group(<<
  Insert("engine", "import-spot_sniper_gate", {"import-market_context"}, {}, {}),
  Insert("engine", "sniper-pre-ingest", {"pre-ingest"},
         {"ready-record", "sniper-decision", "portfolio-call"}, {}),
  Silent("engine", {}, {"normal-scanned"}, {}),
  Silent("engine", {"explosive-rank"}, {"explosive-scanned"}, {}),
  Silent("engine", {"extreme-rank"}, {"extreme-scanned"}, {}),
  Silent("engine", {"mid-rank"}, {"mid-scanned"}, {}),
  Silent("engine", {}, {}, {"explosive-context", "mid-context"}),
  Verify("engine", {"import-spot_sniper_gate", "sniper-pre-ingest"})>>)
spot_sniper_v1 == <<MarketOfSniper, EngineOfSniper>>
signal_visibility == <<StopIf("visibility", <<
  Always("engine", {"watch-price", "watch-alert", "reject-record"},
         {"visibility", "blocked-alert"}, {"watch-alert"})>>)>>
manual_confirm == <<StopIf("manual-fallback", <<
  Always("engine", {"positions-cap", "blocked-alert"}, {"manual-fallback"},
         {"blocked-alert"}),
  Silent("engine", {"ready-record"}, {"ready-record-of-fallback"}, {"ready-record"}),
  Verify("engine", {"portfolio-gate"})>>)>>
EngineOfWhipsaw == Group(<<
  Insert("engine", "direct-confirmation",
         {"watch-ttl", "watch-state", "watch-price", "stop-is-target/2.4"}, {},
         {"stop-is-target/2.4"})>>)
ExitOfWhipsaw == Group(<<Insert("exit", "profit-lock", {}, {}, {})>>)
whipsaw_v2 == <<EngineOfWhipsaw, ExitOfWhipsaw>>
\* both look for lines of an earlier entrypoint.sh and reconcile_state.py: abort
hard_time_exit == <<Group(<<
  Insert("entrypoint", "hard-time-exit", {"earlier-supervisor"}, {}, {})>>)>>
residual_accounting == <<Group(<<
  Insert("reconcile", "residual-estimate", {"earlier-exit-row"}, {}, {})>>)>>
final_hardening == <<Group(<<
  Insert("engine", "lane-confirmation",
         {"pre-ingest", "sniper-decision", "mid-stake"}, {}, {"mid-stake"}),
  Insert("gate", "recovery-threshold", {"regime-lookup"},
         {"high-score-rank", "breadth-rule", "rank-cap"}, {})>>)>>
sleep_auto == <<StopIf("auto-trading", <<
  Verify("engine", {"manual-fallback"}),
  Always("engine", {}, {"auto-trading"}, {})>>)>>
ProxyOfLiveQuality == Group(<<Insert("proxy", "live-reward-to-risk", {}, {}, {})>>)
EngineOfLiveQuality == Group(<<
  Insert("engine", "structure-flow",
         {"import-spot_sniper_gate", "pre-ingest", "portfolio-call"},
         {"flow-call"}, {})>>)
live_quality == <<ProxyOfLiveQuality, EngineOfLiveQuality>>

(***************************************************************************)
(* Exit manager, dashboard, regime gates, recovery.                        *)
(***************************************************************************)
dynamic_exit_v2 == <<Group(<<Insert("exit", "exit-v2", {}, {}, {})>>)>>
ScannedLines == {"normal-scanned", "explosive-scanned", "extreme-scanned", "mid-scanned"}
ProxyOfOps == Group(<<Insert("proxy", "ops-dashboard", {}, {}, {})>>)
EngineOfOps == Group(<<
  Insert("engine", "scan-batch", {"candidate-path"} \cup ScannedLines, {},
         ScannedLines)>>)
front_proxy_ops == <<ProxyOfOps, EngineOfOps>>

GateOfBalance == Group(<<
  Insert("gate", "balanced-threshold", {"high-score-rank", "recovery-threshold"},
         {"balanced-sideways", "weak-bear-constant", "thin-constant"},
         {"recovery-threshold"}),
  Insert("gate", "thin-context", {"rank-cap"}, {}, {"rank-cap"}),
  Insert("gate", "mid-reversal-only", {}, {}, {}),
  Verify("gate", {"thin-context", "mid-reversal-only"})>>)
ReconcileOfBalance == Group(<<Insert("reconcile", "external-exit", {}, {}, {})>>)
StateOfBalance == Group(<<Insert("state", "atomic-closes", {}, {}, {})>>)
ProxyOfBalance == Group(<<Insert("proxy", "reserve-under-lock", {}, {}, {})>>)
RecoveryOfBalance == Group(<<
  Insert("recovery", "EXTERNAL_EXIT", {}, {"protect-residual"}, {})>>)
regime_balance ==
  <<GateOfBalance, ReconcileOfBalance, StateOfBalance, ProxyOfBalance,
    RecoveryOfBalance>>

recovery_regime_v2 == <<Group(<<
  Insert("gate", "recovery-v2",
         {"thin-constant", "balanced-sideways", "thin-context", "mid-reversal-only"},
         {}, {"balanced-sideways", "balanced-threshold", "thin-context"})>>)>>
EngineOfOpportunity == Group(<<
  Always("engine", {"direct-confirmation", "watch-price"},
         {"confirmation-by-promotion"}, {})>>)
GateOfOpportunity == Group(<<
  Insert("gate", "thin-sideways-ranks", {"weak-bear-constant", "breadth-rule"},
         {}, {}),
  Insert("engine", "thin-stake-7", {"flow-call"}, {"stake-7"}, {})>>)
live_opportunity == <<EngineOfOpportunity, GateOfOpportunity>>
oco_recovery_v2 == <<Group(<<
  Insert("recovery", "recovery-of-unknown-lists", {"protect-residual"}, {},
         {"protect-residual"}),
  Verify("recovery", {"EXTERNAL_EXIT"})>>)>>
=============================================================================
