----------------------------- MODULE ImageBuild -----------------------------
(***************************************************************************)
(* The RUN chain of freqtrade/Dockerfile.railway: the patch scripts one    *)
(* after the other, joined with &&, the assertions, and the published      *)
(* image.  Some scripts may be taken out of the chain (in the repository   *)
(* three stop it), and the patched tree may become the committed one, over *)
(* which the next build runs the chain again: the scripts are written for  *)
(* that ("if-mark-not-in-s", "already-applied").                           *)
(***************************************************************************)
EXTENDS ImagePatches, Naturals

CONSTANTS TakenOut,   \* the scripts whose anchors the tree no longer has
          MaxBuilds   \* builds, each over the tree the last one left

Script ==
  [trade_state_gate |-> trade_state_gate, market_context_v2 |-> market_context_v2,
   reconcile_health |-> reconcile_health, dynamic_sizing |-> dynamic_sizing,
   momentum_ignition |-> momentum_ignition,
   controlled_breakout |-> controlled_breakout, growth_mode |-> growth_mode,
   new_listing |-> new_listing, unicode_symbols |-> unicode_symbols,
   stablecoin |-> stablecoin, fast_discovery |-> fast_discovery,
   runtime_cleanup |-> runtime_cleanup, scoreboard |-> scoreboard,
   adaptive_watch |-> adaptive_watch, no_daily_cap |-> no_daily_cap,
   extreme_continuation |-> extreme_continuation,
   early_reversal |-> early_reversal, tp_tick |-> tp_tick,
   profit_engine_v2 |-> profit_engine_v2, expert_v3 |-> expert_v3,
   expert_v4 |-> expert_v4, expert_v5 |-> expert_v5, expert_v6 |-> expert_v6,
   expert_v7 |-> expert_v7, spot_sniper_v1 |-> spot_sniper_v1,
   signal_visibility |-> signal_visibility, manual_confirm |-> manual_confirm,
   whipsaw_v2 |-> whipsaw_v2, hard_time_exit |-> hard_time_exit,
   residual_accounting |-> residual_accounting, final_hardening |-> final_hardening,
   sleep_auto |-> sleep_auto, live_quality |-> live_quality,
   dynamic_exit_v2 |-> dynamic_exit_v2, front_proxy_ops |-> front_proxy_ops,
   regime_balance |-> regime_balance, recovery_regime_v2 |-> recovery_regime_v2,
   live_opportunity |-> live_opportunity, oco_recovery_v2 |-> oco_recovery_v2]
Scripts == DOMAIN Script

Chain ==
  << "trade_state_gate", "market_context_v2", "reconcile_health",
     "dynamic_sizing", "momentum_ignition", "controlled_breakout", "growth_mode",
     "new_listing", "unicode_symbols", "stablecoin", "fast_discovery",
     "runtime_cleanup", "scoreboard", "adaptive_watch", "no_daily_cap",
     "extreme_continuation", "early_reversal", "tp_tick", "profit_engine_v2",
     "expert_v3", "expert_v4", "expert_v5", "expert_v6", "expert_v7",
     "spot_sniper_v1", "signal_visibility", "manual_confirm", "whipsaw_v2",
     "hard_time_exit", "residual_accounting", "final_hardening", "sleep_auto",
     "live_quality", "dynamic_exit_v2", "front_proxy_ops", "regime_balance",
     "recovery_regime_v2", "live_opportunity", "oco_recovery_v2" >>
\* the scripts that the one before them runs by exec(), in its own process
Executed == {"whipsaw_v2", "hard_time_exit", "residual_accounting",
             "final_hardening", "sleep_auto", "live_quality", "live_opportunity"}

VARIABLES disk,     \* file -> the texts in it
          left,     \* the scripts taken out of this chain
          place,    \* the running script, by its place in the chain
          group,    \* the next group of its edits
          status,   \* "building", "failed" or "published"
          build     \* how many builds there were
vars == <<disk, left, place, group, status, build>>

Init == /\ disk = Base
        /\ left \in {{}, TakenOut} \cup {TakenOut \cup {s} : s \in Scripts}
        /\ place = 1 /\ group = 1 /\ status = "building" /\ build = 1

\* the form in which a script prints the missing anchor and goes on
ApplySilently(acc, e) ==
  LET text == acc.disk[e.file]
  IN  IF (e.unless # {} /\ e.unless \subseteq text) \/ ~(e.at \subseteq text) THEN acc
      ELSE [acc EXCEPT !.disk[e.file] = (text \ e.cuts) \cup e.puts]
\* one edit over [ok, disk]
Apply(acc, e) ==
  LET text == acc.disk[e.file]
  IN  IF \/ ~acc.ok
         \/ e.unless # {} /\ e.unless \subseteq text THEN acc
      ELSE IF e.at \subseteq text
        THEN [acc EXCEPT !.disk[e.file] = (text \ e.cuts) \cup e.puts]
      ELSE [acc EXCEPT !.ok = ~e.must]
\* the edits of a group in order, in memory
Stages(edits) ==
  LET run[n \in 0..Len(edits)] ==
        IF n = 0 THEN [ok |-> TRUE, disk |-> disk] ELSE Apply(run[n - 1], edits[n])
  IN  run
Edited(edits) == Stages(edits)[Len(edits)]

Groups(i) == IF Chain[i] \in left THEN <<>> ELSE Script[Chain[i]]
Opens(i) == i <= Len(Chain) => Chain[i] \notin Executed   \* a process of its own
ProcessEnd(i) ==    \* the script after the process that i runs in
  CHOOSE j \in (i + 1)..(Len(Chain) + 1) : Opens(j) /\ \A k \in (i + 1)..(j - 1) : ~Opens(k)

Running == status = "building" /\ place <= Len(Chain) /\ group <= Len(Groups(place))
NextGroup == Groups(place)[group]
AlreadyApplied == NextGroup.stop \cap disk.engine # {}

\* raise SystemExit(0): the process succeeds without its later edits
ProcessStops ==
  /\ Running /\ AlreadyApplied
  /\ place' = ProcessEnd(place) /\ group' = 1
  /\ UNCHANGED <<disk, left, status, build>>

\* the group's files are written only when all its edits went through
GroupSaves ==
  /\ Running /\ ~AlreadyApplied
  /\ Edited(NextGroup.edits).ok
  /\ disk' = Edited(NextGroup.edits).disk
  /\ group' = group + 1
  /\ UNCHANGED <<left, place, status, build>>

\* the form in which the scripts are joined with ; instead of &&
AbortsAndGoesOn ==
  /\ Running /\ ~AlreadyApplied
  /\ ~Edited(NextGroup.edits).ok
  /\ place' = place + 1 /\ group' = 1
  /\ UNCHANGED <<disk, left, status, build>>
\* raise SystemExit("..."): && stops the chain
ScriptAborts ==
  /\ Running /\ ~AlreadyApplied
  /\ ~Edited(NextGroup.edits).ok
  /\ status' = "failed"
  /\ UNCHANGED <<disk, left, place, group, build>>

ScriptEnds ==
  /\ status = "building" /\ place <= Len(Chain) /\ group > Len(Groups(place))
  /\ place' = place + 1 /\ group' = 1
  /\ UNCHANGED <<disk, left, status, build>>

\* what the assertions of the RUN line look for
Asserted ==
  [engine |-> {"pre-ingest", "daily-loss-cap", "import-market_context",
               "import-spot_sniper_gate", "shadow-lane-health",
               "controlled-breakout", "visibility", "manual-fallback",
               "excluded-universe", "discovery", "explosive-lane",
               "extreme-lane", "mid-lane", "early-reversal-lane",
               "execution-tick", "adaptive-watch"},
   market |-> {"non-crypto-bases", "opportunity-rank"},
   exit   |-> {"exit-v2"}, proxy |-> {"ops-dashboard"}]
ImageEnds ==
  /\ status = "building" /\ place > Len(Chain)
  /\ status' = IF \A f \in DOMAIN Asserted : Asserted[f] \subseteq disk[f]
               THEN "published" ELSE "failed"
  /\ UNCHANGED <<disk, left, place, group, build>>

\* environment: the tree patched so far is committed and built again
Commit ==
  /\ status # "failed" /\ place > 1 /\ Opens(place) /\ group = 1 /\ build < MaxBuilds
  /\ status' = "building" /\ place' = 1 /\ build' = build + 1
  /\ UNCHANGED <<disk, left, group>>

Next == \/ ProcessStops \/ GroupSaves \/ ScriptAborts \/ ScriptEnds
        \/ ImageEnds \/ Commit
Spec == Init /\ [][Next]_vars
=============================================================================
