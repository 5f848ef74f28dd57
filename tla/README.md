# TLA+ models of the spot-signal repository

This directory holds TLA+ specifications of the parts of the repository that
decide about orders: the Cloudflare worker that approves, executes, protects and
reconciles Binance Spot trades; the Python runtime that does the same from a
container, with the entry engine that feeds it and the patch chain that builds
its image; the paper bot; and the studies whose verdicts pick the rules. They
are translated from the source (paths are relative to the repository root),
model-checked with TLC on small instances, and their central results are proved
with TLAPS for every value of the constants.

All modules model the files as they are committed. The container's image runs
`trade_state.py`, `front_proxy.py`, `reconcile_state.py`,
`dynamic_exit_manager.py`, `execution_recovery.py` and `fast_entry_engine.py`
after the patch chain has edited them; `ImageBuild` models the chain, and
`SpotRuntime` and `FastEntry` do not speak of its result.

## 1. The system

### 1.1 Who calls whom

```
Telegram, cron (every minute, wrangler.jsonc)
   |
src/ops-supervisor.js          watchdog, health state, /go-no-go     (main)
   |  imports
src/buy-gateway-auth-wrapper.js, src/buy-gateway-time-monitor.js     request auth, position reviews
   |
src/buy-gateway-stable.js      proposals, Telegram approval, entry gate, reports to the owner
   |                                              \-- src/edge-worker.js (scanner: live:candidate:latest)
src/live-execution-router.js   one provider: SUPABASE_V2
   |
src/supabase-live-client.js    executor and reconciler of live trades
   |                  \-- src/supabase-state-client.js   get / put / claim of durable keys
supabase/functions/tst-binance-relay   signs and forwards
   |
Binance Spot

freqtrade/Dockerfile.railway   patches the files below, one script after the other
   |
freqtrade/entrypoint.sh        starts and supervises
   |-- fast_entry_engine.py          scans and posts signals to the Worker
   |-- front_proxy.py                signed relay: reserve, send to Make.com, record
   |-- execution_recovery.py         resolves what front_proxy lost sight of
   |-- reconcile_state.py            compares the books with Binance's order lists
   \-- dynamic_exit_manager.py       cancels and replaces lists with a higher stop
        all five over trade_state.py: two JSON files on the persistent volume

GitHub Actions
   |-- ready_bot/indicator_bot.py    one run every few minutes over a paper ledger
   \-- research/*.py                 one study per run; its verdict picks a rule
```

The worker keeps nothing in memory between two invocations. All state is in the
key-value store behind the relay (get, put, an atomic claim, no transaction) and
at the exchange. Any number of invocations run at the same time, and every
`await` is a point where another invocation may act, and every call may fail, be
lost, or take effect after its caller stopped waiting.

The Python runtime is a handful of endless loops in one container. They share
files under one lock per helper call; between two helpers, and between the read
of a file and the write that rests on it, any other loop may act. Make.com may
run a request long after its sender gave up, and the container may die between
two files.

### 1.2 Inventory

| component | state | operations | talks to | hard behaviours | what makes it correct |
|---|---|---|---|---|---|
| live executor (`src/supabase-live-client.js` 37-765, 1396-1721) | locals of one call; `trade-intent:<id>` | claim, pre-entry reconciliation, entry order, settle, OCO, emergency sale | store, relay | lost and late answers, death between an order and its record, competing calls | one entry order per intent; nothing sold before the entry is final; what it answers is true; every call ends |
| live reconciler (same file, 1071-1257) | `live:active-intents`, `exit-finalize:<id>`, `daily-pnl-applied:<id>`, `risk:daily-live` | read row, four parallel reads, decide, claim, book | store, relay | reads of different moments, two overlapping runs, death after a claim | a closed row is flat; a result is booked once and at last |
| trade-intent store (same file, 79-148; `supabase-state-client.js`) | rows and index | `claimIntent`, `writeTradeState` | the store | check and put in different calls | a row moves forward, EXITED is final |
| Binance Spot and the relay (`supabase/functions/tst-binance-relay`) | orders, lists, balances, nonces | POST, GET, DELETE | executor, reconciler | executes after the caller's timeout | external |
| entry gate and approval (`src/buy-gateway-stable.js`) | `live-signal:<id>`, `prepared:<id>`, `execution-lock:<id>`, `live:admin-pause`, `live:unknown-orders`, `live:unprotected-positions` | offer, PREP, CONFIRM, CANCEL, PAUSE, RESUME, report of the reconciler | executor, supervisor (through the store), owner | duplicate CONFIRMs, keys that expire, blocks that change between the look and the buy | one execution per proposal; a block that lasts is kept; a refusal is flat; a doubt is recorded |
| ops supervisor (`src/ops-supervisor.js`, `ops-state-machine.js`) | `ops:heartbeats`, `ops:state`, `ops:reconciliation:last` | watchdog, health state, alerts, `/go-no-go` | store, gateway | several writers of one row, clearing what others put | a loss of protection stays blocked |
| python execution runtime (`freqtrade/trade_state.py`, `front_proxy.py`, `execution_recovery.py`, `reconcile_state.py`, `dynamic_exit_manager.py`) | position file, reservation file | BUY and OCO requests, recovery, reconciliation, ratchet and rollback | Make.com, Binance | repeated clicks, lost answers, late requests, death between two files, stale reads | nothing is sent twice; a fill is never forgotten; a position closes on a sale; the stop on file is the one in the market |
| python safety guards (`production_safety_kernel.py`, `degraded_mode.py`, ...) | one file each | thresholds | front_proxy | a stale file | one refusal of the relay |
| fast entry engine (`freqtrade/fast_entry_engine.py`) | counters, cooldowns, two readiness flags in memory | preflight, scan, post, retry | the Worker, Binance | a lost or late answer, midnight within a call, restarts | the day's cap; nothing is posted while the Worker does not ask the owner |
| image build (`freqtrade/Dockerfile.railway`, `patch_*.py`) | the texts of twelve files | 39 scripts that search and replace | - | anchors that are gone, order of scripts, a second run | a published image has every patch and no refusal is undone |
| ready_bot indicator bot (`ready_bot/indicator_bot.py`, `early_momentum.py`, `production_guard.py`, `market_context.py`, `smart_execution.py`) | `indicator_state.json` | a run: load, new day, manage, gates, entries, save | Binance market data | a run dies, symbols unread, midnight with open positions | the day's loss is bounded; stops tighten; positions end |
| research studies (`research/*.py`) | none | load, features, spacing, labels, parts, verdict | archives | labels that cross a boundary, filters that close gaps, symbols that fail | what proves a rule has not picked it |
| live policy (`src/live-cutover-policy.js`) | none | evaluateGoNoGo | supervisor | none | a conjunction of its inputs |
| position review (`src/buy-gateway-time-monitor.js`) | `timed-open-positions` | register, review, HOLD30, EXITASK, EXITOPEN, EXITDONE | Telegram, price | whole-row read, long wait, put | a position told closed is not reviewed again |
| gateway wrappers (`src/buy-gateway-auth-wrapper.js`, `bridge-auth.js`) | request nonces | authenticate, route | gateway | replay of a request | a nonce is accepted once |
| v3 shadow execution, paper execution (`src/execution/*`) | one file each | attempts, cancel, settle | adapter | a cancel races a fill | no settlement is lost |
| scanner (`src/edge-worker.js`, `thesis-engine.js`) | candidates | scan | market data | floating-point indicators | out of scope |
| accounting and filters (`src/live-accounting.js`, `binance-spot-filters.js`) | none | rounding, fees | executor | step sizes | never rounds up what is sold |
| market data collectors, other bots, strategies, deployment | own files | - | - | - | off the paths above |

`PROJECT.json` lists the same parts with their files and status, and the hazards
with their lines.

## 2. The modules

| module | models | used by |
|---|---|---|
| `TradeIntents` | the intents, shared by store and exchange | both |
| `TradeStore` | rows, index, and `writeTradeState` as four store calls | `LiveTrade` |
| `SpotExchange` | what executor and reconciler can observe of Binance and the relay (external) | `LiveTrade` |
| `LiveTrade` | composes the two with any number of executors and reconcilers | |
| `TradeLifecycle` | abstract: what the executor promises about an intent | refinement of `LiveTrade` |
| `EntryGate` | from a proposal to a buy, with cron, watchdog, page and owner | |
| `TradeFiles` | the two files of `trade_state.py` and its locked helpers | `SpotRuntime` |
| `SpotRuntime` | relay, recovery, reconciler, dynamic exit manager, Make and Binance | |
| `FastEntry` | the scan loop of the entry engine | |
| `ImagePatches` | each patch script as edits of texts (data) | `ImageBuild` |
| `ImageBuild` | the RUN chain over fresh and patched trees | |
| `MicroEntry` | when the indicator bot calls a symbol eligible and an order fills (pure) | `IndicatorBot` |
| `IndicatorBot` | runs of the paper bot over its ledger | |
| `StudyPlans`, `ScannerPlans` | each study as a plan (data) | `EdgeStudies` |
| `EdgeStudies` | one run of one study: load, filter, walk, label, judge | |
| `<M>Properties` | properties of `<M>`, its fairness, the refinement mapping | |
| `LiveTradeProofs`, `LiveTradeSaleProofs`, `EntryGateProofs`, `SpotRuntimeProofs`, `FastEntryProofs`, `IndicatorBotProofs` (with `MicroEntry`), `EdgeStudiesProofs`, `ImageBuildProofs` | theorems | |
| `MC<M>` | the instances TLC runs: values of set-valued constants, and the static conditions on the given scripts and plans | |

### 2.1 LiveTrade and the code

An *executor* is one invocation of `manualBuyAndProtectViaSupabase`. `pc[e]` is
the `await` it stands at, `ex[e]` its locals (the entry order as last read, the
turn of `settleEntryOrder`, the answer to the OCO POST, the answer it returns).
The chain of actions follows the function: `ClaimIntent` / `DuplicateIntent`,
`PassGate` / `BlockAtGate` / `RefusePreTrade`, `Buy*` (`placeBuy`), `Settle*`,
`CancelRest`, `FinalQuery` (`settleEntryOrder`), `Filled`, `Normalize`, `Oco*`
(`placeOco`), `Emg*` (`emergencyClose`). A *reconciler* is one run of
`supabaseReconcileActiveTrades`; it walks the index it read, reads the row, then
list, legs and balance in any order (`ReadExchange` is one of the four answers
of `Promise.all`), decides, claims, books, writes EXITED.

`writeTradeState` is not an assignment: a process that writes holds its call in
`w[p]` and takes four steps (get row and check, put row, get index, put index);
its own code goes on when the call is over (`Ready`).

A POST is `Send`, then the exchange's `Accept...` or `Reject`, then the caller's
answer. `GiveUp` is the 15 s timeout of `relay()`; with `LateDelivery` the
request may be executed after it. `Crash` is a worker that dies or a store call
that throws; the executor catches neither. Each uses one of `MaxFaults` faults.

Data is reduced to what the properties tell apart. Quantities are 0, 1 (a
partial fill) and 2 (a full lot). A row is its state, three marks
(`unprotectedPosition`, `emergencyClosed`, `protectionIds`) and how its exit was
booked. `risk:daily-live` counts how often each intent's result is in it.

### 2.2 EntryGate and the code

A *handler* is one CONFIRM callback of `handleTelegramWebhook`: execution lock,
the state reads of the gate, its live exchange read, the preflight, the call of
the executor, the executor's own gate, the order, its answer, and what the owner
is told. The executor inside it is `LiveTrade` seen from the caller: a trade is
NONE, CLAIMED, ORDERED, FILLED, PROTECTED, BARE (a position without a list) or
CLOSED, and the answers are those `LiveTrade` returns.

Beside the handlers run the gateway's cron (`CronReconcile`, `CronReport`,
`OfferMade`, `OfferRefused`), the owner (`Prepare`, `Cancel`, `Pause`,
`Resume`), the supervisor's watchdog and `/go-no-go` page, and the world: keys
that expire, fills, lists that execute or are cancelled, sales by hand. Time is
not counted; the order of expiries is kept: the execution lock has the TTL of
the signal and is put after it, so it never ends first.

`since`, `calls` and `warned` are history: what has held ever since a CONFIRM
was pressed, how often the executor was called, which bare positions the owner
was told of (the claim of `notifyOnce`).

Some refusals of the gate depend on values that are not modelled (kill switch,
daily cap, price, balance, size): they may happen in any state.

### 2.3 TradeFiles, SpotRuntime and the code

`pos` and `res` are the position and the reservation file. A helper of
`trade_state.py` that runs under its lock is one step; `record_buy` and
`record_oco`, which write both files, are one step that `CrashInRecord` may cut
after the first. Where a worker calls two helpers, there are two steps:
`ReconMarksLost` and `ReconEndsReservation`, `DynRecords` or `DynFailsOld` and
`DynEndsReservation`. `relay[h]` is a thread of the relay (`RelayChecks`,
`RelayReserves`, `RelayRecords`, `RelayRejects`, `RelayLosesAnswer`), `recov`,
`recon` and `dyn` are the places of the three workers and what they hold in
memory: `recon.open` and `recon.ended` are read once per pass and used to its
end, `recon.copy` is the state `_rebuild_unknown_open_oco` loads and saves
without the lock.

`make` holds what Make.com has received and not run; it is run at any time, also
after its sender gave up. An answer is a list id, a refusal, or none yet. All
checks of content (sizes, risk, signatures, guard files) are one refusal: a
request that does not happen. `misled` remembers the signals whose BUY filled
and was answered with an error, `Leftover` those whose list was open when the
state files were lost.

### 2.4 FastEntry and the code

The engine's counters and flags are the variables; time is a small clock whose
day has `DayLength` ticks. A loop retries the chat and the preflight, ranks, and
tries one candidate after the other: `maybe_signal` resets the day's counter and
looks at the caps, `market_metrics` reads the market, `WorkerTakes` is the POST
reaching the Worker, `Ready` its answer and the count. Between any two of these
time may pass (`SlowAnswer`, at most `MaxSlow` ticks per loop), midnight
included; the sleep is one tick. A POST that was given up may arrive later
(`LateArrives`). `posted` (what the Worker holds of the day), `carried` (those of
it whose try began the day before), `lost` and `lives` (processes of the day) are
history. The score and the anti-chase check are open: they may let any symbol
through. `DryRunAnswers` is what the Worker says to the preflight's dry run. The
engine wants `userConfirmationRequired` true; of the repository's Workers only
`buy-gateway-canonical.js` says so. The run supposes that Worker; with
`buy-gateway-stable.js` the engine posts nothing (`ClosedEngine`). In the image
`patch_no_daily_signal_cap.py` switches the cap off for values of
`FAST_MAX_SIGNALS_PER_DAY` below 1; the default is 6.

### 2.5 ImagePatches, ImageBuild and the code

A script is a list of groups of edits; a group's files are written together. An
edit has the mark that makes the script skip it, its anchors, what it puts, what
it cuts, and whether a missing anchor raises: the scripts' `if mark not in s`,
`if anchor not in s: raise SystemExit`, `s.replace(anchor, replacement, 1)`. A
file is the set of those texts in it. `ImageBuild` runs the 39 scripts one after
the other (`place`) and the groups of each (`group`). Seven scripts are run by
`exec` at the end of the one before them (`Executed`), so that they share its
process: an "already applied" (`raise SystemExit(0)`, the `stop` of a group)
ends the process and with it every script still to come in it (`ProcessEnd`).
After the last script come the assertions of the RUN line; the chain may begin
again over the tree it left.

`ImageBuildProperties` also says what the scripts have to be for the properties
to hold: `PatchesSound` (where the mark of an edit is, everything it puts for
good is; a stop mark comes from its own group; an edit that is passed over in
silence is covered by another that is not), `CeilingsOfOne` and
`ThinStakeIsLate`. These speak of the given texts only, not of any state;
`MCImageBuild` has TLC evaluate them, and the theorems rest on them.

### 2.6 MicroEntry, IndicatorBot and the code

`MicroEntry` holds the decisions of one symbol in one run as operators over a
record of facts: a measure that the code compares with thresholds is the number
of thresholds it reaches. `IndicatorBot` is the run: `file` is
`indicator_state.json`, `ledger` the run's copy, `step` where it stands.
`MayOpen` is the chain of refusals of `open_position`, `MustClose` and `Trailed`
are `manage_position`, `close_position` books. Prices are whole numbers, one
unit per position. `gap` remembers what fills of the day were worse than the
stop fill the budget had counted with.

`Intervals` are the candles `market_context.py` can ask for. The committed table
has no daily ones, so that the listing-age gate refuses every symbol and the bot
opens nothing (`NoDailyBarsNoEntry`; section 4). The run takes daily candles in,
so that it says something of the code behind that gate.

### 2.7 StudyPlans, ScannerPlans, EdgeStudies and the code

A study is a record: how many bars it loads and what a symbol that fails does to
the run; how many first bars have no features, where thresholds come from and
whether filters renumber the bars; how signals are spaced; what a label reads;
and the parts with their shares, their symbols, their use and the rows they
need. `EdgeStudies` runs any of them: which bars are signals, which of the
possible bars ends a label and what the figures say is open, so that a property
speaks of every data set. Candidates for signals are the bars around the cuts,
where a boundary can be missed. `WellFormed`, `SpacesRows` and `KeepsApart` of
`EdgeStudiesProperties` are conditions on a plan as it is written;
`MCEdgeStudies` has TLC evaluate them: they hold of every study of `edge_studies`,
`KeepsApart` fails for each of the fifteen of `MCLeaky`, and `SpacesRows` for
`BastionJoat`. `use` says whether a part picks a rule, proves it, or only checks
it. Rows a script says an earlier audit has inspected count as `pick`, also where
it calls them a confirmation (`Confirmation`, `FusionV2`). `EvReplays` are the six
tests `approved` of `historical_ev_replay.py` demands: the whole, the four
walk-forward folds and the unseen symbols.

That labels of one part overlap is by design in many scripts and not a property
of the project: `SpacesRows` only says of which plans they do not.

## 3. The runs

All constants are named in the `.cfg` files. `SettleAttempts = 6` as in the
code.

| run | instance | states | shows |
|---|---|---|---|
| `live_trade` | 1 intent, 1 executor, 1 reconciler, 2 faults, late delivery, manual actions, deep book | 4.8 M | one entry order; orders are on record; sales follow the final entry; answers, PROTECTED, EXITED and emergencyClosed tell the truth |
| `live_executors` | 1 intent, 2 executors, 2 faults, late delivery, manual actions, thin book, fairness | 196 K | ownership of an intent; `TradeLifecycle` is implemented; every call ends |
| `live_exits` | 1 protected intent, 2 reconcilers, manual actions, fairness | 65 K | a result is counted once, counted at all, priced, and booked in the end |
| `gate_confirms` | 2 proposals, 2 handlers, no faults, no page | 2.4 M | a lasting block is kept; an order lost from sight blocks |
| `gate_blocks` | 1 proposal, 2 handlers, 2 faults, page opened, fairness | 634 K | one executor call per proposal; a refusal is flat; a lost protection blocks again and again |
| `runtime_recovery` | 1 signal, 1 relay thread, 2 lists, 1 fault, ratchet off, fairness | 198 K | types; nothing is submitted twice; a fill is not forgotten and in the end tracked; a list that ended is noticed |
| `runtime_ratchet` | 1 signal, 1 relay thread, 2 lists, 2 stop levels, ratchet on, no faults | 9.1 M | closed only on a sale; the stop on file is the list's |
| `image_build` | the 39 scripts, the three stale ones and any one more taken out, 2 builds | 11.9 K | a published image is whole; its three ceilings agree; no refusal is undone |
| `indicator_bot` | 2 symbols, 2 days, 3 trades, 1 fault, facts within two changes of an ideal entry, fairness | 1.4 M | the day's loss is bounded; stops tighten; positions end |
| `edge_studies` | 28 studies and 6 tests of the replay, up to 4 signals each | 1.7 M | what proves a rule is unseen |
| `fast_entry` | 2 symbols, cap 2, 3 faults, days of 7 ticks, answers of up to 2 ticks | 940 K | the day's cap |
| `bug_leaky_holdout` | the precision calibration | - | violation: labels of the rows that choose the parameters read the final holdout |

**Why these bounds.** One intent in `LiveTrade`: executor and reconciler share
nothing between intents but the index and the daily row; what two intents can do
to those is listed as a hazard. Two executors suffice for competition, since a
claim has one winner and all losers behave alike; the theorems hold for any
number. Two faults allow a lost answer followed by a crash or by a second lost
answer, the deepest chain of fault handling in `placeBuy`, `placeOco` and
`emergencyClose`. Two handlers and two proposals are enough for a duplicate
CONFIRM and for two proposals that pass the gate side by side. In `SpotRuntime`
one signal has both of its actions, two lists are a list and its replacement
(or its rollback), two stop levels are one ratchet, and repeated clicks come one after the other through one
thread; any number of signals, threads and lists is what the theorems are about.
One fault there is a lost answer, a death between two files or a restart.
In `IndicatorBot` three prices lie below, near and above the levels of one
entry price; two symbols share the budget of a day and two days let a position
be carried over midnight. In `EdgeStudies` an overlap is between two rows, so
two rows each of two symbols are enough.
The safety properties of the runtime, of the bot and of the gate were also tried
by simulation (`-simulate`, 10^8 states each, no violation) on larger instances:
three lists, two threads and two faults; five trades over four days with three
faults and more prices; three proposals, and four faults. That they hold for
every size is what section 5 proves.
Each property is broken on its instance by at least one plausible bug: the
operators commented as mutants are those bugs.

**Deadlock.** The live runs, the runtime, the image build and the studies switch
deadlock detection off because they really end: every call is over and no
position is left; every signal was served; the image is published; the study is
done. That none hangs before is `EveryCallEnds`, `FillIsTracked` and
`EndedListIsNoticed`. The gate, the bot and the entry engine never stop, and
their runs look for deadlock.

**Fairness.** `FairSpec` of `LiveTradeProperties` has weak fairness for each
process's own steps, for its store calls, and for the exchange's reaction to a
request or an open order: the platform runs a worker that is not dead, and the
store and Binance react. A fault is never owed, and neither is a new CONFIRM.
`GateFairSpec` has weak fairness on `CronStep` only: the platform fires
`scheduled()` every minute (`wrangler.jsonc`, `crons`), and a run that finds a
loss goes on to report it or dies; deaths are bounded by `MaxGateFaults`.
`FairSpec` of `SpotRuntimeProperties`: the supervisor restarts a dead container
and every worker is an endless loop, so each relay thread, the recovery worker
and the reconciler keep taking the steps they can; strong fairness on
`RecovProtects` alone, since the relay starts a thread per request and a thread
that is busy does not keep the request out. Nothing is assumed of Make.com, of
Binance, of the dynamic exit manager or of who clicks. `IndicatorBot`: the
workflow starts a run every few minutes (`WF(Run)`) and time passes between runs
(`SF(TimePasses)`, since it does so only while no run is on). Of `FastEntry`
only safety is checked: that its preflight ever succeeds is not something the
repository's Workers guarantee.

**Restrictions that carry weight.**
- `EmergencyIsFlat` holds with a deep book (`ThinBook = FALSE`); with a thin
  one it fails: `bug_emergency_unfilled`.
- `OwnExitIsPriced` is run from `InitProtected`, after the executor's call: a
  run of the reconciler during the call breaks it (`bug_torn_reads`).
- `ExitIsBooked` is run without faults; one death breaks it
  (`bug_exit_lock_crash`).
- `DayCap` allows one signal of a try that midnight overtook (`carried`): it was
  let through by yesterday's counter and is never counted to the new day.
- `StopsOnlyTighten` compares the files of completed runs, and the steps within
  a run: a stop tightened by a run that died is lost, by design of the ledger.
- The state files are readable. `load_state` and `load_reservations` answer a
  read error with an empty state, and the next helper saves it; section 4.
- `FollowsLifecycle` is the executors' refinement, without a reconciler.
- `LostFromSightBlocks` holds without faults and without the page: a store call
  that throws loses the row (`buy-gateway-stable.js` 740), and the page puts a
  new list over it (`ops-supervisor.js` 1112).
- `LossIsReflagged` says "again and again", not "always": the watchdog clears
  the block in between.
- `FillNotForgotten` is run with one signal. With two, a rebuild of an unknown
  list erases what was recorded during it: `bug_lost_update`. `OnlyStaleSavesForget`
  proves that with any number of signals this is the only way to forget a fill.
- `runtime_ratchet` runs without faults, since with one the instance is too
  large; that the manager gives up waiting while Make still runs its request
  needs no fault and is part of it. `ClosedOnSale` and `StopOnFileIsLive` are
  proved for any number of faults, lists and levels.
- `StopOnFileIsLive` says that the manager raises the stop that is in force; that
  the stops of a coin's lists never go down does not hold (section 4). It is
  assumed that Make runs or drops a request within the 120 s between two ratchets
  of one position (`DynLooks`); positions rebuilt for the same coin do not wait.
- `image_build` starts with all scripts, without the three that stop the chain on
  the committed files (section 4), and without these and any one more. The
  theorems hold for every set of scripts taken out and any number of builds.

## 4. Where the code and its word part

`findings` in `PROJECT.json` quotes both sides of each. One instance is a run,
`bug_leaky_holdout`; the others are kept beside the project and are run by hand,
`tlc -workers 2 -config <instance>.cfg <module>`; each ends with the violation.

| instance | module | what is said | what happens |
|---|---|---|---|
| `bug_leaky_holdout` | `MCEdgeStudies` | "The final holdout is never used for parameter selection" (`research/indicator_only_precision_calibration.py` 8) | labels of the validation rows, which choose the parameters, run on into the holdout |
| `bug_lost_update` | `SpotRuntimeProperties` | all mutations "share one advisory flock" (`freqtrade/trade_state.py` 31) | a rebuild loads and saves the state without the lock and erases a BUY |
| `bug_unprotected` | `SpotRuntimeProperties` | "protects a confirmed bot BUY if protection was never submitted" (`freqtrade/execution_recovery.py` 8) | a position left at BUY_FILLED is never looked at |
| `bug_exited_overwritten` | `LiveTradeProperties` | `TRADE_ALREADY_EXITED` (`supabase-live-client.js` 124) | the check is made on the row read; an executor's PROTECTED is put over the reconciler's EXITED |
| `bug_exit_lock_crash` | `LiveTradeProperties` | `EXIT_ALREADY_FINALIZED` (1209) | a run that dies after the claim leaves a lock of 365 days; no later run books the exit |
| `bug_torn_reads` | `LiveTradeProperties` | "Manual/external position change detected" (`buy-gateway-stable.js` 1195) | the legs were read before the list was placed, list and balance after it executed: the bot's own exit is booked as external, without a result |
| `bug_last_poll_fill` | `LiveTradeProperties` | `ENTRY_FINAL_STATE_UNKNOWN` (475) | the last poll read the order FILLED; the loop ends without looking at it and the position stays unprotected |
| `bug_emergency_unfilled` | `LiveTradeProperties` | `EMERGENCY_CLOSE_FILLED` (643) | any accepted response counts as a completed sale |
| `bug_second_position` | `MCEntryGate` | "maximum open positions: 1" (`README.md` 81) | two proposals confirmed side by side both pass the live count and both buy |
| `bug_lost_protection` | `MCEntryGate` | "Protection lost: BLOCK" (`docs/PRODUCTION_INCIDENT_RUNBOOK.md` 13) | the watchdog clears the block because it looks at a field its reconciliation never returns; until the next report a CONFIRM buys |

`MCEdgeStudies` also has TLC evaluate that fourteen more studies do not keep
their parts apart (`LeakyPlans`), among them the confirmation, whose recent window
"already inspected" by the prior audit (`indicator_only_precision_calibration.py`
364) is among its proofs, and that the two trades of
`bastion_joat_canonical_backtest_v1.py` may share a bar although "Same symbol
cannot overlap" (178) (`JoatPlan`).

Proved: with the repository's own Worker the entry engine posts nothing
(`ClosedEngine`: `fast_entry_engine.py` 144 wants `userConfirmationRequired` true,
`buy-gateway-stable.js` 360 answers false and `supabase-live-client.js` 1382
another status), and the committed paper bot opens nothing (`NoDailyBarsNoEntry`:
`market_context.py` 16 has no daily candles, so `indicator_bot.py` 306 finds every
listing age unavailable).

Seen while modelling, without an instance: a state file that cannot be read is
taken for an empty one and saved as such (`trade_state.py` 115, 132); a query that is "not found" is never
recognised by the recovery worker (`execution_recovery.py` 40); `Path` is not
imported in `reconcile_state.py` (194); a child order that cannot be read counts
as unsold (123); a stale guard file is taken for a verdict
(`production_runtime_guard.py` 38); three scripts of the image chain look for
texts that are gone; the executed ids of the paper bot are cut in alphabetical
order (`indicator_bot.py` 891); a study indexes bars after it has filtered them
(`intraday_barrier_edge_scanner_v1.py` 314); a collector does not resubscribe
(`forward_microstructure_collector_v4.py` 187).

`StopNeverLoosens` in `SpotRuntimeProperties` states that the manager "may only
ratchet the stop upward" (`dynamic_exit_manager.py` 5). Two lists are too few to
see that it does not hold; with three, and three stop levels, TLC finds it
violated in the place of the invariants of `runtime_ratchet.cfg`. Without a
fault or the owner: the ratchet's request and the rollback both outlast their
45 s, Make places the ratchet's list, the reconciler rebuilds it as a position of
its own, which has no last ratchet to wait for, and in the gap of that position's
ratchet Make runs the old rollback (285).

`PauseIsImmediate` in `EntryGateProperties` states "New entries are blocked
immediately" (`buy-gateway-stable.js` 842). It does not hold for a handler that
has passed the gate; what does hold is `SteadyBlockHolds`. It has no instance of
its own, since the message can be read either way.

## 5. The proofs

Checked with tlapm 1.4.5 (SMT, Zenon, LS4). There are no unproved steps.
Assumptions are those of the constants: `LiveAssumption`, `StoreAssumption`,
`ExchangeAssumption`, `IntentAssumption` (`NoIntent` is no intent),
`EntryGateAssumption` (the set of proposals is finite, bounds are naturals),
`FilesAssumption` (there is a signal, a list and a stop level, and no signal
has the id of a rebuilt list), `RuntimeAssumption`, `FastAssumption`,
`BotAssumption` (the universe is finite, numbers are naturals, two or more losses
cool a symbol) and `StudyAssumption`. Nothing is assumed of how the bot's limits
are ordered.
Nothing is assumed of the number of processes, handlers,
threads, intents or signals. Where a theorem holds only under a condition on its
constants, the condition is a hypothesis of the theorem. The theorems about
studies and scripts have static conditions on given data as hypotheses; TLC
evaluates those on the data of the repository (the ASSUMEs of `MCEdgeStudies`
and `MCImageBuild`).

### 5.1 LiveTradeProofs

- `TypeCorrect`: `Spec => []TypeOK`, proved only, not run. Needs `WorksOnIntent` (a process in a call
  has an intent) to be inductive.
- `OwnersOwn`: `Spec => []Ownership`, and `EntryOnce`: `Spec => []SingleEntry`.
  "Submitted at most once" is not inductive: a second executor that stands
  before its submission would break it. `Ownership` says why none does: no two
  executors have the same intent; an executor that has one found the row claimed
  and no write ever takes a row back to NONE (also no write in progress, whose
  merged row was read earlier); an unclaimed intent has no order; an owner that
  has not submitted yet finds zero submissions. The proof is by executor,
  reconciler, write, unwinding and exchange steps (`OwnerStepEntry`,
  `ClaimEntry`, `RunStepEntry`, `WriteStepEntry`, `UnwindEntry`, `FrameEntry`);
  `ReconcilerHolds` supplies that a reconciler writes only rows it has read as
  begun.

- `PnlOnce`: `Spec => []PnlAtMostOnce`, by `Counting`. The daily row is read and
  put as a whole, so a run that books one exit puts back its copy of all others:
  the invariant speaks of the copies too. An intent whose key is not claimed is
  in no copy; while its one booker stands between claim and put, it still is in
  none; afterwards every copy has it at most once.

- `ExitsAreCounted`: `Spec => []ExitIsCounted` when there is one intent, by
  `OneFinalizes`: the finalize lock lets one run per intent through, so that the
  claim of the result behind it, whose failure leads to EXITED without counting,
  does not fail. With two intents the statement is false (a stale copy of the
  daily row erases a result: a hazard of the list).
- `OwnExitsArePriced`: `ProtectedSpec => []OwnExitIsPriced` for a finite set of
  intents. The four reads are pinned to what cannot change any more: a leg read
  as cancelled leaves two ways the list can have ended, both legs one
  (`Looked`); rows and calls say `external` or `unprotectedPosition` only of a
  list that was cancelled (`Told`). It needs that the list exists before the
  reads begin, which is why it starts from `InitProtected`.

### 5.2 LiveTradeSaleProofs

- `SalesFollowEntry`: `Spec => []SaleFollowsFinalEntry`; `ProtectionIsReal`:
  `[]ProtectedIsReal`; `ExitsAreFlat`: `[]ExitedIsFlat`; and, with a deep book
  (`~ThinBook`), `EmergencyCloses`: `[]EmergencyIsFlat` and `AnswersAreHonest`:
  `[]AnswerIsHonest`. All are part of one invariant, `SaleInv`. The exchange
  forgets nothing (`Remembers`): a final order stays final, a list or sale that
  exists stays, a position whose entry is final only shrinks. An executor's
  knowledge is never ahead of it (`ExecutorIsTrue`). And a write that lands late
  is still true, because what it says was true when it began and is of the kind
  that stays true (`Truthful`, for rows and for rows on their way). The four
  reads of the reconciler are covered by the row it read first: a mark in it says
  that the entry was final before any of them (`RunKnows`).
- `OrdersAreOnRecord`: `Spec => []OrderIsOnRecord`, by `RecordInv`. That the row
  is written before the order is sent is one step; that it keeps telling is the
  work, since any other process may put back a row it read earlier. It cannot:
  whoever writes over a row that has the client ids read them there, or writes
  for a call that is over and will never place a list (`Safe`, `WriteTells`).
- `ExecutorsImplementLifecycle`: `Reconcilers = {} => (Spec => FollowsLifecycle)`,
  for every number of executors, intents and faults. Without a reconciler a row
  has one writer, its owner, so the place of the call says what the row says or
  will say when the write under way has landed (`Fits`, `RowFits` in `LifeInv`),
  and no write skips a state (`Follows`). A sale is new because the call has not
  passed its place yet (`SaleIsFirst`), the entry because of `OwnerSendsOnce`, and
  `PROTECTED` is true of the list because of `Truthful`. Every put of a row, every
  submission and the acceptance of a list are steps of the lifecycle; all other
  steps stutter (`LifeFollows`).

### 5.3 EntryGateProofs

- `GateTypeCorrect`: `GateSpec => []GateTypeOK`, proved only, not run.
- `GateConfirmsOnce`: `GateSpec => []ConfirmedOnce`, hence `GateCallsOnce`:
  `ExecutorCalledOnce`. While a signal is fresh, the lock stands for any handler
  on its way and for any call that was made, so a second CONFIRM gives way; once
  the signal is over the lock may expire, but a handler that comes later is
  stopped at the age test. Between the age test and the call at most one handler
  stands (`OneCaller`), whatever expires under it.
- `GateAnswersOnce`: `AnsweredOnce`, hence `GateRefusesFlat`: `RefusalIsFlat`.
  One handler at most is past the call, a trade begins with the call, so the
  trade a handler reports on is its own.
- `GateLooks`: `GateHasLooked`, hence `GateBlocksHold`: `SteadyBlockHolds`, for
  every limit of open positions. What is remembered of a handler only shrinks
  (`RememberedShrinks`), and at the moment of the look it contained no block.
  The limit needs finiteness of the set of proposals, for cardinalities.
- `GateRecordsDoubt`: under `MaxGateFaults = 0` and `~PageOpened`,
  `GateSpec => []LostFromSightBlocks`.

### 5.4 SpotRuntimeProofs

- `RuntimeTypeCorrect`: `Spec => []TypeOK`, by `TypeInv`, which adds what Make
  holds, what the workers hold in memory (a copy of the file the reconciler will
  save is a well-formed file) and that a ratchet has a level left to go to.
- `SubmittedOnceHolds`: `Spec => []SubmittedOnce`. "Sent at most once" is not
  inductive; `SentIsReserved` adds that what was sent has a reservation, and
  `OthersKeep` that no step of any process, and no crash, takes a reservation
  back to NONE.
- `ClosedOnSaleHolds`: `Spec => []ClosedOnSale`. Everything the processes hold
  was read some time ago, so the invariant `Links` says of each file, copied
  file, request, answer and remembered pair which list it belongs to, in terms
  that stay true: a list once placed keeps its coin and what it has sold
  (`Grows`, `LinksStay`). It is then shown process by process
  (`WorldLinks`, `RelayKeepsLinks`, `RecoveryKeepsLinks`,
  `ReconcilerKeepsLinks`, `DynamicKeepsLinks`, `CrashKeepsLinks`).
- `StopOnFileIsLiveHolds`: `Spec => []StopOnFileIsLive`. A stop is recorded from
  the process's own request, not from the list, so it has to be shown that the
  list an answer names was placed for that very request: `RelayAsks` (a key is
  reserved when it is sent, so there is no second request of other levels) and
  `DynAsks` (of one position Make holds at most the requests of the ratchet under
  way). `Levels` then says of the file, the reconciler's copy and every answer
  which stop its list has, and a placed list never changes it (`SameLevels`).
- `OnlyStaleSavesForget`: `Spec /\ []CopyIsFresh => []FillNotForgotten`, for any
  number of signals. `CopyIsFresh` says that the whole state a rebuild is about to
  save lacks no position that is on file. `FateInv` follows a BUY from its
  reservation to its fate (Make holds one request per reserved and unbought
  signal, a refusal means that nothing was bought); `FateKnown` is then kept by
  every step of relay, recovery, manager, Make and crash. So among the steps the
  unlocked save is the only way to forget a fill. `FillNotForgotten` does not
  speak of a BUY that filled and was answered with an error (`misled`), nor of
  signals whose files were lost before the start (`Leftover`).
- `SingleFillRemembered`: with one signal `Spec => []FillNotForgotten`, without
  that condition, by `TrackedFirst`: a rebuild needs a list, a list needs an OCO
  request, and that is sent only of a signal on record, which is then in every
  copy. TLC has checked the invariant with the manager on and one fault (49 M
  states).

### 5.5 FastEntryProofs

- `DayCapHolds`: `Spec => []DayCap`, for every cap, cooldown, length of a day
  and duration of a call, by `CapInv`: what the Worker holds of the day is within
  the caps of the day's earlier processes, the lost answers, the one signal
  carried over midnight, what this process has counted and what it is about to
  count. A try that stands in a read or a POST has passed the cap (`Trying`); the
  counter is reset by the next try only, and `counted_today` says whether it
  speaks of today.
- `ClosedEngine`: if no dry run of the Worker says that it asks the owner,
  `Spec => [](posted = 0)`. A preflight is then never passed (`Closed`), so no try
  ever gets to its POST, whatever is lost and however often the engine restarts.

### 5.6 IndicatorBotProofs

- `DailyLossBounded`: `Spec => []DailyLossBound`, for every finite universe, all
  prices, distances, fees and limits. The bound on the realised loss is not
  inductive: a day may begin with positions that were opened yesterday. `Within`
  is: what the day has lost, and what its open positions may still lose at their
  stops, is at most the daily limit plus `gap`. A trailing stop only lowers the
  risk (`StopRiskFalls`), a close moves it into the loss (`CloseWithin`), an
  entry was granted only what is left (`OpenWithin`), and midnight forgets the
  loss and keeps the positions (`ResetWithin`), whose risk is within the daily
  limit by itself: `Within` has that as its first part, and no ordering of the
  configured limits is needed. It holds of the file and of the run's ledger; `Reading` says
  how the two hang together, so that a run that dies loses a whole, and only a
  whole, ledger.
- `StopsTighten`: `Spec => StopsOnlyTighten`, an action property, by `NoLooser`:
  of what both hold, the ledger's stop is not below the file's. A symbol that was
  sold and bought again within one run would break it; `fresh`, taken before the
  run managed its positions, shuts that out.
- `NoDailyBarsNoEntry`: if `Intervals` lacks the daily candles, no position is
  ever held, in the file or in a run.
- `SumTakesOut`: the fold that adds up the portfolio's risk is a sum, whichever
  symbol it takes first. The induction is over the least counterexample of a
  well-founded order (`WFMin`), since the library's induction theorems take an
  operator as parameter.
- `ScoreNeedsNoCut`, `EligibleIsConfirmed`, `EligibleWithoutCvd`,
  `RegimeAddsBreadth`, `FillIsWithinCross`: what the decisions of `MicroEntry`
  amount to, for all facts, markets and orders.

### 5.7 EdgeStudiesProofs

For every set of plans that meet the conditions named, and any number of signals.
TLC has checked the invariant on the instance of `edge_studies`.

- `ProofStaysUnseen`: plans that keep their parts apart (`KeepsApart`) have
  `Spec => []ProofIsUnseen`. `Reads` bounds what a row has read by its reach, or
  by its part, so a part that ends in time ends with its labels (`EndedBefore`).
  Shares of one ordered list hold different rows (`RanksApart`); there different
  rows have to be independent (`PairwiseApart`), which is why such a plan must
  space its rows. The walk remembers one row of a symbol, the last; `Behind` says
  why that is enough: no row of the symbol is younger, and where one position is
  held at a time none that counts with it ends later, so that all rows that count
  with a new signal have ended when it comes (`EarlierRowsEnded`).

### 5.8 ImageBuildProofs

For every set of scripts taken out and any number of builds, from the static
conditions of 2.5. The edits of the 39 scripts are never expanded in the first
three proofs: these would hold of any other edits that meet the conditions.

- `BuildInvariantHolds`: `PatchesSound => (Spec => []IInv)`. Three parts of
  `IInv` speak of the files alone: `Origin` (a text is a committed one or was put
  by a script that is not taken out), `Marked` (where a mark stands, so does what
  its edit puts for good) and `Handed` (an earlier script has left the anchor that
  a silent edit needs). The others follow the chain: what the scripts so far, and
  the groups so far of the running one, put for good is there (`ChainSettled`,
  `GroupsSettled`), and a stop mark of an earlier process means that the whole of
  that process is there (`StopsSettled`). They need that no script is taken out
  without which nothing is published (`Doomed`): the assertions then fail anyway.
  A group is a sequence of stages, gone through by induction (`Upwards`).
- `PublishedWhole`: `[]PublishedIsWhole`. `CeilingsTogether`: `[]CeilingsAgree`;
  one script puts all three ceilings, so a published image has all or none.
- `RefusalsNeverCut`: `RefusalsStay`, an action property. Of all refusals only
  the thin stake is ever cut, by the first group of `growth_mode`, which must be
  kept from running over a tree that has it. That is `ThinInv`: the group looks
  for a target that only `momentum_ignition` leaves; that script goes through
  only with the ignition banner in the file; and the banner is gone
  (`adaptive_watch` takes it out) before `live_opportunity` puts the thin stake. A
  build over a tree that has the thin stake therefore stops before the cut.

TLC has checked `IInv` and `ThinInv` on the instance of `image_build`.

### 5.9 Model-checked only

Every invariant and every action property of the passing runs, and the refinement
of `live_executors`, is proved, under the conditions named above. What stays with
TLC:

- Liveness (`EveryCallEnds`, `ExitIsBooked`, `LossIsReflagged`, `FillIsTracked`,
  `EndedListIsNoticed`, `PositionEnds`): it rests on fairness, thus
  on ENABLED, which is out of TLAPS' reach.
- That the scripts and the plans of the repository meet the static conditions of
  5.7 and 5.8: TLC evaluates these on the data.
- The violations of section 4.

## 6. Not modelled

- The two-intent effects on `live:active-intents` and `risk:daily-live` (listed
  as hazards).
- Expiry of trade-intent rows after 90 days; a store put that is applied after a
  later put of the same key.
- The E2E variant and the dry run of the executor; the autonomous path of the
  gateway (`processAutonomousCandidate`; `MANUAL_APPROVAL_ONLY` is `true`), the
  parallel state reads of the gate as separate moments, overlapping cron runs of
  the gateway.
- A fast signal that is repeated with its id within a minute: `handleFastSignalIngest`
  (`buy-gateway-stable.js` 373) then renews `live-signal:<id>` and `prepared:<id>`,
  so that the execution lock may end before the signal. The executor's durable
  claim of the intent still stops a second call (`LiveTrade`); `EntryGate` offers
  an id once.
- Telegram delivery, message texts, amounts, prices, fees.
- That `EntryGate`'s view of the executor is implemented by `LiveTrade` is kept
  by hand: the two share their answers and states but no refinement between them
  is checked.
- Health state machine and alerts of the supervisor, position reviews, nonces of
  the relay and of the bridge, rounding to lots and ticks, shadow and paper
  execution in `src/execution`: the next modules to write, in this order.
- In `SpotRuntime`: the checks of content before a BUY, `performance_snapshot`,
  the event log; the safety guards are the relay's one refusal. A state file
  that cannot be read.
- In `FastEntry`, `MicroEntry`, `IndicatorBot`: the arithmetic of indicators;
  what a threshold decides is kept. The audit files, the report and the outcome
  statistics of the bot.
- In `ImageBuild`: what the inserted code does; the `sed` edits before, within and
  after the chain (`Dockerfile.railway` 98-102, 135), of which two put the ECDSA
  header into `fast_entry_engine.py`; the assertions at the end of the build that
  ask the imported modules for names and thresholds; scripts that are not in the
  chain of `Dockerfile.railway` (`scripts/patch-*.py`, earlier versions of a
  script).
- In `EdgeStudies`: statistics, costs and the scripts' gates on figures; features
  and indicators, of which a plan keeps the warm-up alone; the rounds `gate_a` to
  `gate_h` and the candidate pipelines, which only hand files on.
- The collectors (no decision depends on them at run time), the other bots of
  `ready_bot` (the same load, compute, rename), the strategies for Freqtrade,
  Hummingbot and Jesse (called once a candle; indicator arithmetic), deployment.
