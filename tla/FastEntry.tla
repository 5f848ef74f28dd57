------------------------------ MODULE FastEntry ------------------------------
(***************************************************************************)
(* freqtrade/fast_entry_engine.py: one process that scans every minute,    *)
(* scores setups and posts one signal at a time to the Worker, which asks  *)
(* the owner.  Its caps and cooldowns are counted in memory, and only when *)
(* the Worker's answer arrives; between the check of a cap and the count   *)
(* lie a network read and a POST of up to thirty seconds.  Any doubtful    *)
(* answer closes the engine until a dry-run preflight succeeds.  Time runs *)
(* in scan intervals.  Metrics are abstracted to the outcome of            *)
(* score_setup and of the final anti-chase check: "weak", "spent", "far"   *)
(* (scores, but too far below the breakout) and "setup".                   *)
(***************************************************************************)
EXTENDS Integers, FiniteSets

CONSTANTS Symbols, MAX_SIGNALS_PER_DAY, GLOBAL_COOLDOWN, PAIR_COOLDOWN,
          DryRunAnswers, \* what the Worker behind FAST_INGEST_URL says to a dry run
          DayLength,     \* scan intervals in a day
          MaxSlow,       \* bound: intervals the answers of one loop may take
          MaxFaults      \* bound: restarts and lost answers in a day

\* takes the dry run and asks the owner (buy-gateway-canonical.js), takes it without
\* asking (buy-gateway-stable.js), names another status (supabase-live-client.js)
WorkerAnswers == {"asks_owner", "asks_nobody", "other_status"}

ASSUME FastAssumption ==
  /\ MAX_SIGNALS_PER_DAY \in Nat \ {0} /\ GLOBAL_COOLDOWN \in Nat \ {0}
  /\ PAIR_COOLDOWN \in Nat \ {0} /\ DayLength \in Nat \ {0}
  /\ DryRunAnswers \subseteq WorkerAnswers
  /\ MaxSlow \in Nat /\ MaxFaults \in Nat

VARIABLES pc,               \* "retry", "rank", "try", "read", "post", "sleep"
          telegram_ok, execution_ready,
          ranked,           \* candidates of this scan that are still to try
          symbol,           \* the candidate of the try
          signals_today, counted_today,   \* counted_today: signal_day is today
          global_age, pair_age,           \* intervals since the last counted signal
          call,             \* the POST of the try: "none", "sent", "taken"
          late,             \* requests given up that may still reach the Worker
          tick, slow,       \* time of the day; intervals spent in this loop's calls
          elapsed,          \* intervals since `now` of the try was read
          posted,           \* signals of today that the Worker holds
          carried,          \* those of a try whose day was checked yesterday
          lost, lives       \* today's lost answers, and processes
control == <<pc, telegram_ok, execution_ready, ranked, symbol>>
memory == <<signals_today, counted_today, global_age, pair_age>>
clock == <<tick, slow, elapsed>>
worker == <<posted, carried, lost, lives, late>>
vars == <<control, memory, call, clock, worker>>

Metrics == {"weak", "spent", "far", "setup"}
\* a move already in progress scores nothing
Scores(m) == m \in {"far", "setup"}
AntiChase(m) == m # "far"
Never(age) == [s \in Symbols |-> age]

Init == /\ pc = "retry" /\ telegram_ok = FALSE /\ execution_ready = FALSE /\ ranked = {}
        /\ symbol \in Symbols /\ call = "none"
        /\ signals_today = 0 /\ counted_today = FALSE
        /\ global_age = GLOBAL_COOLDOWN /\ pair_age = Never(PAIR_COOLDOWN)
        /\ tick = 0 /\ slow = 0 /\ elapsed = 0
        /\ posted = 0 /\ carried = 0 /\ lost = 0 /\ lives = 1 /\ late = 0

(***************************************************************************)
(* The loop: the chat and the preflight are tried again when they are not  *)
(* good; a scan that fails ranks nothing.                                  *)
(***************************************************************************)
\* the bot answers, its chat is not the bot itself, and the chat takes an action
validate_and_resolve_telegram_chat(me, private, typing) == me /\ private /\ typing
execution_preflight(answer) == answer = "asks_owner"
Retry(chat, answer) ==
  /\ pc = "retry" /\ pc' = "rank"
  /\ telegram_ok' = (telegram_ok \/ chat)
  /\ execution_ready' = (execution_ready \/ execution_preflight(answer))
  /\ UNCHANGED <<ranked, symbol, memory, call, clock, worker>>
candidate_symbols(found) ==
  /\ pc = "rank" /\ pc' = "try" /\ ranked' = found
  /\ UNCHANGED <<telegram_ok, execution_ready, symbol, memory, call, clock, worker>>
ScanEnds ==
  /\ pc = "try" /\ (ranked = {} \/ ~telegram_ok \/ ~execution_ready)
  /\ pc' = "sleep" /\ ranked' = {}
  /\ UNCHANGED <<telegram_ok, execution_ready, symbol, memory, call, clock, worker>>

(***************************************************************************)
(* maybe_signal, for the candidate with the best score: the day and `now`  *)
(* are read first, then the caps, the metrics, the POST and its answer.    *)
(***************************************************************************)
reset_each_time == 0
reset_day_counter == IF counted_today THEN signals_today ELSE 0
Allowed(s) == /\ reset_day_counter < MAX_SIGNALS_PER_DAY
              /\ global_age >= GLOBAL_COOLDOWN /\ pair_age[s] >= PAIR_COOLDOWN
maybe_signal(s) ==
  /\ pc = "try" /\ s \in ranked /\ telegram_ok /\ execution_ready
  /\ signals_today' = reset_day_counter /\ counted_today' = TRUE
  /\ symbol' = s /\ ranked' = ranked \ {s} /\ elapsed' = 0
  /\ pc' = IF Allowed(s) THEN "read" ELSE "try"
  /\ UNCHANGED <<telegram_ok, execution_ready, global_age, pair_age, call, tick, slow, worker>>
\* the metrics, read again just before the post
market_metrics(m) ==
  /\ pc = "read"
  /\ IF Scores(m) /\ AntiChase(m) THEN pc' = "post" /\ call' = "sent"
                                  ELSE pc' = "try" /\ UNCHANGED call
  /\ UNCHANGED <<telegram_ok, execution_ready, ranked, symbol, memory, clock, worker>>
\* the Worker stores the signal and sends the owner its buttons
WorkerTakes ==
  /\ call = "sent" /\ call' = "taken" /\ posted' = posted + 1
  /\ carried' = carried + (IF counted_today THEN 0 ELSE 1)
  /\ UNCHANGED <<control, memory, clock, lost, lives, late>>
Ready ==
  /\ pc = "post" /\ call = "taken"
  /\ signals_today' = signals_today + 1
  /\ global_age' = elapsed /\ pair_age' = [pair_age EXCEPT ![symbol] = elapsed]
  /\ pc' = "sleep" /\ ranked' = {} /\ call' = "none"
  /\ UNCHANGED <<telegram_ok, execution_ready, symbol, counted_today, clock, worker>>
\* an exception closes the engine: market data fail, or the Worker refuses
Closes == /\ pc' = "try" /\ execution_ready' = FALSE /\ call' = "none"
          /\ UNCHANGED <<telegram_ok, ranked, symbol, memory, clock>>
Fails == pc \in {"read", "post"} /\ call # "taken" /\ Closes /\ UNCHANGED worker
Faulty == lost + late + lives <= MaxFaults
\* no answer, or not the expected one, of a Worker that holds the signal or will
AnswerLost ==
  /\ pc = "post" /\ Faulty /\ Closes
  /\ IF call = "taken" THEN lost' = lost + 1 /\ UNCHANGED late
                       ELSE late' = late + 1 /\ UNCHANGED lost
  /\ UNCHANGED <<posted, carried, lives>>
\* a request nobody waits for reaches the Worker after all (which takes it up to a
\* minute after it was signed), or never
LateArrives ==
  /\ late > 0 /\ late' = late - 1
  /\ \/ posted' = posted + 1 /\ lost' = lost + 1
     \/ UNCHANGED <<posted, lost>>
  /\ UNCHANGED <<control, memory, call, clock, carried, lives>>

(***************************************************************************)
(* Time, the date and restarts.                                            *)
(***************************************************************************)
Aged(age, most) == IF age < most THEN age + 1 ELSE age
TimePasses ==
  /\ global_age' = Aged(global_age, GLOBAL_COOLDOWN)
  /\ pair_age' = [s \in Symbols |-> Aged(pair_age[s], PAIR_COOLDOWN)]
  /\ tick' = (tick + 1) % DayLength
  /\ LET midnight == tick' = 0
     IN  /\ counted_today' = (counted_today /\ ~midnight)
         /\ posted' = IF midnight THEN 0 ELSE posted
         /\ carried' = IF midnight THEN 0 ELSE carried
         /\ lost' = IF midnight THEN 0 ELSE lost
         /\ lives' = IF midnight THEN 1 ELSE lives
  /\ UNCHANGED <<telegram_ok, execution_ready, ranked, symbol, signals_today, call, late>>
SleepInterval == /\ pc = "sleep" /\ pc' = "retry" /\ slow' = 0 /\ UNCHANGED elapsed
                 /\ TimePasses
\* a read, a ranking or a POST takes its time
SlowAnswer == /\ pc # "sleep" /\ slow < MaxSlow /\ slow' = slow + 1
              /\ elapsed' = IF pc \in {"read", "post"} THEN elapsed + 1 ELSE elapsed
              /\ UNCHANGED pc /\ TimePasses
\* a new process knows nothing of the day; a POST of the old one is still on its way
Restart ==
  /\ Faulty
  /\ pc' = "retry" /\ telegram_ok' = FALSE /\ execution_ready' = FALSE /\ ranked' = {}
  /\ signals_today' = 0 /\ counted_today' = FALSE
  /\ global_age' = GLOBAL_COOLDOWN /\ pair_age' = Never(PAIR_COOLDOWN)
  /\ lives' = lives + 1 /\ call' = "none"
  /\ late' = IF call = "sent" THEN late + 1 ELSE late
  /\ UNCHANGED <<symbol, clock, posted, carried, lost>>

Retries == \E me, private, typing \in BOOLEAN, answer \in DryRunAnswers \cup {"none"} :
             Retry(validate_and_resolve_telegram_chat(me, private, typing), answer)
Scans == \E found \in SUBSET Symbols : candidate_symbols(found)
Signals == \/ \E s \in Symbols : maybe_signal(s)
           \/ \E m \in Metrics : market_metrics(m)
           \/ Ready \/ Fails \/ AnswerLost
Next == \/ Retries \/ Scans \/ ScanEnds \/ Signals \/ WorkerTakes \/ LateArrives
        \/ SleepInterval \/ SlowAnswer \/ Restart
Spec == Init /\ [][Next]_vars
=============================================================================
