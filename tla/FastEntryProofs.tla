--------------------------- MODULE FastEntryProofs ---------------------------
(* Proof that the day's cap holds for all constants. *)
EXTENDS FastEntryProperties, TLAPS

FastType ==
  /\ signals_today \in Nat /\ counted_today \in BOOLEAN
  /\ posted \in Nat /\ lost \in Nat /\ lives \in Nat /\ lives >= 1
  /\ call \in {"none", "sent", "taken"} /\ carried \in {0, 1}
\* what today's earlier processes may have posted, what this one counted today,
\* and what the Worker holds of a try that has not counted it yet
Budget == MAX_SIGNALS_PER_DAY * (lives - 1)
CountedNow == IF counted_today THEN signals_today ELSE 0
Pending == IF call = "taken" /\ counted_today THEN 1 ELSE 0
Counted ==
  /\ signals_today <= MAX_SIGNALS_PER_DAY
  /\ posted <= Budget + lost + carried + CountedNow + Pending
\* a try that passed the cap leaves room for its signal; a call belongs to a try;
\* one that midnight overtook is the first of its day
Trying ==
  /\ call # "none" => pc = "post"
  /\ pc \in {"read", "post"} => signals_today < MAX_SIGNALS_PER_DAY
  /\ pc \in {"read", "post"} /\ call # "taken" /\ ~counted_today => carried = 0
CapInv == FastType /\ Counted /\ Trying

\* The budget of the earlier processes grows by one process's cap per process.
LEMMA BudgetGrows ==
  ASSUME NEW cap \in Nat, NEW n \in Nat, n >= 1
  PROVE  /\ cap * (n - 1) \in Nat
         /\ cap * n = cap * (n - 1) + cap
         /\ cap * ((n + 1) - 1) = cap * n
  BY SMT

\* The day's first process has no predecessors to account for.
LEMMA FirstProcess ==
  ASSUME NEW cap \in Nat, NEW n \in Nat, n = 1
  PROVE  cap * (n - 1) = 0
  BY SMT

\* The budget is a number that does not depend on what this process does.
LEMMA BudgetType ==
  ASSUME FastType
  PROVE  /\ Budget \in Nat
         /\ MAX_SIGNALS_PER_DAY * lives \in Nat
         /\ MAX_SIGNALS_PER_DAY * lives = Budget + MAX_SIGNALS_PER_DAY
<1>1. MAX_SIGNALS_PER_DAY \in Nat /\ lives \in Nat /\ lives >= 1
  BY FastAssumption DEF FastAssumption, FastType
<1>2. Budget \in Nat /\ MAX_SIGNALS_PER_DAY * lives = Budget + MAX_SIGNALS_PER_DAY
  BY <1>1, BudgetGrows DEF Budget
<1> QED
  BY <1>1, <1>2

\* CapInv bounds the posts of the day.
LEMMA CapInvImplies == CapInv => DayCap
<1> SUFFICES ASSUME CapInv PROVE DayCap
  OBVIOUS
<1>1. MAX_SIGNALS_PER_DAY * lives = Budget + MAX_SIGNALS_PER_DAY /\ Budget \in Nat
  BY BudgetType DEF CapInv
<1>2. MAX_SIGNALS_PER_DAY \in Nat
  BY FastAssumption DEF FastAssumption
<1>3. CountedNow + Pending <= MAX_SIGNALS_PER_DAY
  BY <1>2 DEF CapInv, FastType, Counted, Trying, CountedNow, Pending
<1>4. CountedNow \in Nat /\ Pending \in Nat
  BY DEF CapInv, FastType, CountedNow, Pending
<1> QED
  BY <1>1, <1>2, <1>3, <1>4 DEF DayCap, CapInv, FastType, Counted

\* The counter that a try resets is what this process has counted today.
LEMMA ResetCounts ==
  ASSUME CapInv
  PROVE  /\ reset_day_counter \in Nat
         /\ reset_day_counter <= MAX_SIGNALS_PER_DAY
         /\ reset_day_counter = CountedNow
  BY FastAssumption DEF FastAssumption, CapInv, FastType, Counted, CountedNow, reset_day_counter

\* An open call that is counted, or given up as lost, leaves the sum as it is.
LEMMA Balance ==
  ASSUME NEW held \in Nat, NEW budget \in Nat, NEW gone \in Nat, NEW over \in Nat,
         NEW count \in Nat, NEW open \in Nat, held <= budget + gone + over + count + open
  PROVE  /\ \A count1, open1 \in Nat :
              count1 + open1 = count + open => held <= budget + gone + over + count1 + open1
         /\ \A gone1 \in Nat : gone + open <= gone1 => held <= budget + gone1 + over + count + 0
  BY SMT

\* CapInv holds initially: nothing is counted and nothing is posted.
LEMMA CapInvInit == Init => CapInv
<1> SUFFICES ASSUME Init PROVE CapInv
  OBVIOUS
<1> USE FastAssumption DEF FastAssumption
<1>1. Budget = 0
  BY FirstProcess DEF Init, Budget
<1>2. FastType
  <2>1. counted_today \in BOOLEAN
    BY DEF Init
  <2> QED
    BY <2>1 DEF Init, FastType
<1>3. CountedNow = 0 /\ Pending = 0
  BY DEF Init, CountedNow, Pending
<1>4. Counted /\ Trying
  BY <1>1, <1>3 DEF Init, Counted, Trying
<1> QED
  BY <1>2, <1>4 DEF CapInv

\* A step that leaves the counters, the Worker and the call alone keeps CapInv,
\* if it enters no try.
LEMMA Elsewhere ==
  ASSUME CapInv, UNCHANGED <<memory, call, worker>>,
         pc' \notin {"read", "post"}, call = "none"
  PROVE  CapInv'
<1>1. FastType' /\ Budget' = Budget /\ CountedNow' = CountedNow /\ Pending' = Pending
  BY DEF memory, worker, CapInv, FastType, Budget, CountedNow, Pending
<1>2. Counted' /\ Trying'
  BY <1>1 DEF memory, worker, CapInv, Counted, Trying
<1> QED
  BY <1>1, <1>2 DEF CapInv

\* A new day owes nothing to its processes of yesterday.
LEMMA Midnight ==
  ASSUME CapInv, TimePasses, tick' = 0, pc' \in {pc, "retry"},
         pc' = "retry" => call = "none"
  PROVE  CapInv'
<1>1. /\ posted' = 0 /\ lost' = 0 /\ lives' = 1 /\ carried' = 0
      /\ counted_today' = FALSE /\ signals_today' = signals_today /\ call' = call
  BY DEF TimePasses, CapInv, FastType
<1>2. Budget' = 0
  BY <1>1, FirstProcess, FastAssumption DEF Budget, FastAssumption
<1>3. FastType'
  <2>1. counted_today' \in BOOLEAN
    BY <1>1
  <2> QED
    BY <1>1, <2>1 DEF CapInv, FastType
<1>4. CountedNow' = 0 /\ Pending' = 0
  BY <1>1 DEF CountedNow, Pending
<1>5. Counted'
  BY <1>1, <1>2, <1>4 DEF CapInv, Counted
<1>6. Trying'
  BY <1>1 DEF CapInv, Trying
<1> QED
  BY <1>3, <1>5, <1>6 DEF CapInv

\* Time that passes within a day changes no counter.
LEMMA SameDay ==
  ASSUME CapInv, TimePasses, tick' # 0, pc' \in {pc, "retry"},
         pc' = "retry" => call = "none"
  PROVE  CapInv'
<1>1. /\ posted' = posted /\ lost' = lost /\ lives' = lives /\ carried' = carried
      /\ counted_today' = counted_today /\ signals_today' = signals_today /\ call' = call
  BY DEF TimePasses, CapInv, FastType
<1>2. FastType' /\ Budget' = Budget /\ CountedNow' = CountedNow /\ Pending' = Pending
  BY <1>1 DEF CapInv, FastType, Budget, CountedNow, Pending
<1>3. Counted' /\ Trying'
  BY <1>1, <1>2 DEF CapInv, Counted, Trying
<1> QED
  BY <1>2, <1>3 DEF CapInv

\* A process that dies leaves its cap to the budget.
LEMMA RestartHolds ==
  ASSUME CapInv, Restart
  PROVE  CapInv'
<1>1. /\ signals_today' = 0 /\ counted_today' = FALSE /\ call' = "none" /\ pc' = "retry"
      /\ posted' = posted /\ lost' = lost /\ lives' = lives + 1 /\ carried' = carried
  BY DEF Restart
<1>2. posted <= MAX_SIGNALS_PER_DAY * lives + lost + carried
  BY CapInvImplies DEF DayCap
<1>3. MAX_SIGNALS_PER_DAY \in Nat /\ lives \in Nat /\ lives >= 1
  BY FastAssumption DEF FastAssumption, CapInv, FastType
<1>4. Budget' = MAX_SIGNALS_PER_DAY * lives
  BY <1>1, <1>3, BudgetGrows DEF Budget
<1>5. MAX_SIGNALS_PER_DAY * lives \in Nat
  BY BudgetType DEF CapInv
<1>6. FastType'
  <2>1. counted_today' \in BOOLEAN
    BY <1>1
  <2> QED
    BY <1>1, <2>1 DEF CapInv, FastType
<1>7. CountedNow' = 0 /\ Pending' = 0
  BY <1>1 DEF CountedNow, Pending
<1>8. Counted'
  <2>1. posted' <= Budget' + lost' + carried'
    BY <1>1, <1>2, <1>4
  <2>2. Budget' + lost' + carried' + CountedNow' + Pending' = Budget' + lost' + carried'
    BY <1>1, <1>4, <1>5, <1>7 DEF CapInv, FastType
  <2>3. posted' <= Budget' + lost' + carried' + CountedNow' + Pending'
    BY <2>1, <2>2
  <2>4. signals_today' <= MAX_SIGNALS_PER_DAY
    BY <1>1, <1>3
  <2> QED
    BY <2>3, <2>4 DEF Counted
<1>9. Trying'
  BY <1>1 DEF Trying
<1> QED
  BY <1>6, <1>8, <1>9 DEF CapInv

\* Every step of a try keeps CapInv.
LEMMA TryHolds ==
  ASSUME CapInv
  PROVE  /\ \A s \in Symbols : maybe_signal(s) => CapInv'
         /\ \A m \in Metrics : market_metrics(m) => CapInv'
         /\ WorkerTakes => CapInv'
         /\ Ready => CapInv'
         /\ Fails => CapInv'
         /\ AnswerLost => CapInv'
         /\ LateArrives => CapInv'
<1> USE FastAssumption DEF FastAssumption
<1>0. Budget \in Nat
  BY BudgetType DEF CapInv
<1>1. ASSUME NEW s \in Symbols, maybe_signal(s) PROVE CapInv'
  <2>1. /\ signals_today' = reset_day_counter /\ counted_today' = TRUE /\ call' = call
        /\ UNCHANGED worker /\ pc = "try" /\ pc' \in {"read", "try"}
        /\ pc' = "read" => reset_day_counter < MAX_SIGNALS_PER_DAY
    BY <1>1 DEF maybe_signal, Allowed
  <2>2. call = "none" /\ Pending = 0 /\ Pending' = 0
    BY <2>1 DEF CapInv, FastType, Trying, Pending
  <2>3. Budget' = Budget /\ CountedNow' = CountedNow
    BY <2>1, ResetCounts DEF Budget, CountedNow, worker
  <2>4. FastType'
    BY <2>1, ResetCounts DEF worker, CapInv, FastType
  <2>5. Counted'
    BY <2>1, <2>2, <2>3, ResetCounts DEF worker, CapInv, Counted
  <2>6. Trying'
    BY <2>1, <2>2 DEF Trying
  <2> QED
    BY <2>4, <2>5, <2>6 DEF CapInv
<1>2. ASSUME NEW m \in Metrics, market_metrics(m) PROVE CapInv'
  <2>1. /\ UNCHANGED <<memory, worker>> /\ pc = "read"
        /\ \/ pc' = "post" /\ call' = "sent"
           \/ pc' = "try" /\ call' = call
    BY <1>2 DEF market_metrics
  <2>2. call = "none"
    BY <2>1 DEF CapInv, Trying
  <2>3. FastType' /\ Budget' = Budget /\ CountedNow' = CountedNow /\ Pending' = Pending
    BY <2>1, <2>2 DEF memory, worker, CapInv, FastType, Budget, CountedNow, Pending
  <2>4. Counted' /\ Trying'
    BY <2>1, <2>2, <2>3 DEF memory, worker, CapInv, Counted, Trying
  <2> QED
    BY <2>3, <2>4 DEF CapInv
<1>3. ASSUME WorkerTakes PROVE CapInv'
  <2>1. /\ call = "sent" /\ call' = "taken" /\ posted' = posted + 1
        /\ carried' = carried + (IF counted_today THEN 0 ELSE 1)
        /\ UNCHANGED <<memory, lost, lives, pc>>
    BY <1>3 DEF WorkerTakes, control
  <2>2. pc = "post"
    BY <2>1 DEF CapInv, Trying
  <2>3. FastType'
    BY <2>1, <2>2 DEF memory, CapInv, FastType, Trying
  <2>4. Budget' = Budget /\ CountedNow' = CountedNow /\ Pending = 0
        /\ Pending' = IF counted_today THEN 1 ELSE 0
    BY <2>1 DEF memory, Budget, CountedNow, Pending
  <2>5. carried' + Pending' = carried + Pending + 1
    BY <2>1, <2>4 DEF CapInv, FastType
  <2>6. CountedNow \in Nat /\ CountedNow' \in Nat /\ Pending' \in Nat
    BY <2>4 DEF CapInv, FastType, CountedNow
  <2>7. Counted'
    <3>1. signals_today' <= MAX_SIGNALS_PER_DAY
      BY <2>1 DEF memory, CapInv, Counted
    <3>2. posted <= Budget + lost + carried + CountedNow + Pending
      BY DEF CapInv, Counted
    <3>3. posted \in Nat /\ lost \in Nat /\ carried \in Nat /\ carried' \in Nat
      BY <2>3 DEF CapInv, FastType
    <3> QED
      BY <1>0, <2>1, <2>4, <2>5, <2>6, <3>1, <3>2, <3>3 DEF Counted
  <2>8. Trying'
    BY <2>1, <2>2 DEF memory, CapInv, Trying
  <2> QED
    BY <2>3, <2>7, <2>8 DEF CapInv
<1>4. ASSUME Ready PROVE CapInv'
  <2>1. /\ pc = "post" /\ call = "taken" /\ signals_today' = signals_today + 1
        /\ pc' = "sleep" /\ call' = "none" /\ counted_today' = counted_today
        /\ UNCHANGED worker
    BY <1>4 DEF Ready
  <2>2. signals_today < MAX_SIGNALS_PER_DAY
    BY <2>1 DEF CapInv, Trying
  <2>3. FastType' /\ Budget' = Budget
    BY <2>1 DEF worker, CapInv, FastType, Budget
  <2>4. CountedNow' + Pending' = CountedNow + Pending
    BY <2>1 DEF CapInv, FastType, CountedNow, Pending
  <2>5. CountedNow \in Nat /\ CountedNow' \in Nat /\ Pending \in Nat /\ Pending' \in Nat
    BY <2>1, <2>3 DEF CapInv, FastType, CountedNow, Pending
  <2>6. Counted'
    <3>1. signals_today' <= MAX_SIGNALS_PER_DAY
      BY <2>1, <2>2 DEF CapInv, FastType
    <3>2. posted <= Budget + lost + carried + CountedNow + Pending
      BY DEF CapInv, Counted
    <3>3. posted \in Nat /\ lost \in Nat /\ carried \in Nat
      BY DEF CapInv, FastType
    <3>4. posted' = posted /\ lost' = lost /\ carried' = carried
      BY <2>1 DEF worker
    <3>5. Budget' = Budget
      BY <2>3
    <3>6. posted' <= Budget' + lost' + carried' + CountedNow' + Pending'
      <4>1. posted <= Budget + lost + carried + CountedNow' + Pending'
        BY <1>0, <2>4, <2>5, <3>2, <3>3, Balance
      <4> QED
        BY <3>4, <3>5, <4>1
    <3> QED
      BY <3>1, <3>6 DEF Counted
  <2>7. Trying'
    BY <2>1 DEF Trying
  <2> QED
    BY <2>3, <2>6, <2>7 DEF CapInv
<1>5. ASSUME Fails PROVE CapInv'
  <2>1. /\ call # "taken" /\ call' = "none" /\ pc' = "try" /\ UNCHANGED <<memory, worker>>
    BY <1>5 DEF Fails, Closes
  <2>2. FastType' /\ Budget' = Budget /\ CountedNow' = CountedNow /\ Pending' = Pending
    BY <2>1 DEF memory, worker, CapInv, FastType, Budget, CountedNow, Pending
  <2>3. Counted' /\ Trying'
    BY <2>1, <2>2 DEF memory, worker, CapInv, Counted, Trying
  <2> QED
    BY <2>2, <2>3 DEF CapInv
<1>6. ASSUME AnswerLost PROVE CapInv'
  <2>1. /\ call' = "none" /\ pc' = "try" /\ UNCHANGED <<memory, posted, carried, lives>>
        /\ IF call = "taken" THEN lost' = lost + 1 ELSE lost' = lost
    BY <1>6 DEF AnswerLost, Closes
  <2>2. FastType' /\ Budget' = Budget /\ CountedNow' = CountedNow /\ Pending' = 0
    BY <2>1 DEF memory, CapInv, FastType, Budget, CountedNow, Pending
  <2>3. lost + Pending <= lost' /\ Pending \in Nat /\ CountedNow \in Nat
    BY <2>1 DEF CapInv, FastType, Pending, CountedNow
  <2>4. Counted'
    <3>1. signals_today' <= MAX_SIGNALS_PER_DAY
      BY <2>1 DEF memory, CapInv, Counted
    <3>2. posted <= Budget + lost + carried + CountedNow + Pending
      BY DEF CapInv, Counted
    <3>3. posted \in Nat /\ lost \in Nat /\ lost' \in Nat /\ carried \in Nat /\ carried' = carried
      BY <2>1, <2>2 DEF CapInv, FastType
    <3>4. Budget' = Budget /\ posted' = posted /\ CountedNow' = CountedNow /\ Pending' = 0
      BY <2>1, <2>2
    <3>5. posted' <= Budget' + lost' + carried' + CountedNow' + Pending'
      <4>1. posted <= Budget + lost' + carried + CountedNow + 0
        BY <1>0, <2>3, <3>2, <3>3, Balance
      <4> QED
        BY <3>3, <3>4, <4>1
    <3> QED
      BY <3>1, <3>5 DEF Counted
  <2>5. Trying'
    BY <2>1 DEF Trying
  <2> QED
    BY <2>2, <2>4, <2>5 DEF CapInv
<1>7. ASSUME LateArrives PROVE CapInv'
  <2>1. /\ UNCHANGED <<memory, call, carried, lives, pc>>
        /\ \/ posted' = posted + 1 /\ lost' = lost + 1
           \/ posted' = posted /\ lost' = lost
    BY <1>7 DEF LateArrives, control
  <2>2. FastType' /\ Budget' = Budget /\ CountedNow' = CountedNow /\ Pending' = Pending
    BY <2>1 DEF memory, CapInv, FastType, Budget, CountedNow, Pending
  <2>3. Pending \in Nat /\ CountedNow \in Nat
    BY DEF CapInv, FastType, Pending, CountedNow
  <2>4. Counted'
    <3>1. signals_today' <= MAX_SIGNALS_PER_DAY
      BY <2>1 DEF memory, CapInv, Counted
    <3>2. posted <= Budget + lost + carried + CountedNow + Pending
      BY DEF CapInv, Counted
    <3>3. posted \in Nat /\ lost \in Nat /\ lost' \in Nat /\ carried \in Nat /\ carried' = carried
      BY <2>1, <2>2 DEF CapInv, FastType
    <3>4. Budget' = Budget /\ CountedNow' = CountedNow /\ Pending' = Pending
      BY <2>2
    <3>5. posted' <= Budget' + lost' + carried' + CountedNow' + Pending'
      BY <1>0, <2>1, <2>3, <3>2, <3>3, <3>4
    <3> QED
      BY <3>1, <3>5 DEF Counted
  <2>5. Trying'
    BY <2>1 DEF memory, CapInv, Trying
  <2> QED
    BY <2>2, <2>4, <2>5 DEF CapInv
<1> QED
  BY <1>1, <1>2, <1>3, <1>4, <1>5, <1>6, <1>7

\* CapInv is preserved by every step.
LEMMA CapInvStep == CapInv /\ [Next]_vars => CapInv'
<1> SUFFICES ASSUME CapInv, [Next]_vars PROVE CapInv'
  OBVIOUS
<1>0. pc \notin {"read", "post"} => call = "none"
  BY DEF CapInv, Trying
<1>1. CASE Retries
  <2>1. PICK chat \in BOOLEAN, answer \in DryRunAnswers \cup {"none"} : Retry(chat, answer)
    BY <1>1 DEF Retries, validate_and_resolve_telegram_chat
  <2> QED
    BY <1>0, <2>1, Elsewhere DEF Retry
<1>2. CASE Scans
  BY <1>0, <1>2, Elsewhere DEF Scans, candidate_symbols
<1>3. CASE ScanEnds
  BY <1>0, <1>3, Elsewhere DEF ScanEnds
<1>4. CASE Signals
  BY <1>4, TryHolds DEF Signals
<1>5. CASE WorkerTakes \/ LateArrives
  BY <1>5, TryHolds
<1>6. CASE SleepInterval \/ SlowAnswer
  <2>1. TimePasses /\ pc' \in {pc, "retry"}
    BY <1>6 DEF SleepInterval, SlowAnswer
  <2>2. pc' = "retry" => call = "none"
    BY <1>0, <1>6 DEF SleepInterval, SlowAnswer
  <2> QED
    BY <2>1, <2>2, Midnight, SameDay
<1>7. CASE Restart
  BY <1>7, RestartHolds
<1>8. CASE UNCHANGED vars
  <2>1. FastType' /\ Budget' = Budget /\ CountedNow' = CountedNow /\ Pending' = Pending
    BY <1>8 DEF vars, control, memory, clock, worker, CapInv, FastType, Budget, CountedNow, Pending
  <2> QED
    BY <1>8, <2>1 DEF vars, control, memory, clock, worker, CapInv, Counted, Trying
<1> QED
  BY <1>1, <1>2, <1>3, <1>4, <1>5, <1>6, <1>7, <1>8 DEF Next

\* For every cap, cooldown, number of faults and duration of the calls, the Worker never
\* holds more of a day's signals than one cap per process of that day, one per lost
\* answer and one that midnight carried over.
THEOREM DayCapHolds == Spec => []DayCap
  BY CapInvInit, CapInvStep, CapInvImplies, PTL DEF Spec

(***************************************************************************)
(* A Worker whose dry run never asks the owner.                            *)
(***************************************************************************)
Closed == /\ execution_ready = FALSE /\ pc \notin {"read", "post"} /\ call = "none"
          /\ late = 0 /\ posted = 0

\* What execution_preflight demands is demanded of every post: an engine whose Worker
\* never says that it asks the owner (as buy-gateway-stable.js, whose dry run asks
\* nobody) hands it nothing, whatever is lost and however often it restarts.
THEOREM ClosedEngine ==
  ASSUME "asks_owner" \notin DryRunAnswers
  PROVE  Spec => [](posted = 0)
<1>1. Init => Closed
  BY DEF Init, Closed
<1>2. ASSUME Closed, [Next]_vars PROVE Closed'
  <2> USE <1>2
  <2>1. CASE Retries
    <3>1. PICK chat \in BOOLEAN, answer \in DryRunAnswers \cup {"none"} : Retry(chat, answer)
      BY <2>1 DEF Retries, validate_and_resolve_telegram_chat
    <3>2. ~execution_preflight(answer)
      BY <3>1 DEF execution_preflight
    <3> QED
      BY <3>1, <3>2 DEF Retry, Closed, worker
  <2>2. CASE Scans \/ ScanEnds
    BY <2>2 DEF Scans, candidate_symbols, ScanEnds, Closed, worker
  <2>3. CASE Signals
    BY <2>3 DEF Signals, maybe_signal, market_metrics, Ready, Fails, AnswerLost, Closed
  <2>4. CASE WorkerTakes \/ LateArrives
    BY <2>4 DEF WorkerTakes, LateArrives, Closed
  <2>5. CASE SleepInterval \/ SlowAnswer
    <3>1. TimePasses /\ pc' \in {pc, "retry"}
      BY <2>5 DEF SleepInterval, SlowAnswer
    <3>2. execution_ready' = execution_ready /\ call' = call /\ late' = late /\ posted' = 0
      BY <3>1 DEF TimePasses, Closed
    <3> QED
      BY <3>1, <3>2 DEF Closed
  <2>6. CASE Restart
    BY <2>6 DEF Restart, Closed
  <2>7. CASE UNCHANGED vars
    BY <2>7 DEF vars, control, worker, Closed
  <2> QED
    BY <2>1, <2>2, <2>3, <2>4, <2>5, <2>6, <2>7 DEF Next
<1>3. Closed => posted = 0
  BY DEF Closed
<1> QED
  BY <1>1, <1>2, <1>3, PTL DEF Spec
=============================================================================
