---------------------------- MODULE SpotRuntime -----------------------------
(***************************************************************************)
(* The Python execution runtime of src/freqtrade around one account: the   *)
(* signed relay (front_proxy.py), the recovery worker                      *)
(* (execution_recovery.py), the reconciler (reconcile_state.py) and the    *)
(* dynamic exit manager (dynamic_exit_manager.py), four processes over the *)
(* files of TradeFiles, with Make.com and Binance Spot behind them.        *)
(*                                                                         *)
(* A process takes one step per locked helper it calls and per answer it   *)
(* waits for.  A lost or unreadable answer, a request that Make drops, a   *)
(* read or ledger write that raises and a crash of the container each use  *)
(* up one of MaxFaults faults.                                             *)
(***************************************************************************)
EXTENDS TradeFiles

CONSTANTS
    Handlers,   \* threads of the relay's ThreadingHTTPServer
    DynamicExitLive,    \* DYNAMIC_EXIT_LIVE=1; otherwise the manager only records
                        \* the stop it would have set
    Leftover,   \* signals whose list was open when the state files were lost
    MaxFaults   \* bound: faults of one behaviour

ASSUME RuntimeAssumption ==
    /\ DynamicExitLive \in BOOLEAN
    /\ Leftover \subseteq Signals
    /\ MaxFaults \in Nat

VARIABLES
    posts,   \* key -> action -> how often the relay sent it to Make
    bought,  \* signal -> its BUY at Binance
    coins,   \* signal -> units of its coin in the account, a BUY fills Units
    lists,   \* list -> the OCO list at Binance
    make,    \* requests Make holds and has not run
    misled,  \* signals whose BUY Make ran and answered with an error
    relay,   \* handler -> the request it serves
    recov,   \* the recovery worker
    recon,   \* the reconciler
    dyn,     \* the dynamic exit manager
    faults

files == <<pos, res>>
binance == <<bought, coins, lists>>
external == <<bought, coins, lists, make, misled>>
procs == <<relay, recov, recon, dyn>>
vars == <<files, posts, external, procs, faults>>

Units == 2          \* a partial fill is one unit
NoAnswer == 0       \* an answer is a list id (1 for a BUY), Refused or none yet
Refused == MaxLists + 1
Answers == 0..Refused

IdleHandler(key) ==
    [pc |-> "idle", k |-> key, a |-> "BUY", stop |-> 1, ans |-> NoAnswer]
AnyKey == CHOOSE k \in Keys : TRUE
IdleRecov == [pc |-> "idle", k |-> AnyKey, l |-> 0]
IdleRecon ==
    [pc |-> "idle", open |-> {}, todo |-> {}, copy |-> <<>>, ended |-> {}, k |-> AnyKey]
IdleDyn == [pc |-> "idle", k |-> AnyKey, l |-> 0, stop |-> 1, ans |-> NoAnswer]

Init ==
    /\ FilesInit
    /\ posts = [k \in Keys |-> [a \in Actions |-> 0]]
    /\ bought = [s \in Signals |-> IF s \in Leftover THEN "filled" ELSE "none"]
    /\ coins = [s \in Signals |-> IF s \in Leftover THEN Units ELSE 0]
    /\ lists = [l \in Lists |->
                  [st   |-> IF l = 1 /\ Leftover # {} THEN "open" ELSE "none",
                   sig  |-> IF Leftover # {} THEN CHOOSE s \in Leftover : TRUE
                                             ELSE CHOOSE s \in Signals : TRUE,
                   k    |-> AnyKey, by |-> "lost", sold |-> 0, stop |-> 1]]
    /\ make = {} /\ misled = {}
    /\ relay = [h \in Handlers |-> IdleHandler(AnyKey)]
    /\ recov = IdleRecov /\ recon = IdleRecon /\ dyn = IdleDyn
    /\ faults = 0

Fault == faults < MaxFaults /\ faults' = faults + 1

Open(l) == lists[l].st = "open"
SignalOf(k) == IF k \in Signals THEN k ELSE lists[k[2]].sig

(***************************************************************************)
(* Make.com and Binance Spot (external).  A request is run at any time     *)
(* after it was sent, also after its sender gave up.  An OCO needs the     *)
(* whole quantity free, so an account never carries two lists for one      *)
(* coin.                                                                   *)
(***************************************************************************)
Sender(h, m) == relay[h].pc = "posted" /\ relay[h].k = m.k /\ relay[h].a = m.a /\ m.by = "relay"

\* The answer reaches whoever still waits for it.
Answer(m, ans) ==
    /\ relay' = [h \in Handlers |->
                   IF Sender(h, m) THEN [relay[h] EXCEPT !.ans = ans] ELSE relay[h]]
    /\ dyn' = IF dyn.pc = m.by /\ dyn.k = m.k THEN [dyn EXCEPT !.ans = ans] ELSE dyn
    /\ make' = make \ {m}

MakeBuys(m) ==
    /\ m.a = "BUY"
    /\ \/ /\ bought' = [bought EXCEPT ![m.k] = "filled"]
          /\ coins' = [coins EXCEPT ![m.k] = Units]
          /\ \/ Answer(m, 1) /\ UNCHANGED <<misled, faults>>
             \/ Answer(m, Refused) /\ misled' = misled \cup {m.k} /\ Fault
       \/ /\ bought' = [bought EXCEPT ![m.k] = "dead"]
          /\ Answer(m, Refused)
          /\ UNCHANGED <<coins, misled, faults>>
    /\ UNCHANGED <<files, posts, lists, recov, recon>>

Unused == {l \in Lists : lists[l].st = "none"}
Protectable(s) == coins[s] = Units /\ \A l \in Lists : Open(l) => lists[l].sig # s

MakePlaces(m) ==
    /\ m.a = "OCO"
    /\ IF Protectable(SignalOf(m.k))
         THEN \E l \in Unused :
                /\ \A j \in Unused : l <= j
                /\ lists' = [lists EXCEPT ![l] =
                     [st |-> "open", sig |-> SignalOf(m.k), k |-> m.k, by |-> m.by,
                      sold |-> 0, stop |-> m.stop]]
                /\ Answer(m, l)
         ELSE Answer(m, Refused) /\ UNCHANGED lists
    /\ UNCHANGED <<files, posts, bought, coins, misled, recov, recon, faults>>

MakeDrops(m) ==
    /\ Fault
    /\ make' = make \ {m}
    /\ UNCHANGED <<files, posts, binance, misled, procs>>

ListSells(l) ==
    /\ Open(l)
    /\ lists' = [lists EXCEPT ![l].sold = @ + 1,
                              ![l].st = IF lists[l].sold + 1 = Units THEN "ended" ELSE "open"]
    /\ coins' = [coins EXCEPT ![lists[l].sig] = @ - 1]
    /\ UNCHANGED <<files, posts, bought, make, misled, procs, faults>>

OwnerCancels(l) ==
    /\ Open(l)
    /\ lists' = [lists EXCEPT ![l].st = "ended"]
    /\ UNCHANGED <<files, posts, bought, coins, make, misled, procs, faults>>

World ==
    \/ \E m \in make : MakeBuys(m) \/ MakePlaces(m) \/ MakeDrops(m)
    \/ \E l \in Lists : ListSells(l) \/ OwnerCancels(l)

(***************************************************************************)
(* The relay: check, reserve, send, record.                                *)
(***************************************************************************)
RelayStep(h, row) == relay' = [relay EXCEPT ![h] = row]
RelayDone(h) == RelayStep(h, IdleHandler(AnyKey))

Receives(h, k, a, stop) ==
    /\ relay[h].pc = "idle"
    /\ a = "OCO" => OpenPosition(k)
    /\ RelayStep(h, [pc |-> "checked", k |-> k, a |-> a, stop |-> stop, ans |-> NoAnswer])

\* A request of the approved signal, sent once or repeated.  What the BUY is
\* further checked for (guard file, readiness, capacity, stake) only refuses it.
RelayChecks(h) ==
    /\ \E s \in Signals \ Leftover, a \in Actions : Receives(h, s, a, 1)
    /\ UNCHANGED <<files, posts, external, recov, recon, dyn, faults>>

\* The row is on disk before the request leaves.
RelayReserves(h) ==
    /\ relay[h].pc = "checked"
    /\ MayReserve(relay[h].k, relay[h].a)
    /\ Reserve(relay[h].k, relay[h].a)
    /\ \/ /\ RelayStep(h, [relay[h] EXCEPT !.pc = "posted"])
          /\ make' = make \cup {[a |-> relay[h].a, k |-> relay[h].k, by |-> "relay",
                                 stop |-> relay[h].stop]}
          /\ posts' = [posts EXCEPT ![relay[h].k][relay[h].a] = @ + 1]
          /\ UNCHANGED faults
       \/ /\ RelayDone(h)       \* EXECUTION_RESERVED raises after the row is saved
          /\ UNCHANGED <<make, posts>>
          /\ Fault
    /\ UNCHANGED <<pos, binance, misled, recov, recon, dyn>>

RelayBlocksDuplicate(h) ==
    /\ relay[h].pc = "checked"
    /\ ~MayReserve(relay[h].k, relay[h].a)
    /\ RelayDone(h)
    /\ UNCHANGED <<files, posts, external, recov, recon, dyn, faults>>

\* Mutant: an answer is recorded without a look at its ok.
RelayRecordsAny(h) ==
    /\ relay[h].pc = "posted"
    /\ relay[h].a = "OCO" /\ relay[h].ans # NoAnswer
    /\ RecordOco(relay[h].k, relay[h].ans, relay[h].stop)
    /\ RelayDone(h)
    /\ UNCHANGED <<posts, external, recov, recon, dyn, faults>>

RelayRecords(h) ==
    /\ relay[h].pc = "posted"
    /\ relay[h].ans \in Lists
    /\ \/ /\ relay[h].a = "BUY"
          /\ RecordBuy(relay[h].k)
          /\ \/ RelayStep(h, [relay[h] EXCEPT !.pc = "bought"]) /\ UNCHANGED faults
             \/ RelayDone(h) /\ Fault      \* BUY_FILLED raises: swallowed at 267
       \/ /\ relay[h].a = "OCO"
          /\ RecordOco(relay[h].k, relay[h].ans, relay[h].stop)
          /\ RelayDone(h)
          /\ UNCHANGED faults
    /\ UNCHANGED <<posts, external, recov, recon, dyn>>

RelayMarksPending(h) ==
    /\ relay[h].pc = "bought"
    /\ SetStatus(relay[h].k, "PROTECTION_PENDING")
    /\ RelayDone(h)
    /\ UNCHANGED <<res, posts, external, recov, recon, dyn, faults>>

RelayRejects(h) ==
    /\ relay[h].pc = "posted"
    /\ relay[h].ans = Refused
    /\ SetReservation(relay[h].k, relay[h].a, "REJECTED")
    /\ RelayDone(h)
    /\ UNCHANGED <<pos, posts, external, recov, recon, dyn, faults>>

\* The 45 s timeout, or an answer that is lost or cannot be used: transport
\* error, non-JSON, wrong schema, ok with another status.
RelayLosesAnswer(h) ==
    /\ relay[h].pc = "posted"
    /\ IF relay[h].ans = NoAnswer THEN UNCHANGED faults ELSE Fault
    /\ SetReservation(relay[h].k, relay[h].a, "UNKNOWN")
    /\ RelayDone(h)
    /\ UNCHANGED <<pos, posts, external, recov, recon, dyn>>

Relay(h) ==
    \/ RelayChecks(h) \/ RelayReserves(h) \/ RelayBlocksDuplicate(h)
    \/ RelayRecords(h) \/ RelayMarksPending(h)
    \/ RelayRejects(h) \/ RelayLosesAnswer(h)

(***************************************************************************)
(* The recovery worker.  It looks at a reservation RESOLVE_AFTER (75 s)    *)
(* after it was made; the relay waits 45 s, so its handler has finished.   *)
(* Every failed query leaves the row as it is: _signed_get wraps what      *)
(* _not_found looks for, and NOT_FOUND is never written.                   *)
(***************************************************************************)
\* Mutant: a reservation is looked at only after its answer was lost.
AgedUnknown(k, a) == res[k][a] = "UNKNOWN"

Aged(k, a) ==
    /\ res[k][a] \in Unresolved
    /\ \A h \in Handlers :
         relay[h].pc \in {"posted", "bought"} => relay[h].k # k \/ relay[h].a # a

RecovStep(pc, k, l) == recov' = [pc |-> pc, k |-> k, l |-> l]

\* Mutant: an order the query does not know is given up.
RecovQueriesBuyGivesUp(k) ==
    /\ recov.pc = "idle"
    /\ Aged(k, "BUY")
    /\ IF bought[k] = "filled" THEN RecovStep("buy", k, 0) /\ UNCHANGED res
       ELSE SetReservation(k, "BUY", "REJECTED") /\ UNCHANGED recov
    /\ UNCHANGED <<pos, posts, external, relay, recon, dyn, faults>>

RecovQueriesBuy(k) ==
    /\ recov.pc = "idle"
    /\ Aged(k, "BUY")
    /\ \/ bought[k] = "filled" /\ RecovStep("buy", k, 0) /\ UNCHANGED res
       \/ bought[k] = "dead" /\ SetReservation(k, "BUY", "REJECTED") /\ UNCHANGED recov
    /\ UNCHANGED <<pos, posts, external, relay, recon, dyn, faults>>

RecovRecordsBuy ==
    /\ recov.pc = "buy"
    /\ RecordBuy(recov.k)
    /\ \/ RecovStep("bought", recov.k, 0) /\ UNCHANGED faults
       \/ recov' = IdleRecov /\ Fault       \* BUY_FILLED raises: the pass is over
    /\ UNCHANGED <<posts, external, relay, recon, dyn>>

RecovMarksPending ==
    /\ recov.pc = "bought"
    /\ SetStatus(recov.k, "PROTECTION_PENDING")
    /\ recov' = IdleRecov
    /\ UNCHANGED <<res, posts, external, relay, recon, dyn, faults>>

RecovQueriesOco(k) ==
    /\ recov.pc = "idle"
    /\ Aged(k, "OCO")
    /\ \E l \in Lists : lists[l].by = "relay" /\ lists[l].k = k /\ RecovStep("oco", k, l)
    /\ UNCHANGED <<files, posts, external, relay, recon, dyn, faults>>

\* The levels of the reservation are those of the list its client id names.
RecovRecordsOco ==
    /\ recov.pc = "oco"
    /\ RecordOco(recov.k, recov.l, lists[recov.l].stop)
    /\ recov' = IdleRecov
    /\ UNCHANGED <<posts, external, relay, recon, dyn, faults>>

\* _recover_protection posts to the relay of its own container.
RecovProtects(k) ==
    /\ recov.pc = "idle"
    /\ pos[k].st = "PROTECTION_PENDING"
    /\ res[k]["OCO"] = "NONE"
    /\ \E h \in Handlers : Receives(h, k, "OCO", pos[k].stop)
    /\ UNCHANGED <<files, posts, external, recov, recon, dyn, faults>>

Recovery ==
    \/ \E s \in Signals : RecovQueriesBuy(s)
    \/ RecovRecordsBuy \/ RecovMarksPending
    \/ \E k \in Keys : RecovQueriesOco(k) \/ RecovProtects(k)
    \/ RecovRecordsOco

(***************************************************************************)
(* The reconciler: open lists, rebuild the unknown ones, then look at what *)
(* became of every recorded list that is not open any more.  The open ids  *)
(* and the positions are read once and used to the end of the pass.        *)
(***************************************************************************)
ReconStep(row) == recon' = row

ReconLists ==
    /\ recon.pc = "idle"
    /\ ReconStep([recon EXCEPT !.pc = "listed", !.open = {l \in Lists : Open(l)}])
    /\ UNCHANGED <<files, posts, external, relay, recov, dyn, faults>>

ReconFindsUnknown ==
    /\ recon.pc = "listed"
    /\ ReconStep([recon EXCEPT !.pc = "rebuild", !.todo = recon.open \ KnownLists])
    /\ UNCHANGED <<files, posts, external, relay, recov, dyn, faults>>

\* load_state of _rebuild_unknown_open_oco ...
ReconLoads(l) ==
    /\ recon.pc = "rebuild" /\ l \in recon.todo
    /\ ReconStep(IF Tracked(Rec(l))
                   THEN [recon EXCEPT !.todo = @ \ {l}]
                   ELSE [recon EXCEPT !.pc = "save", !.copy = pos, !.k = Rec(l)])
    /\ UNCHANGED <<files, posts, external, relay, recov, dyn, faults>>

\* ... and its save_state, the lock given back in between.
ReconSaves ==
    /\ recon.pc = "save"
    /\ LET l == recon.k[2] IN
         /\ pos' = [recon.copy EXCEPT ![Rec(l)] =
                      [st |-> "OCO_ACTIVE", list |-> l, stop |-> lists[l].stop]]
         /\ ReconStep([recon EXCEPT !.pc = "rebuild", !.copy = <<>>, !.k = AnyKey,
                                    !.todo = @ \ {l}])
    /\ UNCHANGED <<res, posts, external, relay, recov, dyn, faults>>

Ended(open) ==
    {<<k, pos[k].list>> : k \in
       {k \in Keys : pos[k].st = "OCO_ACTIVE" /\ pos[k].list \notin open \cup {0}}}

ReconScans ==
    /\ recon.pc = "rebuild" /\ recon.todo = {}
    /\ ReconStep(IF Ended(recon.open) = {} THEN IdleRecon
                 ELSE [IdleRecon EXCEPT !.pc = "scan", !.ended = Ended(recon.open)])
    /\ UNCHANGED <<files, posts, external, relay, recov, dyn, faults>>

ReconLooks(k, l, pc) ==
    ReconStep([recon EXCEPT !.pc = pc, !.k = k, !.ended = @ \ {<<k, l>>}])

\* Mutant: a list that is over closes its position.
ReconQueriesCloses(k, l) ==
    /\ recon.pc = "scan" /\ <<k, l>> \in recon.ended
    /\ ReconLooks(k, l, IF Open(l) THEN "scan" ELSE "close")
    /\ UNCHANGED <<files, posts, external, relay, recov, dyn, faults>>

\* Mutant: a list that is over without a sale is passed by.
ReconQueriesSold(k, l) ==
    /\ recon.pc = "scan" /\ <<k, l>> \in recon.ended
    /\ ReconLooks(k, l, IF ~Open(l) /\ lists[l].sold > 0 THEN "close" ELSE "scan")
    /\ UNCHANGED <<files, posts, external, relay, recov, dyn, faults>>

\* One list of the scan: still running, ended with a sale, ended without one.
\* A child order that cannot be read counts as not sold (line 123).
ReconQueries(k, l) ==
    /\ recon.pc = "scan" /\ <<k, l>> \in recon.ended
    /\ \/ Open(l) /\ ReconLooks(k, l, "scan") /\ UNCHANGED faults
       \/ ~Open(l) /\ lists[l].sold > 0 /\ ReconLooks(k, l, "close") /\ UNCHANGED faults
       \/ ~Open(l) /\ lists[l].sold = 0 /\ ReconLooks(k, l, "lost") /\ UNCHANGED faults
       \/ ~Open(l) /\ lists[l].sold > 0 /\ ReconLooks(k, l, "lost") /\ Fault
    /\ UNCHANGED <<files, posts, external, relay, recov, dyn>>

ReconCloses ==
    /\ recon.pc = "close"
    /\ ClosePosition(recon.k)
    /\ ReconStep([recon EXCEPT !.pc = "scan", !.k = AnyKey])
    /\ UNCHANGED <<res, posts, external, relay, recov, dyn, faults>>

ReconMarksLost ==
    /\ recon.pc = "lost"
    /\ SetStatus(recon.k, "PROTECTION_PENDING")
    /\ ReconStep([recon EXCEPT !.pc = "marked"])
    /\ UNCHANGED <<res, posts, external, relay, recov, dyn, faults>>

ReconEndsReservation ==
    /\ recon.pc = "marked"
    /\ SetReservation(recon.k, "OCO", "CLOSED_NO_FILL")
    /\ ReconStep([recon EXCEPT !.pc = "scan", !.k = AnyKey])
    /\ UNCHANGED <<pos, posts, external, relay, recov, dyn, faults>>

ReconEnds ==
    /\ recon.pc = "scan" /\ recon.ended = {}
    /\ ReconStep(IdleRecon)
    /\ UNCHANGED <<files, posts, external, relay, recov, dyn, faults>>

\* A read that fails, or a list that cannot be rebuilt, ends the pass.
ReconFails ==
    /\ recon.pc \in {"listed", "rebuild", "scan"}
    /\ Fault
    /\ ReconStep(IdleRecon)
    /\ UNCHANGED <<files, posts, external, relay, recov, dyn>>

Reconciler ==
    \/ ReconLists \/ ReconFindsUnknown \/ ReconSaves \/ ReconScans
    \/ \E l \in Lists : ReconLoads(l)
    \/ \E k \in Keys, l \in Lists : ReconQueries(k, l)
    \/ ReconCloses \/ ReconMarksLost \/ ReconEndsReservation \/ ReconEnds \/ ReconFails

(***************************************************************************)
(* The dynamic exit manager: cancel the list, place one with a higher      *)
(* stop, and if that fails one with the old stop.  Its requests go to Make *)
(* directly; their client ids are new ones.                                *)
(***************************************************************************)
DynStep(row) == dyn' = row

\* Ratchets of one position are MIN_RATCHET_GAP_SEC (120 s) apart: by then Make
\* and the relay are done with its earlier requests.  The gap is kept in the
\* position row, so a position rebuilt for the same coin does not wait.
DynLooks(k) ==
    /\ dyn.pc = "idle"
    /\ pos[k].st = "OCO_ACTIVE" /\ pos[k].list \in Lists
    /\ Open(pos[k].list) /\ lists[pos[k].list].sold = 0
    /\ DynamicExitLive /\ pos[k].stop < MaxStop
    /\ \A m \in make : m.k = k => m.a = "BUY"
    /\ \A h \in Handlers : relay[h].k = k /\ relay[h].a = "OCO" => relay[h].pc = "idle"
    /\ DynStep([pc |-> "cancel", k |-> k, l |-> pos[k].list, stop |-> pos[k].stop,
                ans |-> NoAnswer])
    /\ UNCHANGED <<files, posts, external, relay, recov, recon, faults>>

DynCancels ==
    /\ dyn.pc = "cancel"
    /\ \/ /\ Open(dyn.l)
          /\ lists' = [lists EXCEPT ![dyn.l].st = "ended"]
          /\ \/ DynStep([dyn EXCEPT !.pc = "cancelled"]) /\ UNCHANGED faults
             \/ DynStep(IdleDyn) /\ Fault       \* the answer of the cancel is lost
       \/ ~Open(dyn.l) /\ DynStep(IdleDyn) /\ UNCHANGED <<lists, faults>>
    /\ UNCHANGED <<files, posts, bought, coins, make, misled, relay, recov, recon>>

DynMarksPending ==
    /\ dyn.pc = "cancelled"
    /\ SetStatus(dyn.k, "PROTECTION_PENDING")
    /\ DynStep([dyn EXCEPT !.pc = "place"])
    /\ UNCHANGED <<res, posts, external, relay, recov, recon, faults>>

\* new: the ratchet; old: the rollback.  normalize_oco may raise instead.
DynSends(from, by, stop) ==
    /\ dyn.pc = from
    /\ \/ /\ DynStep([dyn EXCEPT !.pc = by, !.ans = NoAnswer])
          /\ make' = make \cup {[a |-> "OCO", k |-> dyn.k, by |-> by, stop |-> stop]}
          /\ UNCHANGED faults
       \/ DynStep(IdleDyn) /\ UNCHANGED make /\ Fault
    /\ UNCHANGED <<files, posts, binance, misled, relay, recov, recon>>

DynPlaces == DynSends("place", "new", dyn.stop + 1)
DynRollsBack == DynSends("rollback", "old", dyn.stop)

\* Mutant: the rollback is recorded with the stop that was meant to replace it.
DynRecordsSuggested ==
    /\ dyn.pc \in {"new", "old"} /\ dyn.ans \in Lists
    /\ pos' = IF Tracked(dyn.k) THEN OcoPosition(dyn.k, dyn.ans, dyn.stop + 1) ELSE pos
    /\ DynStep([dyn EXCEPT !.pc = "placed"])
    /\ UNCHANGED <<res, posts, external, relay, recov, recon, faults>>

DynRecords ==
    /\ dyn.pc \in {"new", "old"} /\ dyn.ans \in Lists
    /\ LET stop == IF dyn.pc = "new" THEN dyn.stop + 1 ELSE dyn.stop IN
         pos' = IF Tracked(dyn.k) THEN OcoPosition(dyn.k, dyn.ans, stop) ELSE pos
    /\ DynStep([dyn EXCEPT !.pc = "placed"])
    /\ UNCHANGED <<res, posts, external, relay, recov, recon, faults>>

\* The reservation, in a helper call of its own: of the list that was placed, or
\* of the protection that is gone.
DynEndsReservation ==
    /\ \/ dyn.pc = "placed" /\ SetReservation(dyn.k, "OCO", "PLACED")
       \/ dyn.pc = "failed" /\ SetReservation(dyn.k, "OCO", "REPLACE_FAILED")
    /\ DynStep(IdleDyn)
    /\ UNCHANGED <<pos, posts, external, relay, recov, recon, faults>>

\* Refused, no answer in 45 s, or one that is lost: one case for the manager.
DynNoAnswer ==
    IF dyn.ans \in Lists THEN Fault ELSE UNCHANGED faults

DynFailsNew ==
    /\ dyn.pc = "new" /\ DynNoAnswer
    /\ DynStep([dyn EXCEPT !.pc = "rollback"])
    /\ UNCHANGED <<files, posts, external, relay, recov, recon>>

DynFailsOld ==
    /\ dyn.pc = "old" /\ DynNoAnswer
    /\ SetStatus(dyn.k, "PROTECTION_PENDING")
    /\ DynStep([dyn EXCEPT !.pc = "failed"])
    /\ UNCHANGED <<res, posts, external, relay, recov, recon>>

DynamicExit ==
    \/ \E k \in Keys : DynLooks(k)
    \/ DynCancels \/ DynMarksPending \/ DynPlaces \/ DynRollsBack
    \/ DynRecords \/ DynFailsNew \/ DynFailsOld \/ DynEndsReservation

(***************************************************************************)
(* The container dies: every process loses its memory, the files and the   *)
(* requests at Make stay.  A helper that writes both files may be cut      *)
(* between the two.                                                        *)
(***************************************************************************)
Restarted ==
    /\ relay' = [h \in Handlers |-> IdleHandler(AnyKey)]
    /\ recov' = IdleRecov /\ recon' = IdleRecon /\ dyn' = IdleDyn

Crash ==
    /\ Fault
    /\ Restarted
    /\ UNCHANGED <<files, posts, external>>

CrashInRecord ==
    /\ Fault
    /\ Restarted
    /\ \/ \E h \in Handlers :
            /\ relay[h].pc = "posted" /\ relay[h].ans \in Lists
            /\ pos' = IF relay[h].a = "BUY" THEN BuyPosition(relay[h].k)
                      ELSE OcoPosition(relay[h].k, relay[h].ans, relay[h].stop)
       \/ recov.pc = "buy" /\ pos' = BuyPosition(recov.k)
       \/ recov.pc = "oco" /\ pos' = OcoPosition(recov.k, recov.l, lists[recov.l].stop)
    /\ UNCHANGED <<res, posts, external>>

Next ==
    \/ World
    \/ \E h \in Handlers : Relay(h)
    \/ Recovery \/ Reconciler \/ DynamicExit
    \/ Crash \/ CrashInRecord

(***************************************************************************)
(* The supervisor restarts a dead container and every worker is an endless *)
(* loop, so each process keeps taking the steps it can.  Nothing is assumed*)
(* of Make, of Binance or of the clients of the relay.                     *)
(***************************************************************************)
RelayWork(h) ==
    \/ RelayReserves(h) \/ RelayBlocksDuplicate(h)
    \/ RelayRecords(h) \/ RelayMarksPending(h) \/ RelayRejects(h) \/ RelayLosesAnswer(h)

Spec == Init /\ [][Next]_vars
=============================================================================
