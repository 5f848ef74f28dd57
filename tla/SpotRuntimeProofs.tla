-------------------------- MODULE SpotRuntimeProofs -------------------------
(***************************************************************************)
(* Theorems about the Python execution runtime, for every set of signals,  *)
(* every number of relay threads, lists, stop levels and faults.           *)
(***************************************************************************)
EXTENDS SpotRuntimeProperties, TLAPS

(***************************************************************************)
(* What the files, the requests and the processes hold.                    *)
(***************************************************************************)
RelayPcs == {"idle", "checked", "posted", "bought"}
RelayRows == [pc : RelayPcs, k : Keys, a : Actions, stop : 0..MaxStop, ans : Answers]
Requests == [a : Actions, k : Keys, by : {"relay", "new", "old"}, stop : 0..MaxStop]
RecovRows == [pc : {"idle", "buy", "bought", "oco"}, k : Keys, l : 0..MaxLists]
ReconPcs == {"idle", "listed", "rebuild", "save", "scan", "close", "lost", "marked"}
PositionFiles == [Keys -> Positions]
ReconRows ==
    [pc : ReconPcs, open : SUBSET Lists, todo : SUBSET Lists,
     copy : {<<>>} \cup PositionFiles, ended : SUBSET (Keys \X Lists), k : Keys]
DynPcs == {"idle", "cancel", "cancelled", "place", "rollback", "new", "old", "placed", "failed"}
DynRows == [pc : DynPcs, k : Keys, l : 0..MaxLists, stop : 0..MaxStop, ans : Answers]
ListRows ==
    [st : {"none", "open", "ended"}, sig : Signals, k : Keys,
     by : {"lost", "relay", "new", "old"}, sold : Nat, stop : 0..MaxStop]

FilesOK == pos \in PositionFiles /\ res \in [Keys -> [Actions -> Reservations]]
PostsOK == posts \in [Keys -> [Actions -> Nat]]
ListsOK == lists \in [Lists -> ListRows]
MakeOK == make \subseteq Requests
RelayOK == relay \in [Handlers -> RelayRows]
RecovOK == recov \in RecovRows /\ (recov.pc = "oco" => recov.l \in Lists)
ReconOK ==
    /\ recon \in ReconRows
    /\ recon.pc = "save" => recon.copy \in PositionFiles /\ \E l \in Lists : recon.k = Rec(l)
DynOK ==
    /\ dyn \in DynRows
    /\ dyn.pc \in {"cancel", "cancelled", "place", "new"} => dyn.stop < MaxStop
TypeInv ==
    /\ FilesOK /\ PostsOK /\ ListsOK /\ MakeOK
    /\ RelayOK /\ RecovOK /\ ReconOK /\ DynOK

\* A key that nobody uses yet.
LEMMA KeyExists == AnyKey \in Keys
  <1>1. 1 \in Lists /\ Rec(1) \in Keys
    BY FilesAssumption DEF FilesAssumption, Lists, Keys
  <1> QED
    BY <1>1 DEF AnyKey

LEMMA IdleRows ==
  /\ IdleHandler(AnyKey) \in RelayRows
  /\ IdleRecov \in RecovRows /\ IdleRecov.pc = "idle"
  /\ IdleRecon \in ReconRows /\ IdleRecon.pc = "idle"
  /\ IdleDyn \in DynRows /\ IdleDyn.pc = "idle"
  BY KeyExists, FilesAssumption
     DEF IdleHandler, IdleRecov, IdleRecon, IdleDyn, RelayRows, RecovRows, ReconRows, DynRows,
         RelayPcs, ReconPcs, DynPcs, Actions, Answers, NoAnswer, Refused, FilesAssumption

LEMMA InitTypes == Init => TypeInv
  <1> SUFFICES ASSUME Init PROVE TypeInv
    OBVIOUS
  <1>1. FilesOK
    BY FilesAssumption DEF Init, FilesInit, FilesOK, PositionFiles, Positions, Actions,
                           Reservations, FilesAssumption
  <1>2. PostsOK
    BY DEF Init, PostsOK
  <1>3. ListsOK
    BY KeyExists, FilesAssumption, RuntimeAssumption
       DEF Init, ListsOK, ListRows, FilesAssumption, RuntimeAssumption
  <1>4. MakeOK /\ RelayOK /\ RecovOK /\ ReconOK /\ DynOK
    BY IdleRows DEF Init, MakeOK, RelayOK, RecovOK, ReconOK, DynOK
  <1> QED
    BY <1>1, <1>2, <1>3, <1>4 DEF TypeInv
(***************************************************************************)
(* The helpers of trade_state.py keep the files well formed.               *)
(***************************************************************************)
LEMMA ReservationTypes ==
  ASSUME FilesOK, NEW k \in Keys, NEW a \in Actions, NEW status \in Reservations,
         SetReservation(k, a, status)
  PROVE  res' \in [Keys -> [Actions -> Reservations]]
  BY DEF SetReservation, FilesOK

LEMMA StatusTypes ==
  ASSUME FilesOK, NEW k \in Keys,
         NEW status \in {"NONE", "BUY_FILLED", "PROTECTION_PENDING", "OCO_ACTIVE", "CLOSED"},
         SetStatus(k, status)
  PROVE  pos' \in PositionFiles
  BY DEF SetStatus, FilesOK, PositionFiles, Positions

LEMMA BuyTypes ==
  ASSUME FilesOK, NEW k \in Keys
  PROVE  BuyPosition(k) \in PositionFiles
  <1> DEFINE filled == [pos EXCEPT ![k].st = "BUY_FILLED"]
  <1>1. filled \in PositionFiles
    BY DEF FilesOK, PositionFiles, Positions
  <1>2. 1 \in 0..MaxStop
    BY FilesAssumption DEF FilesAssumption
  <1> HIDE DEF filled
  <1>3. [filled EXCEPT ![k].stop = 1] \in PositionFiles
    BY <1>1, <1>2 DEF PositionFiles, Positions
  <1> QED
    BY <1>3 DEF BuyPosition, filled

LEMMA OcoTypes ==
  ASSUME FilesOK, NEW k \in Keys, NEW l \in 0..MaxLists, NEW stop \in 0..MaxStop
  PROVE  OcoPosition(k, l, stop) \in PositionFiles
  BY DEF OcoPosition, FilesOK, PositionFiles, Positions

(***************************************************************************)
(* Make.com and Binance.                                                   *)
(***************************************************************************)
LEMMA AnswerTypes ==
  ASSUME TypeInv, NEW m \in make, NEW ans \in Answers, Answer(m, ans)
  PROVE  MakeOK' /\ RelayOK' /\ DynOK'
  <1> USE DEF TypeInv, Answer
  <1>1. MakeOK'
    BY DEF MakeOK
  <1>2. RelayOK'
    BY DEF RelayOK, RelayRows
  <1>3. DynOK'
    BY DEF DynOK, DynRows
  <1> QED
    BY <1>1, <1>2, <1>3

LEMMA WorldTypes == ASSUME TypeInv, World PROVE TypeInv'
  <1> USE DEF TypeInv, files, binance, procs
  <1>1. ASSUME NEW m \in make, MakeBuys(m) PROVE TypeInv'
    <2>1. 1 \in Answers /\ Refused \in Answers
      BY FilesAssumption DEF Answers, Refused, FilesAssumption
    <2>2. MakeOK' /\ RelayOK' /\ DynOK'
      BY <1>1, <2>1, AnswerTypes DEF MakeBuys
    <2> QED
      BY <1>1, <2>2 DEF MakeBuys, FilesOK, PostsOK, ListsOK, RecovOK, ReconOK
  <1>2. ASSUME NEW m \in make, MakePlaces(m) PROVE TypeInv'
    <2>1. m \in Requests
      BY DEF MakeOK
    <2>2. MakeOK' /\ RelayOK' /\ DynOK'
      BY <1>2, AnswerTypes, FilesAssumption
         DEF MakePlaces, Answers, Refused, Unused, Lists, FilesAssumption
    <2>3. SignalOf(m.k) \in Signals
      <3>1. CASE m.k \in Signals
        BY <3>1 DEF SignalOf
      <3>2. CASE m.k \notin Signals
        <4>1. PICK l \in Lists : m.k = Rec(l)
          BY <2>1, <3>2 DEF Requests, Keys
        <4> QED
          BY <4>1, <3>2 DEF SignalOf, Rec, ListsOK, ListRows
      <3> QED
        BY <3>1, <3>2
    <2>4. ListsOK'
      BY <1>2, <2>1, <2>3 DEF MakePlaces, ListsOK, ListRows, Requests, Unused
    <2> QED
      BY <1>2, <2>2, <2>4 DEF MakePlaces, FilesOK, PostsOK, RecovOK, ReconOK
  <1>3. ASSUME NEW m \in make, MakeDrops(m) PROVE TypeInv'
    BY <1>3 DEF MakeDrops, FilesOK, PostsOK, ListsOK, MakeOK, RelayOK, RecovOK, ReconOK, DynOK
  <1>4. ASSUME NEW l \in Lists, ListSells(l) PROVE TypeInv'
    <2> DEFINE sold == [lists EXCEPT ![l].sold = @ + 1]
    <2>1. sold \in [Lists -> ListRows]
      BY DEF ListsOK, ListRows
    <2> HIDE DEF sold
    <2>2. \A st \in {"none", "open", "ended"} : [sold EXCEPT ![l].st = st] \in [Lists -> ListRows]
      BY <2>1 DEF ListRows
    <2>3. ListsOK'
      BY <1>4, <2>2 DEF ListSells, ListsOK, sold
    <2> QED
      BY <1>4, <2>3 DEF ListSells, FilesOK, PostsOK, MakeOK, RelayOK, RecovOK, ReconOK, DynOK
  <1>5. ASSUME NEW l \in Lists, OwnerCancels(l) PROVE TypeInv'
    <2>1. ListsOK'
      BY <1>5 DEF OwnerCancels, ListsOK, ListRows
    <2> QED
      BY <1>5, <2>1 DEF OwnerCancels, FilesOK, PostsOK, MakeOK, RelayOK, RecovOK, ReconOK, DynOK
  <1> QED
    BY <1>1, <1>2, <1>3, <1>4, <1>5 DEF World
(***************************************************************************)
(* The relay.                                                              *)
(***************************************************************************)
LEMMA RelayStepTypes ==
  ASSUME RelayOK, NEW h \in Handlers, NEW row \in RelayRows, RelayStep(h, row)
  PROVE  RelayOK'
  BY DEF RelayOK, RelayStep

LEMMA ReceiveTypes ==
  ASSUME RelayOK, NEW h \in Handlers, NEW k \in Keys, NEW a \in Actions,
         NEW stop \in 0..MaxStop, Receives(h, k, a, stop)
  PROVE  RelayOK'
  <1>1. [pc |-> "checked", k |-> k, a |-> a, stop |-> stop, ans |-> NoAnswer] \in RelayRows
    BY FilesAssumption DEF RelayRows, RelayPcs, Answers, NoAnswer, Refused, FilesAssumption
  <1> QED
    BY <1>1, RelayStepTypes DEF Receives

LEMMA RelayTypes == ASSUME TypeInv, NEW h \in Handlers, Relay(h) PROVE TypeInv'
  <1> USE DEF TypeInv, files, external, binance
  <1>0. relay[h] \in RelayRows /\ relay[h].k \in Keys /\ relay[h].a \in Actions
        /\ relay[h].stop \in 0..MaxStop
    BY DEF RelayOK, RelayRows
  <1>a. IdleHandler(AnyKey) \in RelayRows
    BY IdleRows
  <1>b. \A pc \in RelayPcs : [relay[h] EXCEPT !.pc = pc] \in RelayRows
    BY <1>0 DEF RelayRows
  <1>c. {"UNKNOWN", "REJECTED", "FILLED", "PLACED", "RESERVED"} \subseteq Reservations
    BY DEF Reservations
  <1>1. CASE RelayChecks(h)
    <2>1. PICK s \in Signals \ Leftover, a \in Actions : Receives(h, s, a, 1)
      BY <1>1 DEF RelayChecks
    <2>2. s \in Keys /\ 1 \in 0..MaxStop
      BY FilesAssumption DEF Keys, FilesAssumption
    <2>3. RelayOK'
      BY <2>1, <2>2, ReceiveTypes
    <2> QED
      BY <1>1, <2>3 DEF RelayChecks, FilesOK, PostsOK, ListsOK, MakeOK, RecovOK, ReconOK, DynOK
  <1>2. CASE RelayReserves(h)
    <2>1. FilesOK'
      BY <1>2, <1>0, <1>c DEF RelayReserves, FilesOK, Reserve
    <2>2. RelayOK'
      BY <1>2, <1>a, <1>b, RelayStepTypes DEF RelayReserves, RelayDone, RelayPcs
    <2>3. PostsOK'
      BY <1>2, <1>0 DEF RelayReserves, PostsOK
    <2>4. [a |-> relay[h].a, k |-> relay[h].k, by |-> "relay", stop |-> relay[h].stop] \in Requests
      BY <1>0 DEF Requests
    <2>5. MakeOK'
      BY <1>2, <2>4 DEF RelayReserves, MakeOK
    <2> QED
      BY <1>2, <2>1, <2>2, <2>3, <2>5 DEF RelayReserves, ListsOK, RecovOK, ReconOK, DynOK
  <1>3. CASE RelayBlocksDuplicate(h)
    <2>1. RelayOK'
      BY <1>3, <1>a, RelayStepTypes DEF RelayBlocksDuplicate, RelayDone
    <2> QED
      BY <1>3, <2>1 DEF RelayBlocksDuplicate, FilesOK, PostsOK, ListsOK, MakeOK, RecovOK, ReconOK, DynOK
  <1>4. CASE RelayRecords(h)
    <2>1. relay[h].ans \in 0..MaxLists
      BY <1>4 DEF RelayRecords, Lists
    <2>2. "BUY" \in Actions /\ "OCO" \in Actions
      BY DEF Actions
    <2>3. FilesOK'
      <3>1. CASE RecordBuy(relay[h].k)
        <4>1. pos' \in PositionFiles
          BY <3>1, <1>0, BuyTypes DEF RecordBuy
        <4>2. res' \in [Keys -> [Actions -> Reservations]]
          BY <3>1, <1>0, <1>c, <2>2, ReservationTypes DEF RecordBuy
        <4> QED
          BY <4>1, <4>2 DEF FilesOK
      <3>2. CASE RecordOco(relay[h].k, relay[h].ans, relay[h].stop)
        <4>1. pos' \in PositionFiles
          BY <3>2, <1>0, <2>1, OcoTypes DEF RecordOco
        <4>2. res' \in [Keys -> [Actions -> Reservations]]
          BY <3>2, <1>0, <1>c, <2>2, ReservationTypes DEF RecordOco
        <4> QED
          BY <4>1, <4>2 DEF FilesOK
      <3> QED
        BY <1>4, <3>1, <3>2 DEF RelayRecords
    <2>4. RelayOK'
      BY <1>4, <1>a, <1>b, RelayStepTypes DEF RelayRecords, RelayDone, RelayPcs
    <2> QED
      BY <1>4, <2>3, <2>4 DEF RelayRecords, PostsOK, ListsOK, MakeOK, RecovOK, ReconOK, DynOK
  <1>5. CASE RelayMarksPending(h)
    <2>1. pos' \in PositionFiles
      BY <1>5, <1>0, StatusTypes DEF RelayMarksPending
    <2>2. RelayOK'
      BY <1>5, <1>a, RelayStepTypes DEF RelayMarksPending, RelayDone
    <2> QED
      BY <1>5, <2>1, <2>2 DEF RelayMarksPending, FilesOK, PostsOK, ListsOK, MakeOK, RecovOK, ReconOK, DynOK
  <1>6. CASE RelayRejects(h) \/ RelayLosesAnswer(h)
    <2>1. res' \in [Keys -> [Actions -> Reservations]]
      BY <1>6, <1>0, <1>c, ReservationTypes DEF RelayRejects, RelayLosesAnswer
    <2>2. RelayOK'
      BY <1>6, <1>a, RelayStepTypes DEF RelayRejects, RelayLosesAnswer, RelayDone
    <2> QED
      BY <1>6, <2>1, <2>2 DEF RelayRejects, RelayLosesAnswer, FilesOK, PostsOK, ListsOK, MakeOK,
                              RecovOK, ReconOK, DynOK
  <1> QED
    BY <1>1, <1>2, <1>3, <1>4, <1>5, <1>6 DEF Relay

(***************************************************************************)
(* The recovery worker.                                                    *)
(***************************************************************************)
LEMMA RecoveryTypes == ASSUME TypeInv, Recovery PROVE TypeInv'
  <1> USE DEF TypeInv, files, external, binance
  <1>0. recov.k \in Keys /\ "BUY" \in Actions /\ "OCO" \in Actions
    BY DEF RecovOK, RecovRows, Actions
  <1>a. {"REJECTED", "FILLED", "PLACED"} \subseteq Reservations
    BY DEF Reservations
  <1>d. 0 \in 0..MaxLists
    BY FilesAssumption DEF FilesAssumption
  <1>b. RecovOK /\ UNCHANGED recov => RecovOK'
    BY DEF RecovOK
  <1>c. recov' = IdleRecov => RecovOK'
    BY IdleRows DEF RecovOK
  <1>1. ASSUME NEW s \in Signals, RecovQueriesBuy(s) PROVE TypeInv'
    <2>1. s \in Keys
      BY DEF Keys
    <2>2. res' \in [Keys -> [Actions -> Reservations]]
      BY <1>1, <2>1, <1>0, <1>a, ReservationTypes DEF RecovQueriesBuy, FilesOK
    <2>3. RecovOK'
      BY <1>1, <2>1, <1>b, <1>d DEF RecovQueriesBuy, RecovStep, RecovOK, RecovRows
    <2> QED
      BY <1>1, <2>2, <2>3 DEF RecovQueriesBuy, FilesOK, PostsOK, ListsOK, MakeOK, RelayOK, ReconOK, DynOK
  <1>2. CASE RecovRecordsBuy
    <2>1. pos' \in PositionFiles
      BY <1>2, <1>0, BuyTypes DEF RecovRecordsBuy, RecordBuy
    <2>2. res' \in [Keys -> [Actions -> Reservations]]
      BY <1>2, <1>0, <1>a, ReservationTypes DEF RecovRecordsBuy, RecordBuy
    <2>3. RecovOK'
      BY <1>2, <1>0, <1>c, <1>d DEF RecovRecordsBuy, RecovStep, RecovOK, RecovRows
    <2> QED
      BY <1>2, <2>1, <2>2, <2>3 DEF RecovRecordsBuy, FilesOK, PostsOK, ListsOK, MakeOK, RelayOK, ReconOK, DynOK
  <1>3. CASE RecovMarksPending
    <2>1. pos' \in PositionFiles
      BY <1>3, <1>0, StatusTypes DEF RecovMarksPending
    <2> QED
      BY <1>3, <2>1, <1>c DEF RecovMarksPending, FilesOK, PostsOK, ListsOK, MakeOK, RelayOK, ReconOK, DynOK
  <1>4. ASSUME NEW k \in Keys, RecovQueriesOco(k) PROVE TypeInv'
    <2>1. RecovOK'
      BY <1>4 DEF RecovQueriesOco, RecovStep, RecovOK, RecovRows, Lists
    <2> QED
      BY <1>4, <2>1 DEF RecovQueriesOco, FilesOK, PostsOK, ListsOK, MakeOK, RelayOK, ReconOK, DynOK
  <1>5. ASSUME NEW k \in Keys, RecovProtects(k) PROVE TypeInv'
    <2>1. PICK h \in Handlers : Receives(h, k, "OCO", pos[k].stop)
      BY <1>5 DEF RecovProtects
    <2>2. pos[k].stop \in 0..MaxStop
      BY DEF FilesOK, PositionFiles, Positions
    <2>3. RelayOK'
      BY <2>1, <2>2, <1>0, ReceiveTypes
    <2> QED
      BY <1>5, <2>3 DEF RecovProtects, FilesOK, PostsOK, ListsOK, MakeOK, RecovOK, ReconOK, DynOK
  <1>6. CASE RecovRecordsOco
    <2>1. recov.l \in Lists /\ recov.l \in 0..MaxLists /\ lists[recov.l].stop \in 0..MaxStop
      BY <1>6 DEF RecovRecordsOco, RecovOK, RecovRows, ListsOK, ListRows
    <2>2. pos' \in PositionFiles
      BY <1>6, <1>0, <2>1, OcoTypes DEF RecovRecordsOco, RecordOco
    <2>3. res' \in [Keys -> [Actions -> Reservations]]
      BY <1>6, <1>0, <1>a, ReservationTypes DEF RecovRecordsOco, RecordOco
    <2> QED
      BY <1>6, <2>2, <2>3, <1>c DEF RecovRecordsOco, FilesOK, PostsOK, ListsOK, MakeOK, RelayOK, ReconOK, DynOK
  <1> QED
    BY <1>1, <1>2, <1>3, <1>4, <1>5, <1>6 DEF Recovery
(***************************************************************************)
(* The reconciler.                                                         *)
(***************************************************************************)
LEMMA ReconcilerTypes == ASSUME TypeInv, Reconciler PROVE TypeInv'
  <1> USE DEF TypeInv, files, external
  <1>0. recon \in ReconRows /\ recon.k \in Keys /\ recon.ended \subseteq Keys \X Lists
        /\ recon.todo \subseteq Lists /\ recon.open \subseteq Lists
    BY DEF ReconOK, ReconRows
  <1>a. "OCO" \in Actions /\ "CLOSED_NO_FILL" \in Reservations
    BY DEF Actions, Reservations
  <1>b. recon' = IdleRecon => ReconOK'
    BY IdleRows DEF ReconOK
  <1>c. ASSUME NEW k \in Keys, NEW l, NEW pc \in ReconPcs \ {"save"}, ReconLooks(k, l, pc)
        PROVE  ReconOK'
    <2>1. recon.ended \ {<<k, l>>} \in SUBSET (Keys \X Lists)
      BY <1>0
    <2>2. recon' \in ReconRows /\ recon'.pc = pc
      BY <1>c, <1>0, <2>1 DEF ReconLooks, ReconStep, ReconRows
    <2> QED
      BY <2>2 DEF ReconOK
  <1>d. ASSUME recon' = [recon EXCEPT !.pc = "scan", !.k = AnyKey] PROVE ReconOK'
    BY <1>d, <1>0, KeyExists DEF ReconOK, ReconRows, ReconPcs
  <1>1. CASE ReconLists
    <2>1. ReconOK'
      BY <1>1, <1>0 DEF ReconLists, ReconStep, ReconOK, ReconRows, ReconPcs
    <2> QED
      BY <1>1, <2>1 DEF ReconLists, FilesOK, PostsOK, ListsOK, MakeOK, RelayOK, RecovOK, DynOK
  <1>2. CASE ReconFindsUnknown
    <2>1. ReconOK'
      BY <1>2, <1>0 DEF ReconFindsUnknown, ReconStep, ReconOK, ReconRows, ReconPcs
    <2> QED
      BY <1>2, <2>1 DEF ReconFindsUnknown, FilesOK, PostsOK, ListsOK, MakeOK, RelayOK, RecovOK, DynOK
  <1>3. ASSUME NEW l \in Lists, ReconLoads(l) PROVE TypeInv'
    <2>1. CASE Tracked(Rec(l))
      BY <1>3, <2>1, <1>0 DEF ReconLoads, ReconStep, ReconOK, ReconRows, FilesOK, PostsOK, ListsOK,
                               MakeOK, RelayOK, RecovOK, DynOK
    <2>2. CASE ~Tracked(Rec(l))
      <3>1. recon' = [recon EXCEPT !.pc = "save", !.copy = pos, !.k = Rec(l)]
        BY <1>3, <2>2 DEF ReconLoads, ReconStep
      <3>2. Rec(l) \in Keys /\ pos \in PositionFiles
        BY DEF Keys, FilesOK
      <3>3. recon' \in ReconRows /\ recon'.copy = pos /\ recon'.k = Rec(l)
        BY <3>1, <3>2, <1>0 DEF ReconRows, ReconPcs
      <3>4. ReconOK'
        BY <3>2, <3>3 DEF ReconOK
      <3> QED
        BY <1>3, <3>4 DEF ReconLoads, FilesOK, PostsOK, ListsOK, MakeOK, RelayOK, RecovOK, DynOK
    <2> QED
      BY <2>1, <2>2
  <1>4. CASE ReconSaves
    <2>1. PICK l \in Lists : recon.k = Rec(l)
      BY <1>4 DEF ReconSaves, ReconOK
    <2>2. recon.k[2] = l /\ recon.copy \in PositionFiles
      BY <1>4, <2>1 DEF ReconSaves, ReconOK, Rec
    <2>3. [st |-> "OCO_ACTIVE", list |-> l, stop |-> lists[l].stop] \in Positions
      BY DEF Positions, ListsOK, ListRows, Lists
    <2>4. pos' \in PositionFiles
      BY <1>4, <2>2, <2>3 DEF ReconSaves, PositionFiles
    <2>5. ReconOK'
      BY <1>4, <2>2, <1>0, KeyExists DEF ReconSaves, ReconStep, ReconOK, ReconRows, ReconPcs
    <2> QED
      BY <1>4, <2>4, <2>5 DEF ReconSaves, FilesOK, PostsOK, ListsOK, MakeOK, RelayOK, RecovOK, DynOK
  <1>5. CASE ReconScans
    <2>1. Ended(recon.open) \in SUBSET (Keys \X Lists)
      BY DEF Ended, FilesOK, PositionFiles, Positions, Lists
    <2>2. [IdleRecon EXCEPT !.pc = "scan", !.ended = Ended(recon.open)] \in ReconRows
      BY <2>1, IdleRows DEF ReconRows, ReconPcs
    <2>3. ReconOK'
      BY <1>5, <2>2, <1>b DEF ReconScans, ReconStep, ReconOK, IdleRecon
    <2> QED
      BY <1>5, <2>3 DEF ReconScans, FilesOK, PostsOK, ListsOK, MakeOK, RelayOK, RecovOK, DynOK
  <1>6. ASSUME NEW k \in Keys, NEW l \in Lists, ReconQueries(k, l) PROVE TypeInv'
    <2>1. ReconOK'
      BY <1>6, <1>c DEF ReconQueries, ReconPcs
    <2> QED
      BY <1>6, <2>1 DEF ReconQueries, FilesOK, PostsOK, ListsOK, MakeOK, RelayOK, RecovOK, DynOK
  <1>7. CASE ReconCloses
    <2>1. pos' \in PositionFiles
      BY <1>7, <1>0, StatusTypes DEF ReconCloses, ClosePosition
    <2>2. ReconOK'
      BY <1>7, <1>d DEF ReconCloses, ReconStep
    <2> QED
      BY <1>7, <2>1, <2>2 DEF ReconCloses, FilesOK, PostsOK, ListsOK, MakeOK, RelayOK, RecovOK, DynOK
  <1>8. CASE ReconMarksLost
    <2>1. pos' \in PositionFiles
      BY <1>8, <1>0, StatusTypes DEF ReconMarksLost
    <2>2. ReconOK'
      BY <1>8, <1>0 DEF ReconMarksLost, ReconStep, ReconOK, ReconRows, ReconPcs
    <2> QED
      BY <1>8, <2>1, <2>2 DEF ReconMarksLost, FilesOK, PostsOK, ListsOK, MakeOK, RelayOK, RecovOK, DynOK
  <1>10. CASE ReconEndsReservation
    <2>1. res' \in [Keys -> [Actions -> Reservations]]
      BY <1>10, <1>0, <1>a, ReservationTypes DEF ReconEndsReservation
    <2>2. ReconOK'
      BY <1>10, <1>d DEF ReconEndsReservation, ReconStep
    <2> QED
      BY <1>10, <2>1, <2>2 DEF ReconEndsReservation, FilesOK, PostsOK, ListsOK, MakeOK, RelayOK, RecovOK, DynOK
  <1>9. CASE ReconEnds \/ ReconFails
    <2>1. ReconOK'
      BY <1>9, <1>b DEF ReconEnds, ReconFails, ReconStep
    <2> QED
      BY <1>9, <2>1 DEF ReconEnds, ReconFails, FilesOK, PostsOK, ListsOK, MakeOK, RelayOK, RecovOK, DynOK
  <1> QED
    BY <1>1, <1>2, <1>3, <1>4, <1>5, <1>6, <1>7, <1>8, <1>9, <1>10 DEF Reconciler

(***************************************************************************)
(* The dynamic exit manager.                                               *)
(***************************************************************************)
LEMMA DynSendTypes ==
  ASSUME TypeInv, NEW from \in DynPcs, NEW by \in {"new", "old"}, NEW stop \in 0..MaxStop,
         by = "new" => dyn.stop < MaxStop, DynSends(from, by, stop)
  PROVE  TypeInv'
  <1> USE DEF TypeInv, files, binance
  <1>0. dyn \in DynRows /\ dyn.k \in Keys
    BY DEF DynOK, DynRows
  <1>1. [a |-> "OCO", k |-> dyn.k, by |-> by, stop |-> stop] \in Requests
    BY <1>0 DEF Requests, Actions
  <1>2. MakeOK'
    BY <1>1 DEF DynSends, MakeOK
  <1>3. DynOK'
    <2>1. CASE dyn' = IdleDyn
      BY <2>1, IdleRows DEF DynOK
    <2>2. CASE dyn' = [dyn EXCEPT !.pc = by, !.ans = NoAnswer]
      <3>1. by \in DynPcs /\ NoAnswer \in Answers
        BY FilesAssumption DEF DynPcs, NoAnswer, Answers, Refused, FilesAssumption
      <3> QED
        BY <2>2, <1>0, <3>1 DEF DynOK, DynRows
    <2> QED
      BY <2>1, <2>2 DEF DynSends, DynStep
  <1> QED
    BY <1>2, <1>3 DEF DynSends, FilesOK, PostsOK, ListsOK, RelayOK, RecovOK, ReconOK

LEMMA DynamicTypes == ASSUME TypeInv, DynamicExit PROVE TypeInv'
  <1> USE DEF TypeInv, files, external
  <1>0. dyn \in DynRows /\ dyn.k \in Keys /\ dyn.stop \in 0..MaxStop /\ dyn.l \in 0..MaxLists
    BY DEF DynOK, DynRows
  <1>a. "OCO" \in Actions /\ {"PLACED", "REPLACE_FAILED"} \subseteq Reservations
    BY DEF Actions, Reservations
  <1>b. dyn' = IdleDyn => DynOK'
    BY IdleRows DEF DynOK
  <1>c. \A pc \in DynPcs :
          [dyn EXCEPT !.pc = pc] \in DynRows /\ [dyn EXCEPT !.pc = pc].pc = pc
          /\ [dyn EXCEPT !.pc = pc].stop = dyn.stop
    BY <1>0 DEF DynRows
  <1>1. ASSUME NEW k \in Keys, DynLooks(k) PROVE TypeInv'
    <2>1. pos[k] \in Positions /\ pos[k].list \in 0..MaxLists /\ pos[k].stop \in 0..MaxStop
      BY DEF FilesOK, PositionFiles, Positions
    <2>2. NoAnswer \in Answers /\ pos[k].stop < MaxStop
      BY <1>1, FilesAssumption DEF DynLooks, NoAnswer, Answers, Refused, FilesAssumption
    <2>3. DynOK'
      BY <1>1, <2>1, <2>2 DEF DynLooks, DynStep, DynOK, DynRows, DynPcs
    <2> QED
      BY <1>1, <2>3 DEF DynLooks, FilesOK, PostsOK, ListsOK, MakeOK, RelayOK, RecovOK, ReconOK
  <1>2. CASE DynCancels
    <2>1. ListsOK'
      BY <1>2 DEF DynCancels, ListsOK, ListRows
    <2>2. DynOK'
      <3>1. dyn.pc = "cancel" /\ (dyn' = IdleDyn \/ dyn' = [dyn EXCEPT !.pc = "cancelled"])
        BY <1>2 DEF DynCancels, DynStep
      <3>2. CASE dyn' = [dyn EXCEPT !.pc = "cancelled"]
        <4>1. dyn' \in DynRows /\ dyn'.stop = dyn.stop
          BY <3>2, <1>c DEF DynPcs
        <4> QED BY <3>1, <4>1 DEF DynOK
      <3> QED BY <3>1, <3>2, <1>b
    <2> QED
      BY <1>2, <2>1, <2>2 DEF DynCancels, FilesOK, PostsOK, MakeOK, RelayOK, RecovOK, ReconOK
  <1>3. CASE DynMarksPending
    <2>1. pos' \in PositionFiles
      BY <1>3, <1>0, StatusTypes DEF DynMarksPending
    <2>2. DynOK'
      BY <1>3, <1>c DEF DynMarksPending, DynStep, DynOK, DynPcs
    <2> QED
      BY <1>3, <2>1, <2>2 DEF DynMarksPending, FilesOK, PostsOK, ListsOK, MakeOK, RelayOK, RecovOK, ReconOK
  <1>4. CASE DynPlaces
    <2>1. dyn.stop < MaxStop
      BY <1>4 DEF DynPlaces, DynSends, DynOK
    <2>2. dyn.stop + 1 \in 0..MaxStop
      BY <2>1, <1>0, FilesAssumption DEF FilesAssumption
    <2> QED
      BY <1>4, <2>1, <2>2, DynSendTypes DEF DynPlaces, DynPcs
  <1>5. CASE DynRollsBack
    BY <1>5, <1>0, DynSendTypes DEF DynRollsBack, DynPcs
  <1>6. CASE DynRecords
    <2> DEFINE stop == IF dyn.pc = "new" THEN dyn.stop + 1 ELSE dyn.stop
    <2>1. stop \in 0..MaxStop
      BY <1>0, FilesAssumption DEF DynOK, FilesAssumption
    <2>2. dyn.ans \in 0..MaxLists
      BY <1>6 DEF DynRecords, Lists
    <2>3. pos' \in PositionFiles
      <3>1. OcoPosition(dyn.k, dyn.ans, stop) \in PositionFiles
        BY <1>0, <2>1, <2>2, OcoTypes
      <3>2. pos' = IF Tracked(dyn.k) THEN OcoPosition(dyn.k, dyn.ans, stop) ELSE pos
        BY <1>6 DEF DynRecords
      <3> QED
        BY <3>1, <3>2 DEF FilesOK
    <2>4. DynOK'
      BY <1>6, <1>c DEF DynRecords, DynStep, DynOK, DynPcs
    <2> QED
      BY <1>6, <2>3, <2>4 DEF DynRecords, FilesOK, PostsOK, ListsOK, MakeOK, RelayOK, RecovOK, ReconOK
  <1>7. CASE DynFailsNew
    <2>1. DynOK'
      BY <1>7, <1>c DEF DynFailsNew, DynStep, DynOK, DynPcs
    <2> QED
      BY <1>7, <2>1 DEF DynFailsNew, FilesOK, PostsOK, ListsOK, MakeOK, RelayOK, RecovOK, ReconOK
  <1>8. CASE DynFailsOld
    <2>1. pos' \in PositionFiles
      BY <1>8, <1>0, StatusTypes DEF DynFailsOld
    <2>2. DynOK'
      BY <1>8, <1>c DEF DynFailsOld, DynStep, DynOK, DynPcs
    <2> QED
      BY <1>8, <2>1, <2>2 DEF DynFailsOld, FilesOK, PostsOK, ListsOK, MakeOK, RelayOK, RecovOK, ReconOK
  <1>9. CASE DynEndsReservation
    <2>1. res' \in [Keys -> [Actions -> Reservations]]
      BY <1>9, <1>0, <1>a, ReservationTypes DEF DynEndsReservation
    <2> QED
      BY <1>9, <2>1, <1>b DEF DynEndsReservation, DynStep, FilesOK, PostsOK, ListsOK, MakeOK, RelayOK, RecovOK, ReconOK
  <1> QED
    BY <1>1, <1>2, <1>3, <1>4, <1>5, <1>6, <1>7, <1>8, <1>9 DEF DynamicExit
(***************************************************************************)
(* A crash, and the theorem.                                               *)
(***************************************************************************)
LEMMA CrashTypes == ASSUME TypeInv, Crash \/ CrashInRecord PROVE TypeInv'
  <1> USE DEF TypeInv, files, external
  <1>1. RelayOK' /\ RecovOK' /\ ReconOK' /\ DynOK'
    BY IdleRows DEF Crash, CrashInRecord, Restarted, RelayOK, RecovOK, ReconOK, DynOK
  <1>2. FilesOK'
    <2>1. CASE Crash
      BY <2>1 DEF Crash, FilesOK
    <2>2. CASE CrashInRecord
      <3>1. ASSUME NEW h \in Handlers, relay[h].ans \in Lists
            PROVE  /\ BuyPosition(relay[h].k) \in PositionFiles
                   /\ OcoPosition(relay[h].k, relay[h].ans, relay[h].stop) \in PositionFiles
        <4>1. relay[h].k \in Keys /\ relay[h].stop \in 0..MaxStop /\ relay[h].ans \in 0..MaxLists
          BY <3>1 DEF RelayOK, RelayRows, Lists
        <4> QED
          BY <4>1, BuyTypes, OcoTypes
      <3>2. BuyPosition(recov.k) \in PositionFiles
        BY BuyTypes DEF RecovOK, RecovRows
      <3>3. recov.pc = "oco" =>
              OcoPosition(recov.k, recov.l, lists[recov.l].stop) \in PositionFiles
        BY OcoTypes DEF RecovOK, RecovRows, ListsOK, ListRows
      <3> QED
        BY <2>2, <3>1, <3>2, <3>3 DEF CrashInRecord, FilesOK
    <2> QED
      BY <2>1, <2>2
  <1> QED
    BY <1>1, <1>2 DEF Crash, CrashInRecord, PostsOK, ListsOK, MakeOK

LEMMA NextTypes == TypeInv /\ [Next]_vars => TypeInv'
  <1> SUFFICES ASSUME TypeInv, [Next]_vars PROVE TypeInv'
    OBVIOUS
  <1>1. CASE Next
    BY <1>1, WorldTypes, RelayTypes, RecoveryTypes, ReconcilerTypes, DynamicTypes, CrashTypes
       DEF Next
  <1>2. CASE UNCHANGED vars
    BY <1>2 DEF vars, files, external, procs, TypeInv, FilesOK, PostsOK, ListsOK, MakeOK,
                RelayOK, RecovOK, ReconOK, DynOK
  <1> QED
    BY <1>1, <1>2

LEMMA TypesHold == Spec => []TypeInv
  BY InitTypes, NextTypes, PTL DEF Spec

\* The files hold statuses, lists and levels the code writes, and a handler's
\* request names a key, an action and an answer.
THEOREM RuntimeTypeCorrect == Spec => []TypeOK
  <1>1. TypeInv => TypeOK
    BY DEF TypeInv, TypeOK, FilesOK, RelayOK, PositionFiles, RelayRows, RelayPcs, RowTypes
  <1> QED
    BY <1>1, TypesHold, PTL

(***************************************************************************)
(* A row of the reservation file never becomes NONE again, and the relay   *)
(* sends only what it has just reserved: that is all that keeps a signal's *)
(* BUY from being sent twice, whatever is lost or dies.                    *)
(***************************************************************************)
SentIsReserved ==
  \A k \in Keys, a \in Actions :
    /\ posts[k][a] <= 1
    /\ posts[k][a] = 1 => res[k][a] # "NONE"

LEMMA ReservationStays ==
  ASSUME FilesOK, NEW k \in Keys, NEW a \in Actions, NEW status,
         status # "NONE", SetReservation(k, a, status),
         NEW j \in Keys, NEW b \in Actions
  PROVE  res[j][b] # "NONE" => res'[j][b] # "NONE"
  BY DEF SetReservation, FilesOK

\* Only a send counts, and only rows that are there change.
LEMMA OthersKeep ==
  ASSUME TypeInv, Next, \A h \in Handlers : ~RelayReserves(h)
  PROVE  /\ posts' = posts
         /\ \A k \in Keys, a \in Actions : res[k][a] # "NONE" => res'[k][a] # "NONE"
  <1> USE DEF TypeInv, files, external, procs, binance
  <1>0. "BUY" \in Actions /\ "OCO" \in Actions
    BY DEF Actions
  <1>1. CASE World
    BY <1>1 DEF World, MakeBuys, MakePlaces, MakeDrops, ListSells, OwnerCancels
  <1>2. ASSUME NEW h \in Handlers, Relay(h)
        PROVE  /\ posts' = posts
               /\ \A k \in Keys, a \in Actions : res[k][a] # "NONE" => res'[k][a] # "NONE"
    <2>1. relay[h].k \in Keys /\ relay[h].a \in Actions
      BY DEF RelayOK, RelayRows
    <2> QED
      BY <1>0, <1>2, <2>1, ReservationStays
         DEF Relay, RelayChecks, RelayBlocksDuplicate, RelayRecords, RelayMarksPending,
             RelayRejects, RelayLosesAnswer, RecordBuy, RecordOco
  <1>3. CASE Recovery
    <2>1. recov.k \in Keys /\ Signals \subseteq Keys
      BY DEF RecovOK, RecovRows, Keys
    <2> QED
      BY <1>0, <1>3, <2>1, ReservationStays
         DEF Recovery, RecovQueriesBuy, RecovRecordsBuy, RecovMarksPending, RecovQueriesOco,
             RecovRecordsOco, RecovProtects, RecordBuy, RecordOco
  <1>4. CASE Reconciler
    <2>1. recon.k \in Keys
      BY DEF ReconOK, ReconRows
    <2> QED
      BY <1>0, <1>4, <2>1, ReservationStays
         DEF Reconciler, ReconLists, ReconFindsUnknown, ReconLoads, ReconSaves, ReconScans,
             ReconQueries, ReconCloses, ReconMarksLost, ReconEndsReservation, ReconEnds, ReconFails
  <1>5. CASE DynamicExit
    <2>1. dyn.k \in Keys
      BY DEF DynOK, DynRows
    <2> QED
      BY <1>0, <1>5, <2>1, ReservationStays
         DEF DynamicExit, DynLooks, DynCancels, DynMarksPending, DynPlaces, DynRollsBack,
             DynSends, DynRecords, DynFailsNew, DynFailsOld, DynEndsReservation
  <1>6. CASE Crash \/ CrashInRecord
    BY <1>6 DEF Crash, CrashInRecord
  <1> QED
    BY <1>1, <1>2, <1>3, <1>4, <1>5, <1>6 DEF Next

\* Exact once: a signal's BUY, and its OCO through the relay, go to Make at most
\* once, over any number of clicks, threads, lost answers, recoveries and restarts.
THEOREM SubmittedOnceHolds == Spec => []SubmittedOnce
  <1>1. Init => SentIsReserved
    BY DEF Init, SentIsReserved
  <1>2. TypeInv /\ SentIsReserved /\ [Next]_vars => SentIsReserved'
    <2> SUFFICES ASSUME TypeInv, SentIsReserved, [Next]_vars PROVE SentIsReserved'
      OBVIOUS
    <2>1. CASE UNCHANGED vars
      BY <2>1 DEF vars, files, SentIsReserved
    <2>2. ASSUME NEW h \in Handlers, RelayReserves(h) PROVE SentIsReserved'
      <3>1. relay[h].k \in Keys /\ relay[h].a \in Actions
        BY DEF TypeInv, RelayOK, RelayRows
      <3>2. res[relay[h].k][relay[h].a] = "NONE"
            /\ res' = [res EXCEPT ![relay[h].k][relay[h].a] = "RESERVED"]
        BY <2>2 DEF RelayReserves, MayReserve, Reserve
      <3>3. posts[relay[h].k][relay[h].a] = 0
        <4>1. posts[relay[h].k][relay[h].a] \in Nat
          BY <3>1 DEF TypeInv, PostsOK
        <4>2. /\ posts[relay[h].k][relay[h].a] <= 1
              /\ posts[relay[h].k][relay[h].a] # 1
          BY <3>1, <3>2 DEF SentIsReserved
        <4> QED
          BY <4>1, <4>2
      <3>4. \/ posts' = posts
            \/ posts' = [posts EXCEPT ![relay[h].k][relay[h].a] = @ + 1]
        BY <2>2 DEF RelayReserves
      <3>5. ASSUME NEW k \in Keys, NEW a \in Actions
            PROVE  /\ posts'[k][a] <= 1
                   /\ posts'[k][a] = 1 => res'[k][a] # "NONE"
        <4>1. CASE k = relay[h].k /\ a = relay[h].a
          <5>1. posts'[k][a] \in {0, 1}
            BY <3>3, <3>4, <4>1 DEF TypeInv, PostsOK
          <5>2. res'[k][a] = "RESERVED"
            BY <3>2, <4>1 DEF TypeInv, FilesOK
          <5> QED
            BY <5>1, <5>2
        <4>2. CASE ~(k = relay[h].k /\ a = relay[h].a)
          BY <3>1, <3>2, <3>4, <4>2 DEF SentIsReserved, TypeInv, PostsOK, FilesOK
        <4> QED
          BY <4>1, <4>2
      <3> QED
        BY <3>5 DEF SentIsReserved
    <2>3. CASE Next /\ \A h \in Handlers : ~RelayReserves(h)
      BY <2>3, OthersKeep DEF SentIsReserved
    <2> QED
      BY <2>1, <2>2, <2>3
  <1>3. SentIsReserved => SubmittedOnce
    BY DEF SentIsReserved, SubmittedOnce
  <1> QED
    BY <1>1, <1>2, <1>3, TypesHold, PTL DEF Spec
(***************************************************************************)
(* Which list belongs to which position.  A list, once placed, keeps its   *)
(* coin and what it has sold; so what a file, a request or a process holds *)
(* about it stays true however old it is.  ls is the exchange's lists, now *)
(* or a step later.                                                        *)
(***************************************************************************)
SigIn(k, ls) == IF k \in Signals THEN k ELSE ls[k[2]].sig
\* a key somebody uses: of a signal, or of a list that was placed
Real(k, ls) == k \in Signals \/ \E l \in Lists : k = Rec(l) /\ ls[l].st # "none"
Owned(k, l, ls) == ls[l].st # "none" /\ ls[l].sig = SigIn(k, ls)
Sold(k, ls) == \E l \in Lists : Owned(k, l, ls) /\ ls[l].sold > 0
Grows(old, new) ==
  \A l \in Lists : old[l].st # "none" =>
    new[l].st # "none" /\ new[l].sig = old[l].sig /\ new[l].sold >= old[l].sold

FileLinks(file, ls) ==
  \A k \in Keys :
    /\ file[k].st # "NONE" => Real(k, ls)
    /\ file[k].list # 0 => Real(k, ls) /\ Owned(k, file[k].list, ls)
    /\ file[k].st = "CLOSED" => Sold(k, ls)
ListLinks(ls) ==
  \A l \in Lists : ls[l].by = "relay" => Real(ls[l].k, ls) /\ Owned(ls[l].k, l, ls)
MakeLinks(m, ls) == Real(m.k, ls) /\ (m.a = "BUY" => m.by = "relay")
RelayLinks(row, ls) ==
  row.pc # "idle" =>
    /\ Real(row.k, ls)
    /\ row.a = "OCO" /\ row.ans \in Lists => Owned(row.k, row.ans, ls)
RecovLinks(row, ls) ==
  /\ row.pc # "idle" => Real(row.k, ls)
  /\ row.pc = "oco" => Owned(row.k, row.l, ls)
ReconLinks(row, ls) ==
  /\ \A l \in row.open \cup row.todo : ls[l].st # "none"
  /\ row.pc = "save" => FileLinks(row.copy, ls) /\ Real(row.k, ls)
  /\ \A p \in row.ended : Real(p[1], ls) /\ Owned(p[1], p[2], ls)
  /\ row.pc \in {"close", "lost"} => Real(row.k, ls)
  /\ row.pc = "close" => Sold(row.k, ls)
DynLinks(row, ls) ==
  row.pc # "idle" =>
    /\ Real(row.k, ls)
    /\ row.ans \in Lists => Owned(row.k, row.ans, ls)
Links ==
  /\ FileLinks(pos, lists) /\ ListLinks(lists)
  /\ \A m \in make : MakeLinks(m, lists)
  /\ \A h \in Handlers : RelayLinks(relay[h], lists)
  /\ RecovLinks(recov, lists) /\ ReconLinks(recon, lists) /\ DynLinks(dyn, lists)

LEMMA RecIsItsList ==
  ASSUME NEW l \in Lists, NEW ls
  PROVE  Rec(l) \in Keys /\ Rec(l) \notin Signals /\ SigIn(Rec(l), ls) = ls[l].sig
  BY FilesAssumption DEF FilesAssumption, Lists, Keys, Rec, SigIn

\* What is known of a key stays known.
LEMMA OwnedStays ==
  ASSUME NEW old \in [Lists -> ListRows], NEW new \in [Lists -> ListRows], Grows(old, new),
         NEW k \in Keys, Real(k, old)
  PROVE  /\ Real(k, new) /\ SigIn(k, new) = SigIn(k, old)
         /\ \A l \in Lists : Owned(k, l, old) => Owned(k, l, new)
         /\ Sold(k, old) => Sold(k, new)
  <1>1. Real(k, new) /\ SigIn(k, new) = SigIn(k, old)
    <2>1. CASE k \in Signals
      BY <2>1 DEF Real, SigIn
    <2>2. ASSUME NEW l \in Lists, k = Rec(l), old[l].st # "none"
          PROVE  Real(k, new) /\ SigIn(k, new) = SigIn(k, old)
      BY <2>2, RecIsItsList DEF Real, Grows
    <2> QED
      BY <2>1, <2>2 DEF Real
  <1>2. \A l \in Lists : Owned(k, l, old) => Owned(k, l, new)
    BY <1>1 DEF Owned, Grows
  <1>3. Sold(k, old) => Sold(k, new)
    <2>1. ASSUME NEW l \in Lists, Owned(k, l, old), old[l].sold > 0
          PROVE  Owned(k, l, new) /\ new[l].sold > 0
      BY <2>1, <1>2 DEF Owned, Grows, ListRows
    <2> QED
      BY <2>1 DEF Sold
  <1> QED
    BY <1>1, <1>2, <1>3

LEMMA FileLinksStay ==
  ASSUME NEW old \in [Lists -> ListRows], NEW new \in [Lists -> ListRows], Grows(old, new),
         NEW file \in PositionFiles, FileLinks(file, old)
  PROVE  FileLinks(file, new)
  <1> SUFFICES ASSUME NEW k \in Keys
               PROVE  /\ file[k].st # "NONE" => Real(k, new)
                      /\ file[k].list # 0 => Real(k, new) /\ Owned(k, file[k].list, new)
                      /\ file[k].st = "CLOSED" => Sold(k, new)
    BY DEF FileLinks
  <1>1. file[k].list # 0 => file[k].list \in Lists
    BY FilesAssumption DEF PositionFiles, Positions, Lists, FilesAssumption
  <1> QED
    BY <1>1, OwnedStays DEF FileLinks

LEMMA RowLinksStay ==
  ASSUME NEW old \in [Lists -> ListRows], NEW new \in [Lists -> ListRows], Grows(old, new)
  PROVE  /\ \A m \in Requests : MakeLinks(m, old) => MakeLinks(m, new)
         /\ \A r \in RelayRows : RelayLinks(r, old) => RelayLinks(r, new)
         /\ \A r \in RecovRows : (r.pc = "oco" => r.l \in Lists) /\ RecovLinks(r, old) => RecovLinks(r, new)
         /\ \A r \in DynRows : DynLinks(r, old) => DynLinks(r, new)
  <1>1. \A m \in Requests : MakeLinks(m, old) => MakeLinks(m, new)
    BY OwnedStays DEF MakeLinks, Requests
  <1>2. \A r \in RelayRows : RelayLinks(r, old) => RelayLinks(r, new)
    BY OwnedStays DEF RelayLinks, RelayRows
  <1>3. \A r \in RecovRows : (r.pc = "oco" => r.l \in Lists) /\ RecovLinks(r, old) => RecovLinks(r, new)
    BY OwnedStays DEF RecovLinks, RecovRows
  <1>4. \A r \in DynRows : DynLinks(r, old) => DynLinks(r, new)
    BY OwnedStays DEF DynLinks, DynRows
  <1> QED
    BY <1>1, <1>2, <1>3, <1>4

LEMMA ReconLinksStay ==
  ASSUME NEW old \in [Lists -> ListRows], NEW new \in [Lists -> ListRows], Grows(old, new),
         NEW r \in ReconRows, r.pc = "save" => r.copy \in PositionFiles, ReconLinks(r, old)
  PROVE  ReconLinks(r, new)
  <1>0. r.k \in Keys /\ r.ended \subseteq Keys \X Lists /\ r.open \subseteq Lists /\ r.todo \subseteq Lists
    BY DEF ReconRows
  <1>1. \A l \in r.open \cup r.todo : new[l].st # "none"
    BY <1>0 DEF ReconLinks, Grows
  <1>2. r.pc = "save" => FileLinks(r.copy, new) /\ Real(r.k, new)
    BY <1>0, FileLinksStay, OwnedStays DEF ReconLinks
  <1>3. ASSUME NEW p \in r.ended PROVE Real(p[1], new) /\ Owned(p[1], p[2], new)
    <2>1. p[1] \in Keys /\ p[2] \in Lists
      BY <1>0
    <2>2. Real(p[1], old) /\ Owned(p[1], p[2], old)
      BY DEF ReconLinks
    <2> QED
      BY <2>1, <2>2, OwnedStays
  <1>4. r.pc \in {"close", "lost"} => Real(r.k, new)
    BY <1>0, OwnedStays DEF ReconLinks
  <1>5. r.pc = "close" => Sold(r.k, new)
    BY <1>0, OwnedStays DEF ReconLinks
  <1> QED
    BY <1>1, <1>2, <1>3, <1>4, <1>5 DEF ReconLinks
\* What was known before the lists moved is known after.
LEMMA LinksStay ==
  ASSUME TypeInv, Links, lists' \in [Lists -> ListRows], Grows(lists, lists')
  PROVE  /\ FileLinks(pos, lists')
         /\ \A m \in make : MakeLinks(m, lists')
         /\ \A h \in Handlers : RelayLinks(relay[h], lists')
         /\ RecovLinks(recov, lists') /\ ReconLinks(recon, lists') /\ DynLinks(dyn, lists')
  <1>0. lists \in [Lists -> ListRows]
    BY DEF TypeInv, ListsOK
  <1>1. FileLinks(pos, lists')
    BY <1>0, FileLinksStay DEF TypeInv, FilesOK, Links
  <1>2. \A m \in make : MakeLinks(m, lists')
    BY <1>0, RowLinksStay DEF TypeInv, MakeOK, Links
  <1>3. \A h \in Handlers : RelayLinks(relay[h], lists')
    BY <1>0, RowLinksStay DEF TypeInv, RelayOK, Links
  <1>4. RecovLinks(recov, lists') /\ DynLinks(dyn, lists')
    BY <1>0, RowLinksStay DEF TypeInv, RecovOK, DynOK, Links
  <1>5. ReconLinks(recon, lists')
    BY <1>0, ReconLinksStay DEF TypeInv, ReconOK, Links
  <1> QED
    BY <1>1, <1>2, <1>3, <1>4, <1>5

\* A list that sells, ends or is cancelled keeps its owner.
LEMMA MovedListsKeepOwner ==
  ASSUME TypeInv, Links, lists' \in [Lists -> ListRows], Grows(lists, lists'),
         \A l \in Lists : lists'[l].by = lists[l].by /\ lists'[l].k = lists[l].k
  PROVE  ListLinks(lists')
  <1> SUFFICES ASSUME NEW l \in Lists, lists'[l].by = "relay"
               PROVE  Real(lists'[l].k, lists') /\ Owned(lists'[l].k, l, lists')
    BY DEF ListLinks
  <1>1. lists \in [Lists -> ListRows] /\ lists[l].k \in Keys
    BY DEF TypeInv, ListsOK, ListRows
  <1>2. Real(lists[l].k, lists) /\ Owned(lists[l].k, l, lists)
    BY DEF Links, ListLinks
  <1> QED
    BY <1>1, <1>2, OwnedStays

\* Make's answer names a list that was placed for the key of the request.
LEMMA AnswerLinks ==
  ASSUME TypeInv, Links, lists' \in [Lists -> ListRows], Grows(lists, lists'),
         NEW m \in make, NEW ans \in Answers, Answer(m, ans),
         m.a = "BUY" \/ (ans \in Lists => Owned(m.k, ans, lists'))
  PROVE  /\ \A n \in make' : MakeLinks(n, lists')
         /\ \A h \in Handlers : RelayLinks(relay'[h], lists')
         /\ DynLinks(dyn', lists')
  <1>1. \A n \in make' : MakeLinks(n, lists')
    BY LinksStay DEF Answer
  <1>2. ASSUME NEW h \in Handlers PROVE RelayLinks(relay'[h], lists')
    <2>1. RelayLinks(relay[h], lists') /\ relay[h] \in RelayRows
      BY LinksStay DEF TypeInv, RelayOK
    <2>2. CASE Sender(h, m)
      <3>1. relay'[h] = [relay[h] EXCEPT !.ans = ans]
        BY <2>2 DEF Answer
      <3> QED
        BY <2>1, <2>2, <3>1 DEF Sender, RelayLinks, RelayRows
    <2>3. CASE ~Sender(h, m)
      BY <2>1, <2>3 DEF Answer
    <2> QED
      BY <2>2, <2>3
  <1>3. DynLinks(dyn', lists')
    <2>1. DynLinks(dyn, lists') /\ dyn \in DynRows /\ MakeLinks(m, lists')
      BY LinksStay DEF TypeInv, DynOK
    <2>2. CASE dyn.pc = m.by /\ dyn.k = m.k
      <3>1. dyn' = [dyn EXCEPT !.ans = ans]
        BY <2>2 DEF Answer
      <3>2. m.a # "BUY"
        BY <2>1, <2>2 DEF MakeLinks, DynRows, DynPcs
      <3> QED
        BY <2>1, <2>2, <3>1, <3>2 DEF DynLinks, DynRows
    <2>3. CASE ~(dyn.pc = m.by /\ dyn.k = m.k)
      BY <2>1, <2>3 DEF Answer
    <2> QED
      BY <2>2, <2>3
  <1> QED
    BY <1>1, <1>2, <1>3

LEMMA WorldLinks == ASSUME TypeInv, Links, World, TypeInv' PROVE Links'
  <1> USE DEF files, binance, procs
  <1>0. lists \in [Lists -> ListRows] /\ lists' \in [Lists -> ListRows]
    BY DEF TypeInv, ListsOK
  <1>a. ASSUME Grows(lists, lists'), \A l \in Lists : lists'[l].by = lists[l].by /\ lists'[l].k = lists[l].k,
               make' \subseteq make, UNCHANGED <<pos, procs>>
        PROVE  Links'
    BY <1>0, <1>a, LinksStay, MovedListsKeepOwner DEF Links
  <1>b. lists' = lists => Grows(lists, lists')
    BY <1>0 DEF Grows, ListRows
  <1>1. ASSUME NEW m \in make, MakeBuys(m) PROVE Links'
    <2>1. 1 \in Answers /\ Refused \in Answers
      BY FilesAssumption DEF Answers, Refused, FilesAssumption
    <2>2. /\ \A n \in make' : MakeLinks(n, lists')
          /\ \A h \in Handlers : RelayLinks(relay'[h], lists')
          /\ DynLinks(dyn', lists')
      BY <1>0, <1>1, <1>b, <2>1, AnswerLinks DEF MakeBuys
    <2> QED
      BY <1>1, <2>2 DEF MakeBuys, Links
  <1>2. ASSUME NEW m \in make, MakePlaces(m) PROVE Links'
    <2>0. Refused \in Answers /\ Refused \notin Lists /\ Lists \subseteq Answers /\ m.k \in Keys
          /\ Real(m.k, lists)
      BY FilesAssumption
         DEF Answers, Refused, Lists, FilesAssumption, TypeInv, MakeOK, Requests, Links, MakeLinks
    <2>1. CASE lists' = lists /\ Answer(m, Refused)
      <3>1. /\ \A n \in make' : MakeLinks(n, lists')
            /\ \A h \in Handlers : RelayLinks(relay'[h], lists')
            /\ DynLinks(dyn', lists')
        BY <1>0, <1>b, <2>0, <2>1, AnswerLinks
      <3> QED
        BY <1>2, <2>1, <3>1 DEF MakePlaces, Links
    <2>2. ASSUME NEW l \in Unused,
                 lists' = [lists EXCEPT ![l] =
                     [st |-> "open", sig |-> SignalOf(m.k), k |-> m.k, by |-> m.by,
                      sold |-> 0, stop |-> m.stop]],
                 Answer(m, l)
          PROVE  Links'
      <3>1. l \in Lists /\ Grows(lists, lists')
        BY <1>0, <2>2 DEF Unused, Grows, ListRows
      <3>2. lists'[l].st = "open" /\ lists'[l].sig = SigIn(m.k, lists) /\ lists'[l].k = m.k
        BY <1>0, <2>2, <3>1 DEF SignalOf, SigIn
      <3>3. Real(m.k, lists') /\ Owned(m.k, l, lists')
        BY <1>0, <2>0, <3>1, <3>2, OwnedStays DEF Owned
      <3>4. /\ \A n \in make' : MakeLinks(n, lists')
            /\ \A h \in Handlers : RelayLinks(relay'[h], lists')
            /\ DynLinks(dyn', lists')
        BY <1>0, <2>0, <2>2, <3>1, <3>3, AnswerLinks
      <3>5. ListLinks(lists')
        <4> SUFFICES ASSUME NEW j \in Lists, lists'[j].by = "relay"
                     PROVE  Real(lists'[j].k, lists') /\ Owned(lists'[j].k, j, lists')
          BY DEF ListLinks
        <4>1. CASE j = l
          BY <3>2, <3>3, <4>1
        <4>2. CASE j # l
          <5>1. lists'[j] = lists[j] /\ lists[j].k \in Keys
            BY <1>0, <2>2, <4>2 DEF ListRows
          <5>2. Real(lists[j].k, lists) /\ Owned(lists[j].k, j, lists)
            BY <5>1 DEF Links, ListLinks
          <5> QED
            BY <1>0, <3>1, <5>1, <5>2, OwnedStays
        <4> QED
          BY <4>1, <4>2
      <3> QED
        BY <1>0, <1>2, <3>1, <3>4, <3>5, LinksStay DEF MakePlaces, Links
    <2> QED
      BY <1>2, <2>1, <2>2 DEF MakePlaces
  <1>3. ASSUME NEW m \in make, MakeDrops(m) PROVE Links'
    BY <1>3, <1>a, <1>b DEF MakeDrops
  <1>4. ASSUME NEW l \in Lists, ListSells(l) PROVE Links'
    <2> DEFINE sold == [lists EXCEPT ![l].sold = @ + 1]
    <2>1. /\ sold \in [Lists -> ListRows] /\ lists[l].st = "open"
          /\ \A j \in Lists : /\ sold[j].st = lists[j].st /\ sold[j].sig = lists[j].sig
                              /\ sold[j].by = lists[j].by /\ sold[j].k = lists[j].k
                              /\ sold[j].sold >= lists[j].sold
      BY <1>0, <1>4 DEF ListRows, ListSells, Open
    <2>2. lists' = [sold EXCEPT ![l].st = IF lists[l].sold + 1 = Units THEN "ended" ELSE "open"]
      BY <1>4 DEF ListSells
    <2> HIDE DEF sold
    <2>3. /\ Grows(lists, lists')
          /\ \A j \in Lists : lists'[j].by = lists[j].by /\ lists'[j].k = lists[j].k
      BY <2>1, <2>2 DEF Grows, ListRows
    <2> QED
      BY <1>4, <1>a, <2>3 DEF ListSells
  <1>5. ASSUME NEW l \in Lists, OwnerCancels(l) PROVE Links'
    <2>1. /\ Grows(lists, lists')
          /\ \A j \in Lists : lists'[j].by = lists[j].by /\ lists'[j].k = lists[j].k
      BY <1>0, <1>5 DEF OwnerCancels, Grows, ListRows
    <2> QED
      BY <1>5, <1>a, <2>1 DEF OwnerCancels
  <1> QED
    BY <1>1, <1>2, <1>3, <1>4, <1>5 DEF World
(***************************************************************************)
(* The helpers of trade_state.py, for what a caller knows of the key.      *)
(***************************************************************************)
LEMMA BuyLinks ==
  ASSUME FilesOK, NEW ls, FileLinks(pos, ls), NEW k \in Keys, Real(k, ls)
  PROVE  FileLinks(BuyPosition(k), ls)
  <1>1. \A j \in Keys : /\ BuyPosition(k)[j].list = pos[j].list
                        /\ BuyPosition(k)[j].st = IF j = k THEN "BUY_FILLED" ELSE pos[j].st
    BY DEF BuyPosition, FilesOK, PositionFiles, Positions
  <1> QED
    BY <1>1 DEF FileLinks

LEMMA OcoLinks ==
  ASSUME FilesOK, NEW ls, FileLinks(pos, ls), NEW k \in Keys, Real(k, ls),
         NEW l, Owned(k, l, ls), NEW stop
  PROVE  FileLinks(OcoPosition(k, l, stop), ls)
  BY DEF OcoPosition, FileLinks, FilesOK, PositionFiles

LEMMA StatusLinks ==
  ASSUME FilesOK, NEW ls, FileLinks(pos, ls), NEW k \in Keys, NEW status,
         status = "CLOSED" => Sold(k, ls), SetStatus(k, status)
  PROVE  FileLinks(pos', ls)
  <1>1. CASE Tracked(k)
    <2>1. \A j \in Keys : /\ pos'[j].list = pos[j].list
                          /\ pos'[j].st = IF j = k THEN status ELSE pos[j].st
      BY <1>1 DEF SetStatus, FilesOK, PositionFiles, Positions
    <2> QED
      BY <1>1, <2>1 DEF FileLinks, Tracked
  <1>2. CASE ~Tracked(k)
    BY <1>2 DEF SetStatus
  <1> QED
    BY <1>1, <1>2

LEMMA RelayStepLinks ==
  ASSUME RelayOK, NEW ls, \A g \in Handlers : RelayLinks(relay[g], ls),
         NEW h \in Handlers, NEW row, RelayLinks(row, ls), RelayStep(h, row)
  PROVE  \A g \in Handlers : RelayLinks(relay'[g], ls)
  BY DEF RelayOK, RelayStep

LEMMA IdleLinks ==
  ASSUME NEW ls
  PROVE  /\ RelayLinks(IdleHandler(AnyKey), ls) /\ RecovLinks(IdleRecov, ls)
         /\ ReconLinks(IdleRecon, ls) /\ DynLinks(IdleDyn, ls)
  BY DEF IdleHandler, IdleRecov, IdleRecon, IdleDyn, RelayLinks, RecovLinks, ReconLinks, DynLinks

LEMMA ReceiveLinks ==
  ASSUME RelayOK, NEW ls, \A g \in Handlers : RelayLinks(relay[g], ls),
         NEW h \in Handlers, NEW k, Real(k, ls), NEW a, NEW stop, Receives(h, k, a, stop)
  PROVE  \A g \in Handlers : RelayLinks(relay'[g], ls)
  <1>1. NoAnswer \notin Lists
    BY DEF NoAnswer, Lists
  <1>2. RelayLinks([pc |-> "checked", k |-> k, a |-> a, stop |-> stop, ans |-> NoAnswer], ls)
    BY <1>1 DEF RelayLinks
  <1> QED
    BY <1>2, RelayStepLinks DEF Receives

LEMMA RelayKeepsLinks == ASSUME TypeInv, Links, NEW h \in Handlers, Relay(h) PROVE Links'
  <1> USE DEF TypeInv, Links, files, external, binance
  <1>0. /\ relay[h] \in RelayRows /\ relay[h].k \in Keys /\ RelayLinks(relay[h], lists)
        /\ relay[h].pc # "idle" => Real(relay[h].k, lists)
    BY DEF RelayOK, RelayRows, RelayLinks
  <1>a. RelayLinks(IdleHandler(AnyKey), lists)
    BY IdleLinks
  <1>b. \A pc : relay[h].pc # "idle" => RelayLinks([relay[h] EXCEPT !.pc = pc], lists)
    BY <1>0 DEF RelayLinks, RelayRows
  <1>1. CASE RelayChecks(h)
    <2>1. PICK s \in Signals \ Leftover, a \in Actions : Receives(h, s, a, 1)
      BY <1>1 DEF RelayChecks
    <2>2. \A g \in Handlers : RelayLinks(relay'[g], lists)
      BY <2>1, ReceiveLinks DEF Real
    <2> QED
      BY <1>1, <2>2 DEF RelayChecks
  <1>2. CASE RelayReserves(h)
    <2>1. \A g \in Handlers : RelayLinks(relay'[g], lists)
      BY <1>2, <1>a, <1>b, RelayStepLinks DEF RelayReserves, RelayDone
    <2>2. \A m \in make' : MakeLinks(m, lists)
      BY <1>2, <1>0 DEF RelayReserves, MakeLinks
    <2> QED
      BY <1>2, <2>1, <2>2 DEF RelayReserves
  <1>3. CASE RelayBlocksDuplicate(h)
    <2>1. \A g \in Handlers : RelayLinks(relay'[g], lists)
      BY <1>3, <1>a, RelayStepLinks DEF RelayBlocksDuplicate, RelayDone
    <2> QED
      BY <1>3, <2>1 DEF RelayBlocksDuplicate
  <1>4. CASE RelayRecords(h)
    <2>1. FileLinks(pos', lists)
      <3>1. CASE RecordBuy(relay[h].k)
        BY <1>4, <3>1, <1>0, BuyLinks DEF RelayRecords, RecordBuy
      <3>2. CASE relay[h].a = "OCO" /\ RecordOco(relay[h].k, relay[h].ans, relay[h].stop)
        <4>1. Owned(relay[h].k, relay[h].ans, lists) /\ Real(relay[h].k, lists)
          BY <1>0, <1>4, <3>2 DEF RelayRecords, RelayLinks
        <4> QED
          BY <3>2, <1>0, <4>1, OcoLinks DEF RecordOco
      <3> QED
        BY <1>4, <3>1, <3>2 DEF RelayRecords
    <2>2. \A g \in Handlers : RelayLinks(relay'[g], lists)
      BY <1>4, <1>a, <1>b, RelayStepLinks DEF RelayRecords, RelayDone
    <2> QED
      BY <1>4, <2>1, <2>2 DEF RelayRecords
  <1>5. CASE RelayMarksPending(h)
    <2>1. FileLinks(pos', lists)
      BY <1>5, <1>0, StatusLinks DEF RelayMarksPending
    <2>2. \A g \in Handlers : RelayLinks(relay'[g], lists)
      BY <1>5, <1>a, RelayStepLinks DEF RelayMarksPending, RelayDone
    <2> QED
      BY <1>5, <2>1, <2>2 DEF RelayMarksPending
  <1>6. CASE RelayRejects(h) \/ RelayLosesAnswer(h)
    <2>1. \A g \in Handlers : RelayLinks(relay'[g], lists)
      BY <1>6, <1>a, RelayStepLinks DEF RelayRejects, RelayLosesAnswer, RelayDone
    <2> QED
      BY <1>6, <2>1 DEF RelayRejects, RelayLosesAnswer
  <1> QED
    BY <1>1, <1>2, <1>3, <1>4, <1>5, <1>6 DEF Relay

LEMMA RecoveryKeepsLinks == ASSUME TypeInv, Links, Recovery PROVE Links'
  <1> USE DEF TypeInv, Links, files, external, binance
  <1>0. recov.k \in Keys /\ (recov.pc # "idle" => Real(recov.k, lists))
    BY DEF RecovOK, RecovRows, RecovLinks
  <1>a. RecovLinks(IdleRecov, lists)
    BY IdleLinks
  <1>1. ASSUME NEW s \in Signals, RecovQueriesBuy(s) PROVE Links'
    <2>1. RecovLinks(recov', lists)
      BY <1>1 DEF RecovQueriesBuy, RecovStep, RecovLinks, Real
    <2> QED
      BY <1>1, <2>1 DEF RecovQueriesBuy
  <1>2. CASE RecovRecordsBuy
    <2>1. FileLinks(pos', lists)
      BY <1>2, <1>0, BuyLinks DEF RecovRecordsBuy, RecordBuy
    <2>2. RecovLinks(recov', lists)
      BY <1>2, <1>0, <1>a DEF RecovRecordsBuy, RecovStep, RecovLinks
    <2> QED
      BY <1>2, <2>1, <2>2 DEF RecovRecordsBuy
  <1>3. CASE RecovMarksPending
    <2>1. FileLinks(pos', lists)
      BY <1>3, <1>0, StatusLinks DEF RecovMarksPending
    <2> QED
      BY <1>3, <1>a, <2>1 DEF RecovMarksPending
  <1>4. ASSUME NEW k \in Keys, RecovQueriesOco(k) PROVE Links'
    <2>1. RecovLinks(recov', lists)
      BY <1>4 DEF RecovQueriesOco, RecovStep, RecovLinks, ListLinks
    <2> QED
      BY <1>4, <2>1 DEF RecovQueriesOco
  <1>5. ASSUME NEW k \in Keys, RecovProtects(k) PROVE Links'
    <2>1. PICK h \in Handlers : Receives(h, k, "OCO", pos[k].stop)
      BY <1>5 DEF RecovProtects
    <2>2. Real(k, lists)
      BY <1>5 DEF RecovProtects, FileLinks
    <2>3. \A g \in Handlers : RelayLinks(relay'[g], lists)
      BY <2>1, <2>2, ReceiveLinks
    <2> QED
      BY <1>5, <2>3 DEF RecovProtects
  <1>6. CASE RecovRecordsOco
    <2>1. Real(recov.k, lists) /\ Owned(recov.k, recov.l, lists)
      BY <1>6 DEF RecovRecordsOco, RecovLinks
    <2>2. FileLinks(pos', lists)
      BY <1>6, <1>0, <2>1, OcoLinks DEF RecovRecordsOco, RecordOco
    <2> QED
      BY <1>6, <1>a, <2>2 DEF RecovRecordsOco
  <1> QED
    BY <1>1, <1>2, <1>3, <1>4, <1>5, <1>6 DEF Recovery
LEMMA ReconcilerKeepsLinks == ASSUME TypeInv, Links, Reconciler PROVE Links'
  <1> USE DEF TypeInv, Links, files, external, binance
  <1>0. recon \in ReconRows /\ recon.k \in Keys /\ ReconLinks(recon, lists) /\ ReconLinks(IdleRecon, lists)
    BY IdleLinks DEF ReconOK, ReconRows
  <1>1. CASE ReconLists
    <2>1. ReconLinks(recon', lists)
      BY <1>0, <1>1 DEF ReconLists, ReconStep, ReconLinks, ReconRows, Open
    <2> QED
      BY <1>1, <2>1 DEF ReconLists
  <1>2. CASE ReconFindsUnknown
    <2>1. ReconLinks(recon', lists)
      BY <1>0, <1>2 DEF ReconFindsUnknown, ReconStep, ReconLinks, ReconRows
    <2> QED
      BY <1>2, <2>1 DEF ReconFindsUnknown
  <1>3. ASSUME NEW l \in Lists, ReconLoads(l) PROVE Links'
    <2>1. Real(Rec(l), lists)
      BY <1>0, <1>3 DEF ReconLoads, ReconLinks, Real
    <2>2. ReconLinks(recon', lists)
      <3>1. CASE Tracked(Rec(l))
        <4>1. recon' = [recon EXCEPT !.todo = @ \ {l}]
          BY <1>3, <3>1 DEF ReconLoads, ReconStep
        <4> QED
          BY <1>0, <4>1 DEF ReconLinks, ReconRows
      <3>2. CASE ~Tracked(Rec(l))
        <4>1. recon' = [recon EXCEPT !.pc = "save", !.copy = pos, !.k = Rec(l)]
          BY <1>3, <3>2 DEF ReconLoads, ReconStep
        <4>2. /\ recon'.pc = "save" /\ recon'.copy = pos /\ recon'.k = Rec(l)
              /\ recon'.open = recon.open /\ recon'.todo = recon.todo /\ recon'.ended = recon.ended
          BY <1>0, <4>1 DEF ReconRows
        <4> QED
          BY <1>0, <2>1, <4>2 DEF ReconLinks
      <3> QED
        BY <3>1, <3>2
    <2> QED
      BY <1>3, <2>2 DEF ReconLoads
  <1>4. CASE ReconSaves
    <2>1. PICK l \in Lists : recon.k = Rec(l)
      BY <1>4 DEF ReconSaves, ReconOK
    <2>2. /\ recon.k[2] = l /\ recon.copy \in PositionFiles
          /\ FileLinks(recon.copy, lists) /\ Real(Rec(l), lists)
      BY <1>0, <1>4, <2>1 DEF ReconSaves, ReconOK, ReconLinks, Rec
    <2>3. Owned(Rec(l), l, lists)
      <3>1. lists[l].st # "none"
        BY <2>2, RecIsItsList DEF Real, Rec
      <3> QED
        BY <3>1, RecIsItsList DEF Owned
    <2>4. pos' = [recon.copy EXCEPT ![Rec(l)] =
                    [st |-> "OCO_ACTIVE", list |-> l, stop |-> lists[l].stop]]
      BY <1>4, <2>2 DEF ReconSaves
    <2>5. FileLinks(pos', lists)
      BY <2>2, <2>3, <2>4 DEF FileLinks, PositionFiles
    <2>6. ReconLinks(recon', lists)
      <3>1. /\ recon'.pc = "rebuild" /\ recon'.todo \subseteq recon.todo
            /\ recon'.open = recon.open /\ recon'.ended = recon.ended
        BY <1>0, <1>4 DEF ReconSaves, ReconStep, ReconRows
      <3> QED
        BY <1>0, <3>1 DEF ReconLinks
    <2> QED
      BY <1>4, <2>5, <2>6 DEF ReconSaves
  <1>5. CASE ReconScans
    <2>1. ASSUME NEW p \in Ended(recon.open)
          PROVE  Real(p[1], lists) /\ Owned(p[1], p[2], lists)
      BY <2>1 DEF Ended, FileLinks
    <2>2. ReconLinks([IdleRecon EXCEPT !.pc = "scan", !.ended = Ended(recon.open)], lists)
      BY <2>1 DEF ReconLinks, IdleRecon
    <2> QED
      BY <1>0, <1>5, <2>2 DEF ReconScans, ReconStep
  <1>6. ASSUME NEW k \in Keys, NEW l \in Lists, ReconQueries(k, l) PROVE Links'
    <2>1. Real(k, lists) /\ Owned(k, l, lists)
      BY <1>0, <1>6 DEF ReconQueries, ReconLinks
    <2>2. PICK pc \in {"scan", "close", "lost", "marked"} :
            /\ recon' = [recon EXCEPT !.pc = pc, !.k = k, !.ended = @ \ {<<k, l>>}]
            /\ pc = "close" => lists[l].sold > 0
      BY <1>6 DEF ReconQueries, ReconLooks, ReconStep
    <2>3. /\ recon'.pc = pc /\ recon'.k = k /\ recon'.ended \subseteq recon.ended
          /\ recon'.open = recon.open /\ recon'.todo = recon.todo
      BY <1>0, <2>2 DEF ReconRows
    <2>4. ReconLinks(recon', lists)
      BY <1>0, <2>1, <2>2, <2>3 DEF ReconLinks, Sold
    <2> QED
      BY <1>6, <2>4 DEF ReconQueries
  <1>7. CASE ReconCloses \/ ReconMarksLost
    <2>1. FileLinks(pos', lists)
      BY <1>0, <1>7, StatusLinks DEF ReconCloses, ReconMarksLost, ClosePosition, ReconLinks
    <2>2. /\ recon'.pc \in {"scan", "marked"} /\ recon'.ended = recon.ended
          /\ recon'.open = recon.open /\ recon'.todo = recon.todo
      BY <1>0, <1>7 DEF ReconCloses, ReconMarksLost, ReconStep, ReconRows
    <2>3. ReconLinks(recon', lists)
      BY <1>0, <2>2 DEF ReconLinks
    <2> QED
      BY <1>7, <2>1, <2>3 DEF ReconCloses, ReconMarksLost
  <1>9. CASE ReconEndsReservation
    <2>1. /\ recon'.pc = "scan" /\ recon'.ended = recon.ended
          /\ recon'.open = recon.open /\ recon'.todo = recon.todo
      BY <1>0, <1>9 DEF ReconEndsReservation, ReconStep, ReconRows
    <2>2. ReconLinks(recon', lists)
      BY <1>0, <2>1 DEF ReconLinks
    <2> QED
      BY <1>9, <2>2 DEF ReconEndsReservation
  <1>8. CASE ReconEnds \/ ReconFails
    BY <1>0, <1>8 DEF ReconEnds, ReconFails, ReconStep
  <1> QED
    BY <1>1, <1>2, <1>3, <1>4, <1>5, <1>6, <1>7, <1>8, <1>9 DEF Reconciler

LEMMA DynamicKeepsLinks == ASSUME TypeInv, Links, DynamicExit, TypeInv' PROVE Links'
  <1> USE DEF TypeInv, Links, files, external, binance
  <1>0. dyn \in DynRows /\ dyn.k \in Keys /\ DynLinks(dyn, lists) /\ DynLinks(IdleDyn, lists)
        /\ NoAnswer \notin Lists /\ lists \in [Lists -> ListRows] /\ lists' \in [Lists -> ListRows]
    BY IdleLinks DEF DynOK, DynRows, ListsOK, NoAnswer, Lists
  <1>a. dyn.pc # "idle" => Real(dyn.k, lists)
    BY <1>0 DEF DynLinks
  <1>b. \A pc : dyn.pc # "idle" => DynLinks([dyn EXCEPT !.pc = pc], lists)
    BY <1>0 DEF DynLinks, DynRows
  <1>1. ASSUME NEW k \in Keys, DynLooks(k) PROVE Links'
    <2>1. Real(k, lists)
      BY <1>1 DEF DynLooks, FileLinks
    <2>2. DynLinks(dyn', lists)
      BY <1>0, <1>1, <2>1 DEF DynLooks, DynStep, DynLinks
    <2> QED
      BY <1>1, <2>2 DEF DynLooks
  <1>2. CASE DynCancels
    <2>1. /\ Grows(lists, lists')
          /\ \A j \in Lists : lists'[j].by = lists[j].by /\ lists'[j].k = lists[j].k
      BY <1>0, <1>2 DEF DynCancels, Grows, ListRows
    <2>2. DynLinks(dyn', lists')
      <3>1. DynLinks(dyn, lists') /\ DynLinks(IdleDyn, lists')
        BY <1>0, <2>1, LinksStay, IdleLinks
      <3>2. CASE dyn' = [dyn EXCEPT !.pc = "cancelled"]
        BY <1>0, <1>2, <3>1, <3>2 DEF DynCancels, DynLinks, DynRows
      <3> QED
        BY <1>2, <3>1, <3>2 DEF DynCancels, DynStep
    <2>3. /\ FileLinks(pos, lists') /\ ListLinks(lists')
          /\ \A m \in make : MakeLinks(m, lists')
          /\ \A h \in Handlers : RelayLinks(relay[h], lists')
          /\ RecovLinks(recov, lists') /\ ReconLinks(recon, lists')
      BY <1>0, <2>1, LinksStay, MovedListsKeepOwner
    <2> QED
      BY <1>2, <2>2, <2>3 DEF DynCancels
  <1>3. CASE DynMarksPending
    <2>1. FileLinks(pos', lists)
      BY <1>0, <1>3, StatusLinks DEF DynMarksPending
    <2> QED
      BY <1>3, <1>b, <2>1 DEF DynMarksPending, DynStep
  <1>4. ASSUME NEW from \in {"place", "rollback"}, NEW by \in {"new", "old"}, NEW stop,
               DynSends(from, by, stop)
        PROVE  Links'
    <2>1. Real(dyn.k, lists)
      BY <1>4, <1>a DEF DynSends
    <2>2. DynLinks(dyn', lists)
      <3>1. CASE dyn' = [dyn EXCEPT !.pc = by, !.ans = NoAnswer]
        <4>1. dyn'.k = dyn.k /\ dyn'.ans = NoAnswer
          BY <1>0, <3>1 DEF DynRows
        <4> QED
          BY <1>0, <2>1, <4>1 DEF DynLinks
      <3> QED
        BY <1>0, <1>4, <3>1 DEF DynSends, DynStep
    <2>3. \A m \in make' : MakeLinks(m, lists)
      BY <1>4, <2>1 DEF DynSends, MakeLinks
    <2> QED
      BY <1>4, <2>2, <2>3 DEF DynSends
  <1>5. CASE DynRecords
    <2>1. Real(dyn.k, lists) /\ Owned(dyn.k, dyn.ans, lists)
      BY <1>0, <1>5 DEF DynRecords, DynLinks
    <2>2. FileLinks(pos', lists)
      BY <1>0, <1>5, <2>1, OcoLinks DEF DynRecords
    <2> QED
      BY <1>0, <1>5, <1>b, <2>2 DEF DynRecords, DynStep
  <1>6. CASE DynFailsNew
    BY <1>6, <1>b DEF DynFailsNew, DynStep
  <1>7. CASE DynFailsOld
    <2>1. FileLinks(pos', lists)
      BY <1>0, <1>7, StatusLinks DEF DynFailsOld
    <2> QED
      BY <1>0, <1>7, <1>b, <2>1 DEF DynFailsOld, DynStep
  <1>8. CASE DynEndsReservation
    BY <1>0, <1>8 DEF DynEndsReservation, DynStep
  <1> QED
    BY <1>1, <1>2, <1>3, <1>4, <1>5, <1>6, <1>7, <1>8 DEF DynamicExit, DynPlaces, DynRollsBack

LEMMA CrashKeepsLinks == ASSUME TypeInv, Links, Crash \/ CrashInRecord PROVE Links'
  <1> USE DEF TypeInv, Links, files, external, binance
  <1>1. /\ \A h \in Handlers : RelayLinks(relay'[h], lists)
        /\ RecovLinks(recov', lists) /\ ReconLinks(recon', lists) /\ DynLinks(dyn', lists)
    BY IdleLinks DEF Crash, CrashInRecord, Restarted
  <1>2. CASE Crash
    BY <1>1, <1>2 DEF Crash
  <1>3. CASE CrashInRecord
    <2>1. ASSUME NEW h \in Handlers, relay[h].pc = "posted", relay[h].ans \in Lists,
                 pos' = IF relay[h].a = "BUY" THEN BuyPosition(relay[h].k)
                        ELSE OcoPosition(relay[h].k, relay[h].ans, relay[h].stop)
          PROVE  FileLinks(pos', lists)
      <3>1. relay[h].k \in Keys /\ relay[h].a \in Actions /\ RelayLinks(relay[h], lists)
        BY DEF RelayOK, RelayRows
      <3>2. Real(relay[h].k, lists) /\ (relay[h].a = "OCO" => Owned(relay[h].k, relay[h].ans, lists))
        BY <2>1, <3>1 DEF RelayLinks
      <3>3. CASE relay[h].a = "BUY"
        BY <2>1, <3>1, <3>2, <3>3, BuyLinks
      <3>4. CASE relay[h].a = "OCO"
        BY <2>1, <3>1, <3>2, <3>4, OcoLinks
      <3> QED
        BY <3>1, <3>3, <3>4 DEF Actions
    <2>a. /\ recov.k \in Keys /\ (recov.pc # "idle" => Real(recov.k, lists))
          /\ recov.pc = "oco" => Owned(recov.k, recov.l, lists)
      BY DEF RecovOK, RecovRows, RecovLinks
    <2>2. ASSUME recov.pc = "buy", pos' = BuyPosition(recov.k) PROVE FileLinks(pos', lists)
      BY <2>a, <2>2, BuyLinks
    <2>3. ASSUME recov.pc = "oco", pos' = OcoPosition(recov.k, recov.l, lists[recov.l].stop)
          PROVE  FileLinks(pos', lists)
      BY <2>a, <2>3, OcoLinks
    <2>4. FileLinks(pos', lists)
      BY <1>3, <2>1, <2>2, <2>3 DEF CrashInRecord
    <2> QED
      BY <1>1, <1>3, <2>4 DEF CrashInRecord
  <1> QED
    BY <1>2, <1>3

LEMMA LinksHold == Spec => []Links
  <1>1. Init => Links
    <2> SUFFICES ASSUME Init PROVE Links
      OBVIOUS
    <2>1. FileLinks(pos, lists) /\ ListLinks(lists)
      BY DEF Init, FilesInit, FileLinks, ListLinks
    <2> QED
      BY <2>1, IdleLinks DEF Init, Links
  <1>2. TypeInv /\ Links /\ TypeInv' /\ [Next]_vars => Links'
    <2> SUFFICES ASSUME TypeInv, Links, TypeInv', [Next]_vars PROVE Links'
      OBVIOUS
    <2>1. CASE Next
      BY <2>1, WorldLinks, RelayKeepsLinks, RecoveryKeepsLinks, ReconcilerKeepsLinks,
         DynamicKeepsLinks, CrashKeepsLinks DEF Next
    <2>2. CASE UNCHANGED vars
      BY <2>2 DEF vars, files, external, procs, Links
    <2> QED
      BY <2>1, <2>2
  <1> QED
    BY <1>1, <1>2, TypesHold, PTL DEF Spec

\* A position is booked as closed only after a list of its coin has sold: what a
\* process read of a list before it gave the lock back never comes untrue.
THEOREM ClosedOnSaleHolds == Spec => []ClosedOnSale
  <1>1. Links => ClosedOnSale
    <2> SUFFICES ASSUME Links, NEW k \in Keys, pos[k].st = "CLOSED"
                 PROVE  \E l \in Lists : lists[l].sig = SignalOf(k) /\ lists[l].sold > 0
      BY DEF ClosedOnSale
    <2> QED
      BY DEF Links, FileLinks, Sold, Owned, SigIn, SignalOf
  <1> QED
    BY <1>1, LinksHold, PTL

(***************************************************************************)
(* Who may answer whom.  A request at Make was reserved when it was sent,  *)
(* so no second one of its key carries other levels; and of one position   *)
(* Make holds at most the two requests of the manager's current ratchet.   *)
(***************************************************************************)
Asked(row) == IF row.pc = "new" THEN row.stop + 1 ELSE row.stop
RelayAsks ==
  /\ \A m \in make : m.by = "relay" => res[m.k][m.a] # "NONE"
  /\ \A h \in Handlers : relay[h].pc = "posted" => res[relay[h].k][relay[h].a] # "NONE"
  /\ \A m \in make, h \in Handlers : Sender(h, m) => m.stop = relay[h].stop
DynAsks ==
  \A m \in make : m.k = dyn.k =>
    /\ dyn.pc \in {"cancel", "cancelled", "place"} => m.by = "relay"
    /\ dyn.pc \in {"new", "rollback"} => m.by # "old"
    /\ m.by = dyn.pc => m.stop = Asked(dyn)
SameRequest(old, new) ==
  new.pc = old.pc /\ new.k = old.k /\ new.stop = old.stop

LEMMA RelayAsksStay ==
  ASSUME TypeInv, RelayAsks, \A m \in make' : m \in make \/ m.by # "relay",
         \A k \in Keys, a \in Actions : res[k][a] # "NONE" => res'[k][a] # "NONE",
         \A h \in Handlers : \/ relay'[h].pc # "posted"
                             \/ SameRequest(relay[h], relay'[h]) /\ relay'[h].a = relay[h].a
  PROVE  RelayAsks'
  <1>1. \A m \in make : m.k \in Keys /\ m.a \in Actions
    BY DEF TypeInv, MakeOK, Requests
  <1>2. \A h \in Handlers : relay[h].k \in Keys /\ relay[h].a \in Actions
    BY DEF TypeInv, RelayOK, RelayRows
  <1>3. \A m \in make' : m.by = "relay" => res'[m.k][m.a] # "NONE"
    BY <1>1 DEF RelayAsks
  <1>4. \A h \in Handlers : relay'[h].pc = "posted" => res'[relay'[h].k][relay'[h].a] # "NONE"
    BY <1>2 DEF RelayAsks, SameRequest
  <1>5. ASSUME NEW m \in make', NEW h \in Handlers, Sender(h, m)' PROVE m.stop = relay'[h].stop
    <2>1. m \in make /\ Sender(h, m) /\ relay'[h].stop = relay[h].stop
      BY <1>5 DEF Sender, SameRequest
    <2> QED
      BY <2>1 DEF RelayAsks
  <1> QED
    BY <1>3, <1>4, <1>5 DEF RelayAsks

LEMMA DynAsksStay ==
  ASSUME DynAsks, \A m \in make' : m \in make \/ m.by = "relay",
         dyn'.pc = "idle" \/ SameRequest(dyn, dyn'), TypeInv, TypeInv'
  PROVE  DynAsks'
  <1> SUFFICES ASSUME NEW m \in make', m.k = dyn'.k
               PROVE  /\ dyn'.pc \in {"cancel", "cancelled", "place"} => m.by = "relay"
                      /\ dyn'.pc \in {"new", "rollback"} => m.by # "old"
                      /\ m.by = dyn'.pc => m.stop = Asked(dyn')
    BY DEF DynAsks
  <1>1. m.by \in {"relay", "new", "old"} /\ dyn'.pc \in DynPcs
    BY DEF TypeInv, MakeOK, Requests, DynOK, DynRows
  <1>2. CASE m.by = "relay" \/ dyn'.pc = "idle"
    BY <1>1, <1>2 DEF DynPcs
  <1>3. CASE m \in make /\ SameRequest(dyn, dyn')
    BY <1>3 DEF DynAsks, SameRequest, Asked
  <1> QED
    BY <1>2, <1>3

\* The relay's only send is of a key that nobody has sent before.
LEMMA ReserveAsks ==
  ASSUME TypeInv, RelayAsks, NEW h \in Handlers, RelayReserves(h)
  PROVE  RelayAsks'
  <1> DEFINE k == relay[h].k
             a == relay[h].a
             n == [a |-> a, k |-> k, by |-> "relay", stop |-> relay[h].stop]
  <1>0. k \in Keys /\ a \in Actions /\ relay[h] \in RelayRows
    BY DEF TypeInv, RelayOK, RelayRows
  <1>1. res[k][a] = "NONE" /\ res' = [res EXCEPT ![k][a] = "RESERVED"]
    BY DEF RelayReserves, MayReserve, Reserve
  <1>2. /\ res'[k][a] # "NONE"
        /\ \A j \in Keys, b \in Actions : res[j][b] # "NONE" => res'[j][b] # "NONE"
    BY <1>0, <1>1 DEF TypeInv, FilesOK
  <1>3. CASE make' = make /\ relay' = [relay EXCEPT ![h] = IdleHandler(AnyKey)]
    <2>1. \A g \in Handlers : relay'[g].pc # "posted" \/ relay'[g] = relay[g]
      BY <1>3 DEF TypeInv, RelayOK, IdleHandler
    <2> QED
      BY <1>2, <1>3, <2>1, RelayAsksStay DEF SameRequest
  <1>4. CASE make' = make \cup {n} /\ relay' = [relay EXCEPT ![h] = [relay[h] EXCEPT !.pc = "posted"]]
    <2>1. /\ relay'[h].pc = "posted" /\ relay'[h].k = k /\ relay'[h].a = a
          /\ relay'[h].stop = relay[h].stop
          /\ \A g \in Handlers : g # h => relay'[g] = relay[g]
      BY <1>0, <1>4 DEF TypeInv, RelayOK, RelayRows
    <2>2. \A m \in make' : m.by = "relay" => res'[m.k][m.a] # "NONE"
      BY <1>2, <1>4 DEF RelayAsks, TypeInv, MakeOK, Requests
    <2>3. \A g \in Handlers : relay'[g].pc = "posted" => res'[relay'[g].k][relay'[g].a] # "NONE"
      BY <1>2, <2>1 DEF RelayAsks, TypeInv, RelayOK, RelayRows
    <2>4. ASSUME NEW m \in make', NEW g \in Handlers, Sender(g, m)' PROVE m.stop = relay'[g].stop
      <3>1. relay'[g].pc = "posted" /\ relay'[g].k = m.k /\ relay'[g].a = m.a /\ m.by = "relay"
        BY <2>4 DEF Sender
      <3>2. CASE g = h
        <4>1. m \notin make
          BY <1>1, <2>1, <3>1, <3>2 DEF RelayAsks
        <4> QED
          BY <1>4, <2>1, <3>2, <4>1
      <3>3. CASE g # h
        <4>1. relay'[g] = relay[g] /\ res[m.k][m.a] # "NONE"
          BY <2>1, <3>1, <3>3 DEF RelayAsks
        <4>2. m \in make /\ Sender(g, m)
          BY <1>1, <1>4, <3>1, <4>1 DEF Sender
        <4> QED
          BY <4>1, <4>2 DEF RelayAsks
      <3> QED
        BY <3>2, <3>3
    <2> QED
      BY <2>2, <2>3, <2>4 DEF RelayAsks
  <1> QED
    BY <1>3, <1>4 DEF RelayReserves, RelayStep, RelayDone
LEMMA ManagerAsks ==
  ASSUME TypeInv, TypeInv', Links, DynAsks, DynamicExit
  PROVE  DynAsks' /\ relay' = relay /\ \A m \in make' : m \in make \/ m.by # "relay"
  <1> USE DEF external, binance, files
  <1>0. dyn \in DynRows /\ IdleDyn.pc = "idle"
    BY IdleRows DEF TypeInv, DynOK
  <1>1. ASSUME NEW k \in Keys, DynLooks(k) PROVE DynAsks'
    <2>1. dyn'.pc = "cancel" /\ dyn'.k = k /\ make' = make
      BY <1>1 DEF DynLooks, DynStep
    <2>2. \A m \in make : m.k = k => m.by = "relay"
      BY <1>1 DEF DynLooks, Links, MakeLinks
    <2> QED
      BY <2>1, <2>2 DEF DynAsks
  <1>2. ASSUME \/ DynCancels \/ DynMarksPending \/ DynRecords
               \/ DynFailsNew \/ DynFailsOld \/ DynEndsReservation
        PROVE  DynAsks'
    <2>1. make' = make
      BY <1>2 DEF DynCancels, DynMarksPending, DynRecords, DynFailsNew, DynFailsOld, DynEndsReservation
    <2>2. CASE dyn'.pc = "idle"
      BY <2>1, <2>2, DynAsksStay
    <2>3. CASE dyn'.pc # "idle"
      <3>1. /\ dyn'.k = dyn.k
            /\ \/ dyn'.pc \in {"cancelled", "place"} /\ dyn.pc \in {"cancel", "cancelled"}
               \/ dyn'.pc = "rollback" /\ dyn.pc = "new"
               \/ dyn'.pc \in {"placed", "failed"}
        BY <1>0, <1>2, <2>3
           DEF DynCancels, DynMarksPending, DynRecords, DynFailsNew, DynFailsOld, DynEndsReservation, DynStep, DynRows
      <3>2. \A m \in make : m.by \in {"relay", "new", "old"}
        BY DEF TypeInv, MakeOK, Requests
      <3> QED
        BY <2>1, <3>1, <3>2 DEF DynAsks
    <2> QED
      BY <2>2, <2>3
  <1>3. ASSUME NEW from, NEW by, NEW stop, DynSends(from, by, stop),
               \/ from = "place" /\ by = "new" /\ stop = dyn.stop + 1
               \/ from = "rollback" /\ by = "old" /\ stop = dyn.stop
        PROVE  DynAsks' /\ \A m \in make' : m \in make \/ m.by # "relay"
    <2>1. CASE dyn' = IdleDyn /\ make' = make
      BY <1>0, <2>1, DynAsksStay
    <2>2. CASE /\ dyn' = [dyn EXCEPT !.pc = by, !.ans = NoAnswer]
               /\ make' = make \cup {[a |-> "OCO", k |-> dyn.k, by |-> by, stop |-> stop]}
      <3>1. dyn'.pc = by /\ dyn'.k = dyn.k /\ dyn'.stop = dyn.stop /\ dyn.pc = from
        BY <1>0, <1>3, <2>2 DEF DynRows, DynSends
      <3>2. stop = Asked(dyn')
        BY <1>3, <3>1 DEF Asked
      <3>3. \A m \in make : m.k = dyn.k => m.by # by /\ (by = "new" => m.by = "relay")
        BY <1>3, <3>1 DEF DynAsks
      <3>4. DynAsks'
        <4> SUFFICES ASSUME NEW m \in make', m.k = dyn.k
                     PROVE  /\ by = "new" => m.by # "old"
                            /\ m.by = by => m.stop = Asked(dyn')
          BY <1>3, <3>1 DEF DynAsks
        <4> QED
          BY <1>3, <2>2, <3>2, <3>3
      <3> QED
        BY <1>3, <2>2, <3>4
    <2> QED
      BY <1>3, <2>1, <2>2 DEF DynSends, DynStep
  <1>4. DynPlaces => DynSends("place", "new", dyn.stop + 1)
    BY DEF DynPlaces
  <1>5. DynRollsBack => DynSends("rollback", "old", dyn.stop)
    BY DEF DynRollsBack
  <1>6. relay' = relay
    BY DEF DynamicExit, DynLooks, DynCancels, DynMarksPending, DynPlaces, DynRollsBack, DynSends,
           DynRecords, DynFailsNew, DynFailsOld, DynEndsReservation
  <1>7. CASE DynPlaces \/ DynRollsBack
    BY <1>3, <1>4, <1>5, <1>6, <1>7
  <1>8. CASE ~(DynPlaces \/ DynRollsBack)
    <2>1. make' = make
      BY <1>8 DEF DynamicExit, DynLooks, DynCancels, DynMarksPending, DynRecords, DynFailsNew, DynFailsOld, DynEndsReservation
    <2> QED
      BY <1>1, <1>2, <1>6, <1>8, <2>1 DEF DynamicExit
  <1> QED
    BY <1>7, <1>8

\* Whatever else moves, no request changes and only its own process forgets it.
LEMMA OthersAsk ==
  ASSUME TypeInv, Next, ~DynamicExit, \A h \in Handlers : ~RelayReserves(h)
  PROVE  /\ make' \subseteq make
         /\ \A h \in Handlers : \/ relay'[h].pc # "posted"
                                \/ SameRequest(relay[h], relay'[h]) /\ relay'[h].a = relay[h].a
         /\ dyn'.pc = "idle" \/ SameRequest(dyn, dyn')
  <1> USE DEF SameRequest, external, binance, procs
  <1>0. /\ relay \in [Handlers -> RelayRows] /\ dyn \in DynRows
        /\ IdleDyn.pc = "idle" /\ IdleHandler(AnyKey).pc = "idle"
    BY IdleRows DEF TypeInv, RelayOK, DynOK, IdleHandler
  <1>1. CASE World
    <2>1. ASSUME NEW m, NEW ans, Answer(m, ans)
          PROVE  /\ make' \subseteq make
                 /\ \A h \in Handlers : SameRequest(relay[h], relay'[h]) /\ relay'[h].a = relay[h].a
                 /\ SameRequest(dyn, dyn')
      BY <1>0, <2>1 DEF Answer, RelayRows, DynRows
    <2> QED
      BY <1>1, <2>1 DEF World, MakeBuys, MakePlaces, MakeDrops, ListSells, OwnerCancels
  <1>2. ASSUME NEW h \in Handlers, Relay(h)
        PROVE  /\ make' = make /\ dyn' = dyn
               /\ \A g \in Handlers : relay'[g].pc # "posted" \/ relay'[g] = relay[g]
    <2>1. PICK row : row.pc # "posted" /\ RelayStep(h, row) /\ make' = make /\ dyn' = dyn
      BY <1>0, <1>2
         DEF Relay, RelayChecks, Receives, RelayBlocksDuplicate, RelayRecords, RelayMarksPending,
             RelayRejects, RelayLosesAnswer, RelayDone, RelayRows
    <2> QED
      BY <1>0, <2>1 DEF RelayStep
  <1>3. CASE Recovery
    <2>1. /\ make' = make /\ dyn' = dyn
          /\ \/ relay' = relay
             \/ \E h \in Handlers : \E row : row.pc # "posted" /\ RelayStep(h, row)
      BY <1>3 DEF Recovery, RecovQueriesBuy, RecovRecordsBuy, RecovMarksPending, RecovQueriesOco,
                  RecovRecordsOco, RecovProtects, Receives
    <2> QED
      BY <1>0, <2>1 DEF RelayStep
  <1>4. CASE Reconciler
    BY <1>4 DEF Reconciler, ReconLists, ReconFindsUnknown, ReconLoads, ReconSaves, ReconScans,
                ReconQueries, ReconCloses, ReconMarksLost, ReconEndsReservation, ReconEnds, ReconFails
  <1>5. CASE Crash \/ CrashInRecord
    BY <1>0, <1>5 DEF Crash, CrashInRecord, Restarted
  <1> QED
    BY <1>1, <1>2, <1>3, <1>4, <1>5 DEF Next

LEMMA AsksHold == Spec => [](RelayAsks /\ DynAsks)
  <1>1. Init => RelayAsks /\ DynAsks
    BY IdleRows DEF Init, RelayAsks, DynAsks, IdleHandler
  <1>2. ASSUME TypeInv, TypeInv', Links, RelayAsks, DynAsks, [Next]_vars
        PROVE  RelayAsks' /\ DynAsks'
    <2>1. CASE UNCHANGED vars
      BY <1>2, <2>1 DEF vars, files, external, procs, RelayAsks, DynAsks, Sender
    <2>2. ASSUME NEW h \in Handlers, RelayReserves(h) PROVE RelayAsks' /\ DynAsks'
      <3>1. dyn' = dyn /\ \A m \in make' : m \in make \/ m.by = "relay"
        BY <2>2 DEF RelayReserves
      <3>2. DynAsks'
        BY <1>2, <3>1, DynAsksStay DEF SameRequest
      <3> QED
        BY <1>2, <2>2, <3>2, ReserveAsks
    <2>3. CASE DynamicExit /\ \A h \in Handlers : ~RelayReserves(h)
      <3>1. \A k \in Keys, a \in Actions : res[k][a] # "NONE" => res'[k][a] # "NONE"
        BY <1>2, <2>3, OthersKeep DEF Next
      <3>2. DynAsks' /\ relay' = relay /\ \A m \in make' : m \in make \/ m.by # "relay"
        BY <1>2, <2>3, ManagerAsks
      <3> QED
        BY <1>2, <3>1, <3>2, RelayAsksStay DEF SameRequest
    <2>4. CASE Next /\ ~DynamicExit /\ \A h \in Handlers : ~RelayReserves(h)
      <3>1. \A k \in Keys, a \in Actions : res[k][a] # "NONE" => res'[k][a] # "NONE"
        BY <1>2, <2>4, OthersKeep
      <3> QED
        BY <1>2, <2>4, <3>1, OthersAsk, RelayAsksStay, DynAsksStay
    <2> QED
      BY <1>2, <2>1, <2>2, <2>3, <2>4
  <1> QED
    BY <1>1, <1>2, TypesHold, LinksHold, PTL DEF Spec
(***************************************************************************)
(* The stop of a list never changes once it is placed, so a level a file,  *)
(* a request or a process holds of it stays true however old it is.        *)
(***************************************************************************)
FileLevels(file, ls) ==
  \A k \in Keys :
    file[k].st = "OCO_ACTIVE" /\ file[k].list \in Lists =>
      file[k].stop = ls[file[k].list].stop
RelayLevels(row, ls) ==
  row.pc \in {"checked", "posted"} /\ row.a = "OCO" /\ row.ans \in Lists =>
    ls[row.ans].stop = row.stop
DynLevels(row, ls) ==
  row.pc \in {"new", "old"} /\ row.ans \in Lists => ls[row.ans].stop = Asked(row)
Levels ==
  /\ FileLevels(pos, lists)
  /\ recon.pc = "save" => FileLevels(recon.copy, lists)
  /\ \A h \in Handlers : RelayLevels(relay[h], lists)
  /\ DynLevels(dyn, lists)
SameLevels(old, new) == \A l \in Lists : old[l].st # "none" => new[l].stop = old[l].stop

LEMMA FileLevelsStay ==
  ASSUME NEW old, NEW new, SameLevels(old, new), NEW file, FileLinks(file, old),
         FileLevels(file, old)
  PROVE  FileLevels(file, new)
  <1> SUFFICES ASSUME NEW k \in Keys, file[k].st = "OCO_ACTIVE", file[k].list \in Lists
               PROVE  file[k].stop = new[file[k].list].stop
    BY DEF FileLevels
  <1>1. old[file[k].list].st # "none"
    BY DEF FileLinks, Owned, Lists
  <1> QED
    BY <1>1 DEF FileLevels, SameLevels

LEMMA LevelsStay ==
  ASSUME TypeInv, Links, Levels, SameLevels(lists, lists')
  PROVE  /\ FileLevels(pos, lists')
         /\ recon.pc = "save" => FileLevels(recon.copy, lists')
         /\ \A h \in Handlers : RelayLevels(relay[h], lists')
         /\ DynLevels(dyn, lists')
  <1>1. FileLevels(pos, lists') /\ (recon.pc = "save" => FileLevels(recon.copy, lists'))
    BY FileLevelsStay DEF Links, ReconLinks, Levels
  <1>2. \A h \in Handlers : RelayLevels(relay[h], lists')
    BY DEF Links, RelayLinks, Levels, RelayLevels, SameLevels, Owned
  <1>3. DynLevels(dyn, lists')
    BY DEF Links, DynLinks, Levels, DynLevels, SameLevels, Owned
  <1> QED
    BY <1>1, <1>2, <1>3

\* A list Make placed has the stop of the request, which is what the answered
\* process asked for.
LEMMA AnswerLevels ==
  ASSUME TypeInv, Links, Levels, RelayAsks, DynAsks, SameLevels(lists, lists'),
         NEW m \in make, NEW ans, Answer(m, ans),
         m.a = "OCO" /\ ans \in Lists => lists'[ans].stop = m.stop
  PROVE  (\A h \in Handlers : RelayLevels(relay'[h], lists')) /\ DynLevels(dyn', lists')
  <1>1. ASSUME NEW h \in Handlers PROVE RelayLevels(relay'[h], lists')
    <2>1. relay[h] \in RelayRows /\ RelayLevels(relay[h], lists')
      BY LevelsStay DEF TypeInv, RelayOK
    <2>2. CASE Sender(h, m)
      <3>1. relay'[h] = [relay[h] EXCEPT !.ans = ans]
        BY <2>2 DEF Answer
      <3>2. /\ relay'[h].a = relay[h].a /\ relay'[h].stop = relay[h].stop /\ relay'[h].ans = ans
            /\ relay[h].a = m.a /\ m.stop = relay[h].stop
        BY <2>1, <2>2, <3>1 DEF RelayRows, Sender, RelayAsks
      <3> QED
        BY <3>2 DEF RelayLevels
    <2>3. CASE ~Sender(h, m)
      BY <2>1, <2>3 DEF Answer
    <2> QED
      BY <2>2, <2>3
  <1>2. DynLevels(dyn', lists')
    <2>1. dyn \in DynRows /\ DynLevels(dyn, lists') /\ m.a \in Actions
      BY LevelsStay DEF TypeInv, DynOK, MakeOK, Requests
    <2>2. CASE dyn.pc = m.by /\ dyn.k = m.k
      <3>1. dyn' = [dyn EXCEPT !.ans = ans] /\ m.stop = Asked(dyn)
        BY <2>2 DEF Answer, DynAsks
      <3>2. m.a = "OCO"
        BY <2>1, <2>2 DEF Links, MakeLinks, DynRows, DynPcs, Actions
      <3>3. dyn'.pc = dyn.pc /\ dyn'.stop = dyn.stop /\ dyn'.ans = ans
        BY <2>1, <3>1 DEF DynRows
      <3> QED
        BY <3>1, <3>2, <3>3 DEF DynLevels, Asked
    <2>3. CASE ~(dyn.pc = m.by /\ dyn.k = m.k)
      BY <2>1, <2>3 DEF Answer
    <2> QED
      BY <2>2, <2>3
  <1> QED
    BY <1>1, <1>2

LEMMA WorldLevels ==
  ASSUME TypeInv, Links, Levels, RelayAsks, DynAsks, World
  PROVE  Levels'
  <1> USE DEF files, binance, procs
  <1>0. lists \in [Lists -> ListRows]
    BY DEF TypeInv, ListsOK
  <1>a. ASSUME SameLevels(lists, lists'), UNCHANGED <<pos, recon>>,
               NEW m \in make, NEW ans, Answer(m, ans),
               m.a = "OCO" /\ ans \in Lists => lists'[ans].stop = m.stop
        PROVE  Levels'
    BY <1>a, LevelsStay, AnswerLevels DEF Levels
  <1>b. ASSUME SameLevels(lists, lists'), UNCHANGED <<pos, procs>> PROVE Levels'
    BY <1>b, LevelsStay DEF Levels
  <1>c. lists' = lists => SameLevels(lists, lists')
    BY DEF SameLevels
  <1>1. ASSUME NEW m \in make, MakeBuys(m) PROVE Levels'
    BY <1>1, <1>a, <1>c DEF MakeBuys
  <1>2. ASSUME NEW m \in make, MakePlaces(m) PROVE Levels'
    <2>1. CASE lists' = lists /\ Answer(m, Refused)
      <3>1. Refused \notin Lists
        BY FilesAssumption DEF Refused, Lists, FilesAssumption
      <3> QED
        BY <1>2, <1>a, <1>c, <2>1, <3>1 DEF MakePlaces
    <2>2. ASSUME NEW l \in Unused, Answer(m, l),
                 lists' = [lists EXCEPT ![l] =
                     [st |-> "open", sig |-> SignalOf(m.k), k |-> m.k, by |-> m.by,
                      sold |-> 0, stop |-> m.stop]]
          PROVE  Levels'
      <3>1. SameLevels(lists, lists') /\ lists'[l].stop = m.stop
        BY <1>0, <2>2 DEF SameLevels, Unused
      <3> QED
        BY <1>2, <1>a, <2>2, <3>1 DEF MakePlaces
    <2> QED
      BY <1>2, <2>1, <2>2 DEF MakePlaces
  <1>3. ASSUME NEW m \in make, MakeDrops(m) PROVE Levels'
    BY <1>3, <1>b, <1>c DEF MakeDrops
  <1>4. ASSUME NEW l \in Lists, ListSells(l) PROVE Levels'
    <2> DEFINE sold == [lists EXCEPT ![l].sold = @ + 1]
    <2>1. sold \in [Lists -> ListRows] /\ \A j \in Lists : sold[j].stop = lists[j].stop
      BY <1>0 DEF ListRows
    <2>2. lists' = [sold EXCEPT ![l].st = IF lists[l].sold + 1 = Units THEN "ended" ELSE "open"]
      BY <1>4 DEF ListSells
    <2> HIDE DEF sold
    <2>3. SameLevels(lists, lists')
      BY <2>1, <2>2 DEF SameLevels, ListRows
    <2> QED
      BY <1>4, <1>b, <2>3 DEF ListSells
  <1>5. ASSUME NEW l \in Lists, OwnerCancels(l) PROVE Levels'
    <2>1. SameLevels(lists, lists')
      BY <1>0, <1>5 DEF OwnerCancels, SameLevels, ListRows
    <2> QED
      BY <1>5, <1>b, <2>1 DEF OwnerCancels
  <1> QED
    BY <1>1, <1>2, <1>3, <1>4, <1>5 DEF World

LEMMA BuyLevels ==
  ASSUME FilesOK, NEW ls, FileLevels(pos, ls), NEW k \in Keys
  PROVE  FileLevels(BuyPosition(k), ls)
  <1>1. \A j \in Keys : BuyPosition(k)[j] = pos[j] \/ BuyPosition(k)[j].st = "BUY_FILLED"
    BY DEF BuyPosition, FilesOK, PositionFiles, Positions
  <1> QED
    BY <1>1 DEF FileLevels

LEMMA OcoLevels ==
  ASSUME FilesOK, NEW ls, FileLevels(pos, ls), NEW k \in Keys, NEW l, NEW stop,
         l \in Lists => ls[l].stop = stop
  PROVE  FileLevels(OcoPosition(k, l, stop), ls)
  BY DEF OcoPosition, FileLevels, FilesOK, PositionFiles

LEMMA StatusLevels ==
  ASSUME FilesOK, NEW ls, FileLevels(pos, ls), NEW k \in Keys, NEW status,
         status # "OCO_ACTIVE", SetStatus(k, status)
  PROVE  FileLevels(pos', ls)
  <1>1. \A j \in Keys : pos'[j] = pos[j] \/ pos'[j].st = status
    BY DEF SetStatus, FilesOK, PositionFiles, Positions
  <1> QED
    BY <1>1 DEF FileLevels

LEMMA RelayKeepsLevels == ASSUME TypeInv, Levels, NEW h \in Handlers, Relay(h) PROVE Levels'
  <1> USE DEF TypeInv, files, external, binance
  <1>0. /\ relay \in [Handlers -> RelayRows] /\ RelayLevels(relay[h], lists)
        /\ relay[h].k \in Keys /\ NoAnswer \notin Lists
    BY DEF RelayOK, RelayRows, Levels, NoAnswer, Lists
  <1>1. FileLevels(pos', lists)
    <2>1. CASE RelayRecords(h)
      BY <1>0, <2>1, BuyLevels, OcoLevels
         DEF RelayRecords, RecordBuy, RecordOco, Levels, RelayLevels
    <2>2. CASE RelayMarksPending(h)
      BY <1>0, <2>2, StatusLevels DEF RelayMarksPending, Levels
    <2>3. CASE ~RelayRecords(h) /\ ~RelayMarksPending(h)
      BY <2>3 DEF Relay, RelayChecks, RelayReserves, RelayBlocksDuplicate, RelayRejects,
                  RelayLosesAnswer, Levels
    <2> QED
      BY <2>1, <2>2, <2>3
  <1>2. UNCHANGED <<lists, recon, dyn>>
    BY DEF Relay, RelayChecks, RelayReserves, RelayBlocksDuplicate, RelayRecords,
           RelayMarksPending, RelayRejects, RelayLosesAnswer
  <1>3. PICK row : RelayStep(h, row) /\ RelayLevels(row, lists)
    <2>1. RelayLevels(IdleHandler(AnyKey), lists)
      BY DEF IdleHandler, RelayLevels
    <2>2. \A k, a, stop : Receives(h, k, a, stop) =>
            \E row : RelayStep(h, row) /\ RelayLevels(row, lists)
      BY <1>0 DEF Receives, RelayLevels
    <2>3. RelayLevels([relay[h] EXCEPT !.pc = "bought"], lists)
      BY <1>0 DEF RelayLevels, RelayRows
    <2>4. relay[h].pc = "checked" => RelayLevels([relay[h] EXCEPT !.pc = "posted"], lists)
      BY <1>0 DEF RelayLevels, RelayRows
    <2> QED
      BY <2>1, <2>2, <2>3, <2>4
         DEF Relay, RelayChecks, RelayReserves, RelayBlocksDuplicate, RelayRecords,
             RelayMarksPending, RelayRejects, RelayLosesAnswer, RelayDone
  <1> QED
    BY <1>0, <1>1, <1>2, <1>3 DEF Levels, RelayStep

LEMMA RecoveryKeepsLevels == ASSUME TypeInv, Levels, Recovery PROVE Levels'
  <1> USE DEF TypeInv, files, external, binance
  <1>0. recov.k \in Keys /\ relay \in [Handlers -> RelayRows] /\ NoAnswer \notin Lists
    BY DEF RecovOK, RecovRows, RelayOK, NoAnswer, Lists
  <1>1. FileLevels(pos', lists)
    <2>1. CASE RecovRecordsBuy
      BY <1>0, <2>1, BuyLevels DEF RecovRecordsBuy, RecordBuy, Levels
    <2>2. CASE RecovMarksPending
      BY <1>0, <2>2, StatusLevels DEF RecovMarksPending, Levels
    <2>3. CASE RecovRecordsOco
      BY <1>0, <2>3, OcoLevels DEF RecovRecordsOco, RecordOco, Levels
    <2>4. CASE ~RecovRecordsBuy /\ ~RecovMarksPending /\ ~RecovRecordsOco
      BY <2>4 DEF Recovery, RecovQueriesBuy, RecovQueriesOco, RecovProtects, Levels
    <2> QED
      BY <2>1, <2>2, <2>3, <2>4
  <1>2. UNCHANGED <<lists, recon, dyn>>
    BY DEF Recovery, RecovQueriesBuy, RecovRecordsBuy, RecovMarksPending, RecovQueriesOco,
           RecovRecordsOco, RecovProtects
  <1>3. \A h \in Handlers : RelayLevels(relay'[h], lists)
    <2>1. CASE relay' = relay
      BY <2>1 DEF Levels
    <2>2. ASSUME NEW h \in Handlers, NEW k, Receives(h, k, "OCO", pos[k].stop)
          PROVE  \A g \in Handlers : RelayLevels(relay'[g], lists)
      BY <1>0, <2>2 DEF Receives, RelayStep, RelayLevels, Levels
    <2> QED
      BY <2>1, <2>2
         DEF Recovery, RecovQueriesBuy, RecovRecordsBuy, RecovMarksPending, RecovQueriesOco,
             RecovRecordsOco, RecovProtects
  <1> QED
    BY <1>1, <1>2, <1>3 DEF Levels

LEMMA ReconcilerKeepsLevels == ASSUME TypeInv, Levels, Reconciler PROVE Levels'
  <1> USE DEF TypeInv, files, external, binance
  <1>0. recon \in ReconRows /\ recon.k \in Keys /\ IdleRecon.pc = "idle"
    BY IdleRows DEF ReconOK, ReconRows
  <1>1. UNCHANGED <<lists, relay, dyn>>
    BY DEF Reconciler, ReconLists, ReconFindsUnknown, ReconLoads, ReconSaves, ReconScans,
           ReconQueries, ReconCloses, ReconMarksLost, ReconEndsReservation, ReconEnds, ReconFails
  <1>2. FileLevels(pos', lists)
    <2>1. CASE ReconSaves
      <3>1. PICK l \in Lists : recon.k = Rec(l)
        BY <2>1 DEF ReconSaves, ReconOK
      <3>2. /\ recon.k[2] = l /\ recon.copy \in PositionFiles /\ FileLevels(recon.copy, lists)
            /\ pos' = [recon.copy EXCEPT ![Rec(l)] =
                         [st |-> "OCO_ACTIVE", list |-> l, stop |-> lists[l].stop]]
        BY <2>1, <3>1 DEF ReconSaves, ReconOK, Levels, Rec
      <3> QED
        BY <3>2 DEF FileLevels, PositionFiles
    <2>2. CASE ReconCloses \/ ReconMarksLost
      BY <1>0, <2>2, StatusLevels DEF ReconCloses, ReconMarksLost, ClosePosition, Levels
    <2>3. CASE ~ReconSaves /\ ~ReconCloses /\ ~ReconMarksLost
      BY <2>3 DEF Reconciler, ReconLists, ReconFindsUnknown, ReconLoads, ReconScans, ReconQueries,
                  ReconEndsReservation, ReconEnds, ReconFails, Levels
    <2> QED
      BY <2>1, <2>2, <2>3
  <1>3. recon'.pc = "save" => FileLevels(recon'.copy, lists)
    <2>1. ASSUME NEW l \in Lists, ReconLoads(l) PROVE recon'.pc = "save" => FileLevels(recon'.copy, lists)
      <3>1. CASE Tracked(Rec(l))
        <4>1. recon' = [recon EXCEPT !.todo = @ \ {l}] /\ recon.pc = "rebuild"
          BY <2>1, <3>1 DEF ReconLoads, ReconStep
        <4> QED
          BY <1>0, <4>1 DEF ReconRows
      <3>2. CASE ~Tracked(Rec(l))
        <4>1. recon' = [recon EXCEPT !.pc = "save", !.copy = pos, !.k = Rec(l)]
          BY <2>1, <3>2 DEF ReconLoads, ReconStep
        <4>2. recon'.copy = pos
          BY <1>0, <4>1 DEF ReconRows
        <4> QED
          BY <4>2 DEF Levels
      <3> QED
        BY <3>1, <3>2
    <2>2. CASE \A l \in Lists : ~ReconLoads(l)
      <3>1. CASE ReconScans
        BY <1>0, <3>1 DEF ReconScans, ReconStep, IdleRecon
      <3>2. ASSUME NEW k \in Keys, NEW l \in Lists, ReconQueries(k, l) PROVE recon'.pc # "save"
        <4>1. PICK pc \in {"scan", "close", "lost", "marked"} :
                recon' = [recon EXCEPT !.pc = pc, !.k = k, !.ended = @ \ {<<k, l>>}]
          BY <3>2 DEF ReconQueries, ReconLooks, ReconStep
        <4> QED
          BY <1>0, <4>1 DEF ReconRows
      <3>3. CASE ReconLists \/ ReconFindsUnknown \/ ReconSaves \/ ReconCloses \/ ReconMarksLost
                 \/ ReconEndsReservation \/ ReconEnds \/ ReconFails
        BY <1>0, <3>3 DEF ReconLists, ReconFindsUnknown, ReconSaves, ReconCloses, ReconMarksLost,
                          ReconEndsReservation, ReconEnds, ReconFails, ReconStep, ReconRows
      <3> QED
        BY <2>2, <3>1, <3>2, <3>3 DEF Reconciler
    <2> QED
      BY <2>1, <2>2
  <1> QED
    BY <1>1, <1>2, <1>3 DEF Levels

LEMMA DynamicKeepsLevels == ASSUME TypeInv, Links, Levels, DynamicExit PROVE Levels'
  <1> USE DEF TypeInv, files, external, binance
  <1>0. dyn \in DynRows /\ dyn.k \in Keys /\ IdleDyn.pc = "idle" /\ NoAnswer \notin Lists
        /\ lists \in [Lists -> ListRows]
    BY IdleRows DEF DynOK, DynRows, NoAnswer, Lists, ListsOK
  <1>1. FileLevels(pos', lists)
    <2>1. CASE DynRecords
      <3> DEFINE stop == IF dyn.pc = "new" THEN dyn.stop + 1 ELSE dyn.stop
      <3>1. lists[dyn.ans].stop = stop
        BY <2>1 DEF DynRecords, Levels, DynLevels, Asked
      <3>2. pos' = OcoPosition(dyn.k, dyn.ans, stop) \/ pos' = pos
        BY <2>1 DEF DynRecords
      <3> QED
        BY <1>0, <3>1, <3>2, OcoLevels DEF Levels
    <2>2. CASE DynMarksPending \/ DynFailsOld
      BY <1>0, <2>2, StatusLevels DEF DynMarksPending, DynFailsOld, Levels
    <2>3. CASE ~DynRecords /\ ~DynMarksPending /\ ~DynFailsOld
      BY <2>3 DEF DynamicExit, DynLooks, DynCancels, DynPlaces, DynRollsBack, DynSends, DynFailsNew,
                  DynEndsReservation, Levels
    <2> QED
      BY <2>1, <2>2, <2>3
  <1>2. UNCHANGED <<recon, relay>> /\ (pos' = pos \/ lists' = lists)
    BY DEF DynamicExit, DynLooks, DynCancels, DynMarksPending, DynPlaces, DynRollsBack, DynSends,
           DynRecords, DynFailsNew, DynFailsOld, DynEndsReservation
  <1>3. SameLevels(lists, lists')
    <2>1. CASE DynCancels
      BY <1>0, <2>1 DEF DynCancels, SameLevels, ListRows
    <2>2. CASE ~DynCancels
      BY <2>2 DEF DynamicExit, DynLooks, DynMarksPending, DynPlaces, DynRollsBack, DynSends,
                  DynRecords, DynFailsNew, DynFailsOld, DynEndsReservation, SameLevels
    <2> QED
      BY <2>1, <2>2
  <1>4. DynLevels(dyn', lists')
    <2>1. ASSUME NEW by, NEW from, NEW stop, DynSends(from, by, stop) PROVE DynLevels(dyn', lists')
      <3>1. dyn'.pc = "idle" \/ dyn'.ans = NoAnswer
        BY <1>0, <2>1 DEF DynSends, DynStep, DynRows
      <3> QED
        BY <1>0, <3>1 DEF DynLevels
    <2>2. CASE ~DynPlaces /\ ~DynRollsBack
      <3>1. dyn'.pc \notin {"new", "old"}
        BY <1>0, <2>2 DEF DynamicExit, DynLooks, DynCancels, DynMarksPending, DynRecords,
                          DynFailsNew, DynFailsOld, DynEndsReservation, DynStep, DynRows
      <3> QED
        BY <3>1 DEF DynLevels
    <2> QED
      BY <2>1, <2>2 DEF DynPlaces, DynRollsBack
  <1> QED
    BY <1>1, <1>2, <1>3, <1>4, LevelsStay DEF Levels

LEMMA CrashKeepsLevels == ASSUME TypeInv, Levels, Crash \/ CrashInRecord PROVE Levels'
  <1> USE DEF TypeInv, files, external, binance
  <1>1. /\ \A h \in Handlers : RelayLevels(relay'[h], lists)
        /\ recon'.pc # "save" /\ DynLevels(dyn', lists) /\ lists' = lists
    BY DEF Crash, CrashInRecord, Restarted, IdleHandler, IdleRecon, IdleDyn, RelayLevels, DynLevels
  <1>2. \A h \in Handlers : relay[h].k \in Keys /\ relay[h].a \in Actions /\ RelayLevels(relay[h], lists)
    BY DEF RelayOK, RelayRows, Levels
  <1>3. recov.k \in Keys
    BY DEF RecovOK, RecovRows
  <1>4. FileLevels(pos', lists)
    BY <1>2, <1>3, BuyLevels, OcoLevels DEF Crash, CrashInRecord, Levels, RelayLevels, Actions
  <1> QED
    BY <1>1, <1>4 DEF Levels

\* The stop on file of an active position is the stop of its list at Binance,
\* over late answers, rollbacks, recoveries, rebuilds and crashes: the level the
\* manager raises is the one in force.
THEOREM StopOnFileIsLiveHolds == Spec => []StopOnFileIsLive
  <1>1. Init => Levels
    <2> SUFFICES ASSUME Init PROVE Levels
      OBVIOUS
    <2>1. FileLevels(pos, lists)
      BY DEF Init, FilesInit, FileLevels
    <2>2. recon.pc = "idle" /\ dyn.pc = "idle" /\ \A h \in Handlers : relay[h].pc = "idle"
      BY IdleRows DEF Init, IdleHandler
    <2> QED
      BY <2>1, <2>2 DEF Levels, RelayLevels, DynLevels
  <1>2. TypeInv /\ Links /\ Levels /\ RelayAsks /\ DynAsks /\ [Next]_vars => Levels'
    <2> SUFFICES ASSUME TypeInv, Links, Levels, RelayAsks, DynAsks, [Next]_vars PROVE Levels'
      OBVIOUS
    <2>1. CASE Next
      BY <2>1, WorldLevels, RelayKeepsLevels, RecoveryKeepsLevels, ReconcilerKeepsLevels,
         DynamicKeepsLevels, CrashKeepsLevels DEF Next
    <2>2. CASE UNCHANGED vars
      BY <2>2 DEF vars, files, external, binance, procs, Levels
    <2> QED
      BY <2>1, <2>2
  <1>3. Levels => StopOnFileIsLive
    BY DEF Levels, FileLevels, StopOnFileIsLive
  <1> QED
    BY <1>1, <1>2, <1>3, TypesHold, LinksHold, AsksHold, PTL DEF Spec

(***************************************************************************)
(* What became of a BUY.                                                   *)
(***************************************************************************)
BuyRow(row) == row.pc # "idle" /\ row.a = "BUY"
BoughtOK == bought \in [Signals -> {"none", "filled", "dead"}]
\* a BUY at Make is of a signal that was reserved and not bought, and the only one
BuyAtMake ==
  \A m \in make : m.a = "BUY" =>
    /\ m.k \in Signals /\ bought[m.k] = "none" /\ res[m.k]["BUY"] # "NONE"
    /\ \A n \in make : n.a = "BUY" /\ n.k = m.k => n = m
\* who serves a BUY serves one of a signal whose files were not lost, and is told
\* of a refusal only where nothing was bought or Make was misled
BuyServed ==
  /\ \A h \in Handlers : BuyRow(relay[h]) =>
       /\ relay[h].k \in Signals \ Leftover
       /\ relay[h].pc # "bought" /\ relay[h].ans = Refused =>
            bought[relay[h].k] = "dead" \/ relay[h].k \in misled
  /\ recov.pc \in {"buy", "bought"} => recov.k \in Signals
NotReservedNotBought ==
  \A s \in Signals \ Leftover : res[s]["BUY"] = "NONE" => bought[s] = "none"
FateInv == BoughtOK /\ BuyAtMake /\ BuyServed /\ NotReservedNotBought
\* a reserved BUY is dead, on record, or waits to be resolved
FateKnown ==
  \A s \in Signals \ (Leftover \cup misled) :
    res[s]["BUY"] # "NONE" => bought[s] = "dead" \/ Tracked(s) \/ res[s]["BUY"] \in Unresolved
\* the whole state that a rebuild is about to save lacks no signal
CopyIsFresh ==
  recon.pc = "save" => \A s \in Signals : Tracked(s) => recon.copy[s].st # "NONE"
AllTracked == \A s \in Signals : Tracked(s)
Started ==
  \/ \E l \in Lists : lists[l].st # "none"
  \/ \E m \in make : m.a = "OCO"
  \/ \E h \in Handlers : relay[h].pc # "idle" /\ relay[h].a = "OCO"
  \/ \E k \in Keys : Tracked(k)
  \/ dyn.pc # "idle" \/ recov.pc = "oco"
TrackedFirst ==
  /\ Started => AllTracked
  /\ recon.pc = "save" => \A s \in Signals : recon.copy[s].st # "NONE"

\* A signal that is on record stays there, unless a rebuild saves an older state.
LEMMA HelpersTrack ==
  ASSUME FilesOK, NEW s \in Keys, Tracked(s), NEW k \in Keys
  PROVE  /\ BuyPosition(k)[s].st # "NONE"
         /\ \A l, stop : OcoPosition(k, l, stop)[s].st # "NONE"
         /\ \A st : st # "NONE" /\ SetStatus(k, st) => Tracked(s)'
<1>1. pos \in [Keys -> Positions]
  BY DEF FilesOK, PositionFiles
<1> DEFINE filled == [pos EXCEPT ![k].st = "BUY_FILLED"]
<1>2. BuyPosition(k)[s].st # "NONE"
  <2>1. filled \in [Keys -> Positions] /\ filled[s].st # "NONE"
    BY <1>1 DEF Positions, Tracked
  <2> HIDE DEF filled
  <2>2. [filled EXCEPT ![k].stop = 1][s].st = filled[s].st
    BY <2>1 DEF Positions
  <2> QED BY <2>1, <2>2 DEF BuyPosition, filled
<1>3. \A l, stop : OcoPosition(k, l, stop)[s].st # "NONE"
  BY <1>1 DEF OcoPosition, Tracked
<1>4. \A st : st # "NONE" /\ SetStatus(k, st) => Tracked(s)'
  BY <1>1 DEF SetStatus, Tracked, Positions
<1> QED BY <1>2, <1>3, <1>4

LEMMA TrackedStays ==
  ASSUME TypeInv, CopyIsFresh, Next, NEW s \in Signals, Tracked(s)
  PROVE  Tracked(s)'
<1> USE DEF TypeInv, files, external, binance, procs
<1>0. s \in Keys
  BY DEF Keys
<1>a. pos' = pos => Tracked(s)'
  BY DEF Tracked
<1>b. \A k \in Keys : pos' = BuyPosition(k) => Tracked(s)'
  BY <1>0, HelpersTrack DEF Tracked
<1>c. \A k \in Keys : \A l, stop : pos' = OcoPosition(k, l, stop) => Tracked(s)'
  BY <1>0, HelpersTrack DEF Tracked
<1>d. \A k \in Keys : \A st : st # "NONE" /\ SetStatus(k, st) => Tracked(s)'
  BY <1>0, HelpersTrack
<1>1. CASE World
  BY <1>1, <1>a DEF World, MakeBuys, MakePlaces, MakeDrops, ListSells, OwnerCancels
<1>2. ASSUME NEW h \in Handlers, Relay(h) PROVE Tracked(s)'
  <2>1. relay[h].k \in Keys
    BY DEF RelayOK, RelayRows
  <2>2. CASE RelayRecords(h)
    BY <1>b, <1>c, <2>1, <2>2 DEF RelayRecords, RecordBuy, RecordOco
  <2>3. CASE RelayMarksPending(h)
    BY <1>d, <2>1, <2>3 DEF RelayMarksPending
  <2>4. CASE RelayChecks(h) \/ RelayReserves(h) \/ RelayBlocksDuplicate(h)
             \/ RelayRejects(h) \/ RelayLosesAnswer(h)
    BY <1>a, <2>4 DEF RelayChecks, RelayReserves, RelayBlocksDuplicate, RelayRejects, RelayLosesAnswer
  <2> QED BY <1>2, <2>2, <2>3, <2>4 DEF Relay
<1>3. CASE Recovery
  <2>1. recov.k \in Keys
    BY DEF RecovOK, RecovRows
  <2>2. CASE RecovRecordsBuy
    BY <1>b, <2>1, <2>2 DEF RecovRecordsBuy, RecordBuy
  <2>3. CASE RecovRecordsOco
    BY <1>c, <2>1, <2>3 DEF RecovRecordsOco, RecordOco
  <2>4. CASE RecovMarksPending
    BY <1>d, <2>1, <2>4 DEF RecovMarksPending
  <2>5. CASE (\E k \in Signals : RecovQueriesBuy(k))
             \/ \E k \in Keys : RecovQueriesOco(k) \/ RecovProtects(k)
    BY <1>a, <2>5 DEF RecovQueriesBuy, RecovQueriesOco, RecovProtects
  <2> QED BY <1>3, <2>2, <2>3, <2>4, <2>5 DEF Recovery
<1>4. CASE Reconciler
  <2>1. recon.k \in Keys
    BY DEF ReconOK, ReconRows
  <2>2. CASE ReconSaves
    <3>1. recon.pc = "save" /\ recon.copy[s].st # "NONE" /\ recon.copy \in PositionFiles
      BY <2>2 DEF ReconSaves, CopyIsFresh, ReconOK
    <3>2. PICK l : pos' = [recon.copy EXCEPT ![Rec(l)] =
                            [st |-> "OCO_ACTIVE", list |-> l, stop |-> lists[l].stop]]
      BY <2>2 DEF ReconSaves
    <3> QED BY <1>0, <3>1, <3>2 DEF Tracked, PositionFiles
  <2>3. CASE ReconCloses
    BY <1>d, <2>1, <2>3 DEF ReconCloses, ClosePosition
  <2>4. CASE ReconMarksLost
    BY <1>d, <2>1, <2>4 DEF ReconMarksLost
  <2>5. CASE ReconLists \/ ReconFindsUnknown \/ ReconScans \/ ReconEnds \/ ReconFails
             \/ ReconEndsReservation
             \/ (\E l \in Lists : ReconLoads(l)) \/ \E k \in Keys, l \in Lists : ReconQueries(k, l)
    BY <1>a, <2>5 DEF ReconLists, ReconFindsUnknown, ReconScans, ReconEnds, ReconFails, ReconLoads,
                      ReconQueries, ReconEndsReservation
  <2> QED BY <1>4, <2>2, <2>3, <2>4, <2>5 DEF Reconciler
<1>5. CASE DynamicExit
  <2>1. dyn.k \in Keys
    BY DEF DynOK, DynRows
  <2>2. CASE DynMarksPending \/ DynFailsOld
    BY <1>d, <2>1, <2>2 DEF DynMarksPending, DynFailsOld
  <2>3. CASE DynRecords
    BY <1>a, <1>c, <2>1, <2>3 DEF DynRecords
  <2>4. CASE (\E k \in Keys : DynLooks(k)) \/ DynCancels \/ DynPlaces \/ DynRollsBack \/ DynFailsNew
             \/ DynEndsReservation
    BY <1>a, <2>4 DEF DynLooks, DynCancels, DynPlaces, DynRollsBack, DynSends, DynFailsNew,
                      DynEndsReservation
  <2> QED BY <1>5, <2>2, <2>3, <2>4 DEF DynamicExit
<1>6. CASE Crash \/ CrashInRecord
  <2>1. \A h \in Handlers : relay[h].k \in Keys
    BY DEF RelayOK, RelayRows
  <2>2. recov.k \in Keys
    BY DEF RecovOK, RecovRows
  <2>3. CASE Crash
    BY <1>a, <2>3 DEF Crash
  <2>4. CASE CrashInRecord
    <3>1. \/ \E k \in Keys : pos' = BuyPosition(k)
          \/ \E k \in Keys : \E l, stop : pos' = OcoPosition(k, l, stop)
      BY <2>1, <2>2, <2>4 DEF CrashInRecord
    <3> QED BY <1>b, <1>c, <3>1
  <2> QED BY <1>6, <2>3, <2>4
<1> QED BY <1>1, <1>2, <1>3, <1>4, <1>5, <1>6 DEF Next

(***************************************************************************)
(* The fate of a BUY is known.                                             *)
(***************************************************************************)
LEMMA FateStarts == Init => FateInv /\ FateKnown
<1> SUFFICES ASSUME Init PROVE FateInv /\ FateKnown
  OBVIOUS
<1>0. Signals \subseteq Keys /\ "BUY" \in Actions
  BY DEF Keys, Actions
<1>1. \A s \in Signals : res[s]["BUY"] = "NONE"
  BY <1>0 DEF Init, FilesInit
<1>2. BoughtOK
  BY DEF Init, BoughtOK
<1>3. BuyAtMake
  BY DEF Init, BuyAtMake
<1>4. BuyServed
  BY DEF Init, BuyServed, BuyRow, IdleHandler, IdleRecov
<1>5. NotReservedNotBought
  BY DEF Init, NotReservedNotBought
<1> QED BY <1>1, <1>2, <1>3, <1>4, <1>5 DEF FateInv, FateKnown

\* what the helpers do to the rows of BUYs
LEMMA BuyRows ==
  ASSUME FilesOK, NEW k \in Keys, NEW a \in Actions, NEW status, status # "NONE",
         SetReservation(k, a, status), NEW s \in Signals
  PROVE  /\ res'[s]["BUY"] = "NONE" <=> res[s]["BUY"] = "NONE"
         /\ ~(k = s /\ a = "BUY") => res'[s]["BUY"] = res[s]["BUY"]
<1>1. s \in Keys /\ "BUY" \in Actions
  BY DEF Keys, Actions
<1> QED BY <1>1 DEF SetReservation, FilesOK

\* steps that buy nothing and send no BUY
LEMMA FateQuiet ==
  ASSUME FateInv, bought' = bought, misled' = misled,
         \A m \in make' : m.a = "BUY" => m \in make,
         \A h \in Handlers : BuyRow(relay'[h]) =>
           /\ relay'[h].k \in Signals \ Leftover
           /\ relay'[h].pc # "bought" /\ relay'[h].ans = Refused =>
                bought[relay'[h].k] = "dead" \/ relay'[h].k \in misled,
         recov'.pc \in {"buy", "bought"} => recov'.k \in Signals,
         \A s \in Signals : res'[s]["BUY"] = "NONE" <=> res[s]["BUY"] = "NONE"
  PROVE  FateInv'
<1>1. BoughtOK'
  BY DEF FateInv, BoughtOK
<1>2. BuyAtMake'
  BY DEF FateInv, BuyAtMake
<1>3. BuyServed'
  BY DEF BuyServed, BuyRow, Refused
<1>4. NotReservedNotBought'
  BY DEF FateInv, NotReservedNotBought
<1> QED BY <1>1, <1>2, <1>3, <1>4 DEF FateInv

\* one handler moves
LEMMA OneHandler ==
  ASSUME TypeInv, FateInv, NEW h \in Handlers, NEW row, RelayStep(h, row),
         BuyRow(row) =>
           /\ row.k \in Signals \ Leftover
           /\ row.pc # "bought" /\ row.ans = Refused => bought[row.k] = "dead" \/ row.k \in misled,
         NEW g \in Handlers, BuyRow(relay'[g])
  PROVE  /\ relay'[g].k \in Signals \ Leftover
         /\ relay'[g].pc # "bought" /\ relay'[g].ans = Refused =>
              bought[relay'[g].k] = "dead" \/ relay'[g].k \in misled
<1>1. relay' = [relay EXCEPT ![h] = row] /\ relay \in [Handlers -> RelayRows]
  BY DEF RelayStep, TypeInv, RelayOK
<1>2. CASE g = h
  BY <1>1, <1>2
<1>3. CASE g # h
  <2>1. relay'[g] = relay[g]
    BY <1>1, <1>3
  <2> QED BY <2>1 DEF FateInv, BuyServed
<1> QED BY <1>2, <1>3

LEMMA SameHandlers ==
  ASSUME FateInv, relay' = relay
  PROVE  \A h \in Handlers : BuyRow(relay'[h]) =>
           /\ relay'[h].k \in Signals \ Leftover
           /\ relay'[h].pc # "bought" /\ relay'[h].ans = Refused =>
                bought[relay'[h].k] = "dead" \/ relay'[h].k \in misled
BY DEF FateInv, BuyServed

LEMMA MakeBuysFate ==
  ASSUME TypeInv, FateInv, NEW m \in make, MakeBuys(m)
  PROVE  FateInv'
<1>1. m.a = "BUY" /\ m.k \in Signals /\ bought[m.k] = "none" /\ res[m.k]["BUY"] # "NONE"
  BY DEF MakeBuys, FateInv, BuyAtMake
<1>2. PICK what \in {"filled", "dead"}, ans \in {1, Refused} :
        /\ bought' = [bought EXCEPT ![m.k] = what] /\ Answer(m, ans)
        /\ misled \subseteq misled'
        /\ ans = Refused => what = "dead" \/ m.k \in misled'
  <2>1. 1 # Refused
    BY FilesAssumption DEF FilesAssumption, Refused
  <2> QED BY <2>1 DEF MakeBuys
<1>3. res' = res /\ recov' = recov
  BY DEF MakeBuys, files
<1>4. bought \in [Signals -> {"none", "filled", "dead"}]
  BY DEF FateInv, BoughtOK
<1>5. BoughtOK'
  BY <1>2, <1>4 DEF BoughtOK
<1>6. make' = make \ {m}
  BY <1>2 DEF Answer
<1>7. BuyAtMake'
  <2> SUFFICES ASSUME NEW n \in make', n.a = "BUY"
               PROVE  /\ n.k \in Signals /\ bought'[n.k] = "none" /\ res'[n.k]["BUY"] # "NONE"
                      /\ \A o \in make' : o.a = "BUY" /\ o.k = n.k => o = n
    BY DEF BuyAtMake
  <2>1. n \in make /\ n # m
    BY <1>6
  <2>2. n.k # m.k
    BY <1>1, <2>1 DEF FateInv, BuyAtMake
  <2>3. n.k \in Signals /\ bought[n.k] = "none" /\ res[n.k]["BUY"] # "NONE"
        /\ \A o \in make : o.a = "BUY" /\ o.k = n.k => o = n
    BY <2>1 DEF FateInv, BuyAtMake
  <2> QED BY <1>2, <1>3, <1>4, <1>6, <2>2, <2>3
<1>8. BuyServed'
  <2> SUFFICES ASSUME NEW h \in Handlers, BuyRow(relay'[h])
               PROVE  /\ relay'[h].k \in Signals \ Leftover
                      /\ relay'[h].pc # "bought" /\ relay'[h].ans = Refused =>
                           bought'[relay'[h].k] = "dead" \/ relay'[h].k \in misled'
    BY <1>3 DEF BuyServed, BuyRow, FateInv, Refused
  <2>1. relay[h] \in RelayRows
    BY DEF TypeInv, RelayOK
  <2>2. relay'[h] = IF Sender(h, m) THEN [relay[h] EXCEPT !.ans = ans] ELSE relay[h]
    BY <1>2 DEF Answer
  <2>3. relay'[h].k = relay[h].k /\ relay'[h].pc = relay[h].pc /\ relay'[h].a = relay[h].a
    BY <2>1, <2>2 DEF RelayRows
  <2>4. relay[h].k \in Signals \ Leftover
    BY <2>3 DEF FateInv, BuyServed, BuyRow
  <2>5. CASE Sender(h, m)
    <3>1. relay'[h].ans = ans /\ relay[h].k = m.k
      BY <2>1, <2>2, <2>5 DEF RelayRows, Sender
    <3> QED BY <1>2, <1>4, <2>3, <2>4, <3>1
  <2>6. CASE ~Sender(h, m)
    <3>1. relay'[h] = relay[h]
      BY <2>2, <2>6
    <3>2. relay[h].pc # "bought" /\ relay[h].ans = Refused =>
            bought[relay[h].k] = "dead" \/ relay[h].k \in misled
      BY <3>1 DEF FateInv, BuyServed, BuyRow
    <3>3. bought[relay[h].k] = "dead" => bought'[relay[h].k] = "dead"
      BY <1>1, <1>2, <1>4
    <3> QED BY <1>2, <2>4, <3>1, <3>2, <3>3
  <2> QED BY <2>5, <2>6
<1>9. NotReservedNotBought'
  BY <1>1, <1>2, <1>3, <1>4 DEF FateInv, NotReservedNotBought
<1> QED BY <1>5, <1>7, <1>8, <1>9 DEF FateInv

LEMMA WorldFate == ASSUME TypeInv, FateInv, World PROVE FateInv'
<1>1. ASSUME NEW m \in make, MakePlaces(m) PROVE FateInv'
  <2>1. bought' = bought /\ misled' = misled /\ recov' = recov /\ res' = res /\ m.a = "OCO"
    BY <1>1 DEF MakePlaces, files
  <2>2. PICK ans : Answer(m, ans)
    BY <1>1 DEF MakePlaces
  <2>3. make' = make \ {m}
    BY <2>2 DEF Answer
  <2>4. ASSUME NEW h \in Handlers, BuyRow(relay'[h]) PROVE relay'[h] = relay[h]
    <3>1. relay[h] \in RelayRows
      BY DEF TypeInv, RelayOK
    <3>2. relay'[h] = IF Sender(h, m) THEN [relay[h] EXCEPT !.ans = ans] ELSE relay[h]
      BY <2>2 DEF Answer
    <3>3. relay'[h].a = relay[h].a
      BY <3>1, <3>2 DEF RelayRows
    <3>4. ~Sender(h, m)
      BY <2>1, <2>4, <3>3 DEF Sender, BuyRow
    <3> QED BY <3>2, <3>4
  <2>5. \A h \in Handlers : BuyRow(relay'[h]) =>
           /\ relay'[h].k \in Signals \ Leftover
           /\ relay'[h].pc # "bought" /\ relay'[h].ans = Refused =>
                bought[relay'[h].k] = "dead" \/ relay'[h].k \in misled
    BY <2>4 DEF FateInv, BuyServed
  <2>6. recov'.pc \in {"buy", "bought"} => recov'.k \in Signals
    BY <2>1 DEF FateInv, BuyServed
  <2> QED BY <2>1, <2>3, <2>5, <2>6, FateQuiet
<1>2. ASSUME NEW m \in make, MakeDrops(m) PROVE FateInv'
  <2>1. bought' = bought /\ misled' = misled /\ recov' = recov /\ res' = res /\ relay' = relay
        /\ make' = make \ {m}
    BY <1>2 DEF MakeDrops, files, binance, procs
  <2>2. recov'.pc \in {"buy", "bought"} => recov'.k \in Signals
    BY <2>1 DEF FateInv, BuyServed
  <2> QED BY <2>1, <2>2, FateQuiet, SameHandlers
<1>3. ASSUME NEW l \in Lists, ListSells(l) \/ OwnerCancels(l) PROVE FateInv'
  <2>1. bought' = bought /\ misled' = misled /\ recov' = recov /\ res' = res /\ relay' = relay
        /\ make' = make
    BY <1>3 DEF ListSells, OwnerCancels, files, procs
  <2>2. recov'.pc \in {"buy", "bought"} => recov'.k \in Signals
    BY <2>1 DEF FateInv, BuyServed
  <2> QED BY <2>1, <2>2, FateQuiet, SameHandlers
<1> QED BY <1>1, <1>2, <1>3, MakeBuysFate DEF World

LEMMA RelayFate == ASSUME TypeInv, FateInv, NEW h \in Handlers, Relay(h) PROVE FateInv'
<1> USE DEF files, external, binance
<1>0. /\ relay[h].k \in Keys /\ relay[h].a \in Actions /\ "BUY" \in Actions /\ "OCO" \in Actions
      /\ recov.pc \in {"buy", "bought"} => recov.k \in Signals
      /\ FilesOK
  BY DEF TypeInv, RelayOK, RelayRows, FateInv, BuyServed, Actions
<1>1. recov' = recov /\ bought' = bought /\ misled' = misled
  BY DEF Relay, RelayChecks, RelayReserves, RelayBlocksDuplicate, RelayRecords, RelayMarksPending,
         RelayRejects, RelayLosesAnswer
<1>a. ~BuyRow(IdleHandler(AnyKey))
  BY DEF IdleHandler, BuyRow
<1>b. relay[h].pc # "idle" /\ relay[h].a = "BUY" => relay[h].k \in Signals \ Leftover
  BY DEF FateInv, BuyServed, BuyRow
<1>2. CASE RelayChecks(h)
  <2>1. PICK s \in Signals \ Leftover, a \in Actions : Receives(h, s, a, 1)
    BY <1>2 DEF RelayChecks
  <2> DEFINE row == [pc |-> "checked", k |-> s, a |-> a, stop |-> 1, ans |-> NoAnswer]
  <2>2. RelayStep(h, row) /\ row.k \in Signals \ Leftover /\ row.ans # Refused
    BY <2>1, FilesAssumption DEF Receives, NoAnswer, Refused, FilesAssumption
  <2>3. make' = make /\ res' = res
    BY <1>2 DEF RelayChecks
  <2> HIDE DEF row
  <2> QED BY <1>0, <1>1, <2>2, <2>3, OneHandler, FateQuiet
<1>3. CASE RelayReserves(h)
  <2>0. relay[h].pc = "checked" /\ res[relay[h].k][relay[h].a] = "NONE"
        /\ res' = [res EXCEPT ![relay[h].k][relay[h].a] = "RESERVED"]
    BY <1>3 DEF RelayReserves, MayReserve, Reserve
  <2> DEFINE m == [a |-> relay[h].a, k |-> relay[h].k, by |-> "relay", stop |-> relay[h].stop]
  <2>1. \/ make' = make /\ RelayDone(h)
        \/ make' = make \cup {m} /\ RelayStep(h, [relay[h] EXCEPT !.pc = "posted"])
    BY <1>3 DEF RelayReserves
  <2>2. CASE relay[h].a = "OCO"
    <3>1. \A s \in Signals : res'[s]["BUY"] = res[s]["BUY"]
      BY <1>0, <2>0, <2>2 DEF FilesOK, Keys
    <3>2. \A n \in make' : n.a = "BUY" => n \in make
      BY <2>1, <2>2
    <3>3. ~BuyRow([relay[h] EXCEPT !.pc = "posted"])
      BY <2>2 DEF BuyRow, TypeInv, RelayOK, RelayRows
    <3>4. \E row : RelayStep(h, row) /\ ~BuyRow(row)
      BY <1>a, <2>1, <3>3 DEF RelayDone
    <3> QED BY <1>0, <1>1, <3>1, <3>2, <3>4, OneHandler, FateQuiet
  <2>3. CASE relay[h].a = "BUY"
    <3> DEFINE s == relay[h].k
    <3>1. s \in Signals \ Leftover /\ s \in Keys /\ bought[s] = "none" /\ res[s]["BUY"] = "NONE"
      BY <1>0, <1>b, <2>0, <2>3 DEF FateInv, NotReservedNotBought
    <3>2. \A t \in Signals : res'[t]["BUY"] = IF t = s THEN "RESERVED" ELSE res[t]["BUY"]
      BY <1>0, <2>0, <2>3 DEF FilesOK, Keys
    <3>3. \A n \in make : n.a = "BUY" => n.k # s
      BY <3>1 DEF FateInv, BuyAtMake
    <3>4. m.a = "BUY" /\ m.k = s
      BY <2>3
    <3>x. make' = make \/ make' = make \cup {m}
      BY <2>1
    <3> HIDE DEF s, m
    <3>5. BuyAtMake'
      <4>1. ASSUME NEW n \in make', n.a = "BUY"
            PROVE  n.k \in Signals /\ bought'[n.k] = "none" /\ res'[n.k]["BUY"] # "NONE"
        <5>1. CASE n \in make
          <6>1. n.k \in Signals /\ bought[n.k] = "none" /\ res[n.k]["BUY"] # "NONE"
            BY <4>1, <5>1 DEF FateInv, BuyAtMake
          <6> QED BY <1>1, <3>2, <6>1
        <5>2. CASE n = m
          BY <1>1, <3>1, <3>2, <3>4, <5>2
        <5> QED BY <3>x, <5>1, <5>2
      <4>2. ASSUME NEW n \in make', n.a = "BUY", NEW o \in make', o.a = "BUY", o.k = n.k
            PROVE  o = n
        <5>1. CASE n \in make /\ o \in make
          BY <4>2, <5>1 DEF FateInv, BuyAtMake
        <5>2. CASE n = m \/ o = m
          BY <3>x, <3>3, <3>4, <4>2, <5>2
        <5> QED BY <3>x, <5>1, <5>2
      <4> QED BY <4>1, <4>2 DEF BuyAtMake
    <3>6. BuyServed'
      <4> DEFINE row == [relay[h] EXCEPT !.pc = "posted"]
      <4>1. relay[h] \in RelayRows /\ BuyRow(relay[h]) /\ relay[h].pc # "bought"
        BY <2>0, <2>3 DEF TypeInv, RelayOK, BuyRow
      <4>2. row.k = s /\ row.ans = relay[h].ans /\ relay[h].k = s
        BY <4>1 DEF RelayRows, s
      <4>3. relay[h].ans = Refused => bought[s] = "dead" \/ s \in misled
        BY <4>1, <4>2 DEF FateInv, BuyServed
      <4> HIDE DEF row
      <4>5. RelayStep(h, IdleHandler(AnyKey)) \/ RelayStep(h, row)
        BY <2>1 DEF RelayDone, row
      <4>4. \A g \in Handlers : BuyRow(relay'[g]) =>
              /\ relay'[g].k \in Signals \ Leftover
              /\ relay'[g].pc # "bought" /\ relay'[g].ans = Refused =>
                   bought[relay'[g].k] = "dead" \/ relay'[g].k \in misled
        BY <1>a, <3>1, <4>2, <4>3, <4>5, OneHandler
      <4> QED BY <1>0, <1>1, <4>4 DEF BuyServed, BuyRow, Refused
    <3>7. BoughtOK' /\ NotReservedNotBought'
      BY <1>1, <3>2 DEF FateInv, BoughtOK, NotReservedNotBought
    <3> QED BY <3>5, <3>6, <3>7 DEF FateInv
  <2> QED BY <1>0, <2>2, <2>3 DEF Actions
<1>4. CASE RelayBlocksDuplicate(h)
  <2>1. RelayStep(h, IdleHandler(AnyKey)) /\ make' = make /\ res' = res
    BY <1>4 DEF RelayBlocksDuplicate, RelayDone
  <2> QED BY <1>0, <1>1, <1>a, <2>1, OneHandler, FateQuiet
<1>5. CASE RelayRecords(h)
  <2>1. make' = make
    BY <1>5 DEF RelayRecords
  <2>2. \A s \in Signals : res'[s]["BUY"] = "NONE" <=> res[s]["BUY"] = "NONE"
    BY <1>0, <1>5, BuyRows DEF RelayRecords, RecordBuy, RecordOco
  <2>3. \/ RelayStep(h, IdleHandler(AnyKey))
        \/ relay[h].a = "BUY" /\ RelayStep(h, [relay[h] EXCEPT !.pc = "bought"])
    BY <1>5 DEF RelayRecords, RelayDone
  <2>4. relay[h] \in RelayRows /\ relay[h].pc = "posted"
    BY <1>5 DEF TypeInv, RelayOK, RelayRecords
  <2> DEFINE row == [relay[h] EXCEPT !.pc = "bought"]
  <2>5. row.pc = "bought" /\ row.k = relay[h].k
    BY <2>4 DEF RelayRows
  <2> HIDE DEF row
  <2>6. \E r : RelayStep(h, r) /\ (BuyRow(r) => r.k \in Signals \ Leftover /\ r.pc = "bought")
    BY <1>a, <1>b, <2>3, <2>4, <2>5 DEF row
  <2> QED BY <1>0, <1>1, <2>1, <2>2, <2>6, OneHandler, FateQuiet
<1>6. CASE RelayMarksPending(h)
  <2>1. RelayStep(h, IdleHandler(AnyKey)) /\ make' = make /\ res' = res
    BY <1>6 DEF RelayMarksPending, RelayDone
  <2> QED BY <1>0, <1>1, <1>a, <2>1, OneHandler, FateQuiet
<1>7. CASE RelayRejects(h) \/ RelayLosesAnswer(h)
  <2>1. RelayStep(h, IdleHandler(AnyKey)) /\ make' = make
    BY <1>7 DEF RelayRejects, RelayLosesAnswer, RelayDone
  <2>2. \A s \in Signals : res'[s]["BUY"] = "NONE" <=> res[s]["BUY"] = "NONE"
    BY <1>0, <1>7, BuyRows DEF RelayRejects, RelayLosesAnswer
  <2> QED BY <1>0, <1>1, <1>a, <2>1, <2>2, OneHandler, FateQuiet
<1> QED BY <1>2, <1>3, <1>4, <1>5, <1>6, <1>7 DEF Relay

LEMMA RecoveryFate == ASSUME TypeInv, FateInv, Recovery PROVE FateInv'
<1> USE DEF files, external, binance
<1>0. /\ recov.k \in Keys /\ "BUY" \in Actions /\ "OCO" \in Actions /\ Signals \subseteq Keys
      /\ recov.pc \in {"buy", "bought"} => recov.k \in Signals
      /\ FilesOK
  BY DEF TypeInv, RecovOK, RecovRows, FateInv, BuyServed, Actions, Keys
<1>1. make' = make /\ bought' = bought /\ misled' = misled
  BY DEF Recovery, RecovQueriesBuy, RecovRecordsBuy, RecovMarksPending, RecovQueriesOco,
         RecovRecordsOco, RecovProtects
<1>2. CASE \E k \in Keys : RecovProtects(k)
  <2>1. PICK k \in Keys, h \in Handlers : Receives(h, k, "OCO", pos[k].stop) /\ RecovProtects(k)
    BY <1>2 DEF RecovProtects
  <2> DEFINE row == [pc |-> "checked", k |-> k, a |-> "OCO", stop |-> pos[k].stop, ans |-> NoAnswer]
  <2>2. RelayStep(h, row) /\ ~BuyRow(row) /\ res' = res /\ recov' = recov
    BY <2>1 DEF Receives, BuyRow, RecovProtects
  <2> HIDE DEF row
  <2> QED BY <1>0, <1>1, <2>2, OneHandler, FateQuiet
<1>3. CASE ~\E k \in Keys : RecovProtects(k)
  <2>1. relay' = relay
    BY <1>3 DEF Recovery, RecovQueriesBuy, RecovRecordsBuy, RecovMarksPending, RecovQueriesOco,
                RecovRecordsOco
  <2>2. \A s \in Signals : res'[s]["BUY"] = "NONE" <=> res[s]["BUY"] = "NONE"
    BY <1>0, <1>3, BuyRows
       DEF Recovery, RecovQueriesBuy, RecovRecordsBuy, RecovMarksPending, RecovQueriesOco,
           RecovRecordsOco, RecordBuy, RecordOco
  <2>3. recov'.pc \in {"buy", "bought"} => recov'.k \in Signals
    BY <1>0, <1>3
       DEF Recovery, RecovQueriesBuy, RecovRecordsBuy, RecovMarksPending, RecovQueriesOco,
           RecovRecordsOco, RecovStep, IdleRecov
  <2> QED BY <1>1, <2>1, <2>2, <2>3, FateQuiet, SameHandlers
<1> QED BY <1>2, <1>3

LEMMA WorkersFate ==
  ASSUME TypeInv, FateInv, Reconciler \/ DynamicExit \/ Crash \/ CrashInRecord
  PROVE  FateInv'
<1> USE DEF files, external, binance
<1>0. /\ recon.k \in Keys /\ dyn.k \in Keys /\ "OCO" \in Actions
      /\ recov.pc \in {"buy", "bought"} => recov.k \in Signals
      /\ FilesOK
  BY DEF TypeInv, ReconOK, ReconRows, DynOK, DynRows, FateInv, BuyServed, Actions
<1>1. CASE Reconciler
  <2>1. make' = make /\ bought' = bought /\ misled' = misled /\ relay' = relay /\ recov' = recov
    BY <1>1 DEF Reconciler, ReconLists, ReconFindsUnknown, ReconLoads, ReconSaves, ReconScans,
                ReconQueries, ReconCloses, ReconMarksLost, ReconEndsReservation, ReconEnds, ReconFails
  <2>2. res' = res \/ \E status : status # "NONE" /\ SetReservation(recon.k, "OCO", status)
    BY <1>1 DEF Reconciler, ReconLists, ReconFindsUnknown, ReconLoads, ReconSaves, ReconScans,
                ReconQueries, ReconCloses, ReconMarksLost, ReconEndsReservation, ReconEnds, ReconFails
  <2>3. \A s \in Signals : res'[s]["BUY"] = "NONE" <=> res[s]["BUY"] = "NONE"
    BY <1>0, <2>2, BuyRows
  <2> QED BY <1>0, <2>1, <2>3, FateQuiet, SameHandlers
<1>2. CASE DynamicExit
  <2>1. bought' = bought /\ misled' = misled /\ relay' = relay /\ recov' = recov
    BY <1>2 DEF DynamicExit, DynLooks, DynCancels, DynMarksPending, DynPlaces, DynRollsBack,
                DynSends, DynRecords, DynFailsNew, DynFailsOld, DynEndsReservation
  <2>2. make' = make \/ \E k, by, stop : make' = make \cup {[a |-> "OCO", k |-> k, by |-> by, stop |-> stop]}
    BY <1>2 DEF DynamicExit, DynLooks, DynCancels, DynMarksPending, DynPlaces, DynRollsBack,
                DynSends, DynRecords, DynFailsNew, DynFailsOld, DynEndsReservation
  <2>3. res' = res \/ \E status : status # "NONE" /\ SetReservation(dyn.k, "OCO", status)
    BY <1>2 DEF DynamicExit, DynLooks, DynCancels, DynMarksPending, DynPlaces, DynRollsBack,
                DynSends, DynRecords, DynFailsNew, DynFailsOld, DynEndsReservation
  <2>4. \A s \in Signals : res'[s]["BUY"] = "NONE" <=> res[s]["BUY"] = "NONE"
    BY <1>0, <2>3, BuyRows
  <2>5. \A m \in make' : m.a = "BUY" => m \in make
    BY <2>2
  <2> QED BY <1>0, <2>1, <2>4, <2>5, FateQuiet, SameHandlers
<1>3. CASE Crash \/ CrashInRecord
  <2>1. Restarted /\ make' = make /\ bought' = bought /\ misled' = misled /\ res' = res
    BY <1>3 DEF Crash, CrashInRecord
  <2>2. \A h \in Handlers : ~BuyRow(relay'[h])
    BY <2>1 DEF Restarted, IdleHandler, BuyRow
  <2>3. recov'.pc = "idle"
    BY <2>1 DEF Restarted, IdleRecov
  <2> QED BY <2>1, <2>2, <2>3, FateQuiet
<1> QED BY <1>1, <1>2, <1>3

LEMMA FateSteps == TypeInv /\ FateInv /\ [Next]_vars => FateInv'
<1> SUFFICES ASSUME TypeInv, FateInv, [Next]_vars PROVE FateInv'
  OBVIOUS
<1>1. CASE Next
  BY <1>1, WorldFate, RelayFate, RecoveryFate, WorkersFate DEF Next
<1>2. CASE UNCHANGED vars
  BY <1>2 DEF vars, files, external, binance, procs, FateInv, BoughtOK, BuyAtMake, BuyServed, BuyRow,
              NotReservedNotBought
<1> QED BY <1>1, <1>2

LEMMA FateHolds == Spec => []FateInv
BY TypesHold, FateStarts, FateSteps, PTL DEF Spec

LEMMA BoughtTracks ==
  ASSUME FilesOK, NEW s \in Keys
  PROVE  BuyPosition(s)[s].st = "BUY_FILLED"
<1>1. pos \in [Keys -> Positions]
  BY DEF FilesOK, PositionFiles
<1> DEFINE filled == [pos EXCEPT ![s].st = "BUY_FILLED"]
<1>2. filled \in [Keys -> Positions] /\ filled[s].st = "BUY_FILLED"
  BY <1>1 DEF Positions
<1> HIDE DEF filled
<1>3. [filled EXCEPT ![s].stop = 1][s].st = filled[s].st
  BY <1>2 DEF Positions
<1> QED BY <1>2, <1>3 DEF BuyPosition, filled

LEMMA DeadStays ==
  ASSUME FateInv, Next, NEW s \in Signals
  PROVE  misled \subseteq misled' /\ (bought[s] = "dead" => bought'[s] = "dead")
<1> USE DEF files, external, binance
<1>1. ASSUME NEW m \in make, MakeBuys(m) PROVE misled \subseteq misled' /\ (bought[s] = "dead" => bought'[s] = "dead")
  <2>1. m.k \in Signals /\ bought[m.k] = "none"
    BY <1>1 DEF MakeBuys, FateInv, BuyAtMake
  <2>2. misled \subseteq misled' /\ \E what : bought' = [bought EXCEPT ![m.k] = what]
    BY <1>1 DEF MakeBuys
  <2>3. bought[s] = "dead" => s # m.k
    BY <2>1
  <2> QED BY <2>2, <2>3 DEF FateInv, BoughtOK
<1>2. CASE ~\E m \in make : MakeBuys(m)
  <2>1. World => bought' = bought /\ misled' = misled
    BY <1>2 DEF World, MakePlaces, MakeDrops, ListSells, OwnerCancels
  <2>2. (\E h \in Handlers : Relay(h)) => bought' = bought /\ misled' = misled
    BY DEF Relay, RelayChecks, RelayReserves, RelayBlocksDuplicate, RelayRecords, RelayMarksPending,
           RelayRejects, RelayLosesAnswer
  <2>3. Recovery => bought' = bought /\ misled' = misled
    BY DEF Recovery, RecovQueriesBuy, RecovRecordsBuy, RecovMarksPending, RecovQueriesOco,
           RecovRecordsOco, RecovProtects
  <2>4. Reconciler => bought' = bought /\ misled' = misled
    BY DEF Reconciler, ReconLists, ReconFindsUnknown, ReconLoads, ReconSaves, ReconScans,
           ReconQueries, ReconCloses, ReconMarksLost, ReconEndsReservation, ReconEnds, ReconFails
  <2>5. DynamicExit => bought' = bought /\ misled' = misled
    BY DEF DynamicExit, DynLooks, DynCancels, DynMarksPending, DynPlaces, DynRollsBack,
           DynSends, DynRecords, DynFailsNew, DynFailsOld, DynEndsReservation
  <2>6. Crash \/ CrashInRecord => bought' = bought /\ misled' = misled
    BY DEF Crash, CrashInRecord
  <2> QED BY <2>1, <2>2, <2>3, <2>4, <2>5, <2>6 DEF Next
<1> QED BY <1>1, <1>2

\* whoever writes the row of a BUY leaves it to be resolved, or knows its fate
LEMMA BuyRowChanges ==
  ASSUME TypeInv, FateInv, Next, NEW s \in Signals, res'[s]["BUY"] # res[s]["BUY"]
  PROVE  res'[s]["BUY"] \in Unresolved \/ Tracked(s)' \/ bought[s] = "dead" \/ s \in misled
<1> USE DEF files, external, binance
<1>0. "BUY" \in Actions /\ "OCO" \in Actions /\ Signals \subseteq Keys /\ FilesOK
      /\ recov.k \in Keys /\ recon.k \in Keys /\ dyn.k \in Keys
  BY DEF Actions, Keys, TypeInv, RecovOK, RecovRows, ReconOK, ReconRows, DynOK, DynRows
<1>a. \A k \in Keys, a \in Actions : \A status :
        status # "NONE" /\ SetReservation(k, a, status) => k = s /\ a = "BUY" /\ res'[s]["BUY"] = status
  <2> SUFFICES ASSUME NEW k \in Keys, NEW a \in Actions, NEW status, status # "NONE",
                      SetReservation(k, a, status)
               PROVE  k = s /\ a = "BUY" /\ res'[s]["BUY"] = status
    OBVIOUS
  <2>1. k = s /\ a = "BUY"
    BY <1>0, BuyRows
  <2>2. s \in Keys
    BY <1>0
  <2> QED BY <1>0, <2>1, <2>2 DEF SetReservation, FilesOK
<1>b. \A k \in Keys : RecordBuy(k) => Tracked(s)'
  <2> SUFFICES ASSUME NEW k \in Keys, RecordBuy(k) PROVE Tracked(s)'
    OBVIOUS
  <2>1. k = s /\ pos' = BuyPosition(k)
    BY <1>0, <1>a DEF RecordBuy
  <2>2. s \in Keys
    BY <1>0
  <2> QED BY <1>0, <2>1, <2>2, BoughtTracks DEF Tracked
<1>c. \A k \in Keys : \A l, stop : ~RecordOco(k, l, stop)
  BY <1>0, <1>a DEF RecordOco
<1>1. ASSUME NEW h \in Handlers, Relay(h)
      PROVE  res'[s]["BUY"] \in Unresolved \/ Tracked(s)' \/ bought[s] = "dead" \/ s \in misled
  <2>0. relay[h].k \in Keys /\ relay[h].a \in Actions
    BY DEF TypeInv, RelayOK, RelayRows
  <2>1. CASE RelayReserves(h)
    <3>1. res' = [res EXCEPT ![relay[h].k][relay[h].a] = "RESERVED"]
      BY <2>1 DEF RelayReserves, Reserve
    <3>2. res'[s]["BUY"] = "RESERVED"
      BY <1>0, <2>0, <3>1 DEF FilesOK
    <3> QED BY <3>2 DEF Unresolved
  <2>2. CASE RelayRecords(h)
    BY <1>b, <1>c, <2>0, <2>2 DEF RelayRecords
  <2>3. CASE RelayRejects(h)
    <3>1. relay[h].k = s /\ relay[h].a = "BUY" /\ relay[h].pc = "posted" /\ relay[h].ans = Refused
      BY <1>a, <2>0, <2>3 DEF RelayRejects
    <3> QED BY <3>1 DEF FateInv, BuyServed, BuyRow
  <2>4. CASE RelayLosesAnswer(h)
    BY <1>a, <2>0, <2>4 DEF RelayLosesAnswer, Unresolved
  <2>5. CASE RelayChecks(h) \/ RelayBlocksDuplicate(h) \/ RelayMarksPending(h)
    BY <2>5 DEF RelayChecks, RelayBlocksDuplicate, RelayMarksPending
  <2> QED BY <1>1, <2>1, <2>2, <2>3, <2>4, <2>5 DEF Relay
<1>2. ASSUME Recovery PROVE Tracked(s)' \/ bought[s] = "dead"
  <2>1. ASSUME NEW k \in Signals, RecovQueriesBuy(k) PROVE bought[s] = "dead"
    BY <1>0, <1>a, <2>1 DEF RecovQueriesBuy
  <2>2. CASE RecovRecordsBuy
    BY <1>0, <1>b, <2>2 DEF RecovRecordsBuy
  <2>3. CASE RecovRecordsOco
    BY <1>0, <1>c, <2>3 DEF RecovRecordsOco
  <2>4. CASE RecovMarksPending \/ \E k \in Keys : RecovQueriesOco(k) \/ RecovProtects(k)
    BY <2>4 DEF RecovMarksPending, RecovQueriesOco, RecovProtects
  <2> QED BY <1>2, <2>1, <2>2, <2>3, <2>4 DEF Recovery
<1>3. ~Reconciler
  <2>1. Reconciler => res' = res \/ \E status : status # "NONE" /\ SetReservation(recon.k, "OCO", status)
    BY DEF Reconciler, ReconLists, ReconFindsUnknown, ReconLoads, ReconSaves, ReconScans,
           ReconQueries, ReconCloses, ReconMarksLost, ReconEndsReservation, ReconEnds, ReconFails
  <2> QED BY <1>0, <1>a, <2>1
<1>4. ~DynamicExit
  <2>1. DynamicExit => res' = res \/ \E status : status # "NONE" /\ SetReservation(dyn.k, "OCO", status)
    BY DEF DynamicExit, DynLooks, DynCancels, DynMarksPending, DynPlaces, DynRollsBack,
           DynSends, DynRecords, DynFailsNew, DynFailsOld, DynEndsReservation
  <2> QED BY <1>0, <1>a, <2>1
<1>5. ~World /\ ~Crash /\ ~CrashInRecord
  BY DEF World, MakeBuys, MakePlaces, MakeDrops, ListSells, OwnerCancels, Crash, CrashInRecord
<1> QED BY <1>1, <1>2, <1>3, <1>4, <1>5 DEF Next

LEMMA FateKnownSteps ==
  TypeInv /\ FateInv /\ FateKnown /\ CopyIsFresh /\ [Next]_vars => FateKnown'
<1> SUFFICES ASSUME TypeInv, FateInv, FateKnown, CopyIsFresh, [Next]_vars PROVE FateKnown'
  OBVIOUS
<1>1. CASE UNCHANGED vars
  BY <1>1 DEF vars, files, external, binance, FateKnown, Tracked
<1>2. CASE Next
  <2> SUFFICES ASSUME NEW s \in Signals, s \notin Leftover, s \notin misled', res'[s]["BUY"] # "NONE"
               PROVE  bought'[s] = "dead" \/ Tracked(s)' \/ res'[s]["BUY"] \in Unresolved
    BY DEF FateKnown, Unresolved
  <2>1. s \notin misled /\ (bought[s] = "dead" => bought'[s] = "dead")
    BY <1>2, DeadStays
  <2>2. CASE res'[s]["BUY"] = res[s]["BUY"]
    <3>1. bought[s] = "dead" \/ Tracked(s) \/ res[s]["BUY"] \in Unresolved
      BY <2>1, <2>2 DEF FateKnown
    <3>2. Tracked(s) => Tracked(s)'
      BY <1>2, TrackedStays
    <3> QED BY <2>1, <2>2, <3>1, <3>2
  <2>3. CASE res'[s]["BUY"] # res[s]["BUY"]
    BY <1>2, <2>1, <2>3, BuyRowChanges
  <2> QED BY <2>2, <2>3
<1> QED BY <1>1, <1>2

LEMMA FateIsRemembered == FateKnown => FillNotForgotten
<1>1. "filled" # "dead"
  OBVIOUS
<1> QED BY <1>1 DEF FateKnown, FillNotForgotten

\* For any number of signals: a fill is forgotten only where a rebuild saves a
\* state that lacks a position recorded since it was loaded (reconcile_state.py).
\* As long as no save does, every BUY that filled is on record or will be resolved.
THEOREM OnlyStaleSavesForget == Spec /\ []CopyIsFresh => []FillNotForgotten
<1>1. Init => FateKnown
  BY FateStarts
<1> QED BY <1>1, TypesHold, FateHolds, FateKnownSteps, FateIsRemembered, PTL DEF Spec

(***************************************************************************)
(* With one signal no save is stale: before anything can be rebuilt, the   *)
(* only signal there is has been recorded.                                 *)
(***************************************************************************)
OneSignal == \A s, t \in Signals : s = t

LEMMA NothingStarts ==
  ASSUME ~Started, pos' = pos, lists' = lists, dyn'.pc = "idle", recov'.pc # "oco",
         \A m \in make' : m.a = "OCO" => m \in make,
         \A h \in Handlers : relay'[h].pc # "idle" /\ relay'[h].a = "OCO" =>
           relay[h].pc # "idle" /\ relay[h].a = "OCO"
  PROVE  ~Started'
BY DEF Started, Tracked

LEMMA FirstIsAll ==
  ASSUME OneSignal, FilesOK, NEW k \in Signals, pos' = BuyPosition(k)
  PROVE  AllTracked'
<1>1. k \in Keys
  BY DEF Keys
<1> QED BY <1>1, BoughtTracks DEF OneSignal, AllTracked, Tracked

\* the first step that starts anything records the signal
LEMMA FirstStep ==
  ASSUME OneSignal, TypeInv, Links, FateInv, TrackedFirst, ~Started, Next
  PROVE  ~Started' \/ AllTracked'
<1> USE DEF files, external, binance, procs
<1>0. /\ \A k \in Keys : ~Tracked(k)
      /\ \A l \in Lists : lists[l].st = "none"
      /\ \A m \in make : m.a # "OCO"
      /\ \A h \in Handlers : relay[h].pc # "idle" => relay[h].a # "OCO"
      /\ dyn.pc = "idle" /\ recov.pc # "oco"
  BY DEF Started
<1>a. \A k \in Keys : \A st : SetStatus(k, st) => pos' = pos
  BY <1>0 DEF SetStatus
<1>b. /\ \A h \in Handlers : relay[h] \in RelayRows /\ relay[h].k \in Keys
      /\ recov.k \in Keys /\ recon.k \in Keys
  BY DEF TypeInv, RelayOK, RelayRows, RecovOK, RecovRows, ReconOK, ReconRows
<1>c. /\ \A h \in Handlers : relay[h].pc # "idle" /\ relay[h].a = "BUY" => relay[h].k \in Signals
      /\ recov.pc \in {"buy", "bought"} => recov.k \in Signals
  BY DEF FateInv, BuyServed, BuyRow
<1>d. \A k \in Keys : ~OpenPosition(k) /\ pos[k].st = "NONE"
  BY <1>0 DEF OpenPosition, Tracked
<1>e. FilesOK
  BY DEF TypeInv
<1>1. CASE World
  <2>1. ASSUME NEW m \in make, MakeBuys(m) PROVE ~Started'
    <3>1. PICK ans : Answer(m, ans)
      BY <2>1 DEF MakeBuys
    <3>2. \A h \in Handlers : relay'[h].pc = relay[h].pc /\ relay'[h].a = relay[h].a
      BY <1>b, <3>1 DEF Answer, RelayRows
    <3>3. dyn'.pc = "idle"
      BY <1>0, <3>1 DEF Answer, TypeInv, DynOK, DynRows
    <3>4. make' = make \ {m} /\ pos' = pos /\ lists' = lists /\ recov' = recov
      BY <2>1, <3>1 DEF MakeBuys, Answer
    <3> QED BY <1>0, <3>2, <3>3, <3>4, NothingStarts
  <2>2. ASSUME NEW m \in make, MakeDrops(m) PROVE ~Started'
    BY <1>0, <2>2, NothingStarts DEF MakeDrops
  <2>3. \A m \in make : ~MakePlaces(m)
    BY <1>0 DEF MakePlaces
  <2>4. \A l \in Lists : ~ListSells(l) /\ ~OwnerCancels(l)
    BY <1>0 DEF ListSells, OwnerCancels, Open
  <2> QED BY <1>1, <2>1, <2>2, <2>3, <2>4 DEF World
<1>2. ASSUME NEW h \in Handlers, Relay(h) PROVE ~Started' \/ AllTracked'
  <2>0. \A row : RelayStep(h, row) =>
          \A g \in Handlers : relay'[g] = IF g = h THEN row ELSE relay[g]
    BY DEF RelayStep, TypeInv, RelayOK
  <2>a. ASSUME NEW row, RelayStep(h, row), row.pc = "idle" \/ row.a # "OCO"
        PROVE  \A g \in Handlers : relay'[g].pc # "idle" /\ relay'[g].a = "OCO" =>
                 relay[g].pc # "idle" /\ relay[g].a = "OCO"
    BY <2>0, <2>a
  <2>b. IdleHandler(AnyKey).pc = "idle"
    BY DEF IdleHandler
  <2>1. CASE RelayChecks(h)
    <3>1. PICK s \in Signals \ Leftover, a \in Actions : Receives(h, s, a, 1)
      BY <2>1 DEF RelayChecks
    <3>2. s \in Keys
      BY DEF Keys
    <3>3. a # "OCO"
      BY <1>d, <3>1, <3>2 DEF Receives
    <3> DEFINE row == [pc |-> "checked", k |-> s, a |-> a, stop |-> 1, ans |-> NoAnswer]
    <3>4. RelayStep(h, row) /\ row.a # "OCO"
      BY <3>1, <3>3 DEF Receives
    <3> HIDE DEF row
    <3>5. \A g \in Handlers : relay'[g].pc # "idle" /\ relay'[g].a = "OCO" =>
            relay[g].pc # "idle" /\ relay[g].a = "OCO"
      BY <2>a, <3>4
    <3> QED BY <1>0, <2>1, <3>5, NothingStarts DEF RelayChecks
  <2>2. CASE RelayReserves(h)
    <3>1. relay[h].pc = "checked" /\ relay[h].a # "OCO"
      BY <1>0, <2>2 DEF RelayReserves
    <3>2. [relay[h] EXCEPT !.pc = "posted"].a # "OCO"
      BY <1>b, <3>1 DEF RelayRows
    <3>3. \A g \in Handlers : relay'[g].pc # "idle" /\ relay'[g].a = "OCO" =>
            relay[g].pc # "idle" /\ relay[g].a = "OCO"
      BY <2>2, <2>a, <2>b, <3>2 DEF RelayReserves, RelayDone
    <3>4. \A m \in make' : m.a = "OCO" => m \in make
      BY <2>2, <3>1 DEF RelayReserves
    <3> QED BY <1>0, <2>2, <3>3, <3>4, NothingStarts DEF RelayReserves
  <2>3. CASE RelayRecords(h)
    <3>1. relay[h].pc = "posted" /\ relay[h].a = "BUY" /\ RecordBuy(relay[h].k)
      BY <1>0, <2>3 DEF RelayRecords
    <3> QED BY <1>c, <1>e, <3>1, FirstIsAll DEF RecordBuy
  <2>4. CASE RelayMarksPending(h)
    <3>1. pos' = pos
      BY <1>a, <1>b, <2>4 DEF RelayMarksPending
    <3>2. \A g \in Handlers : relay'[g].pc # "idle" /\ relay'[g].a = "OCO" =>
            relay[g].pc # "idle" /\ relay[g].a = "OCO"
      BY <2>4, <2>a, <2>b DEF RelayMarksPending, RelayDone
    <3> QED BY <1>0, <2>4, <3>1, <3>2, NothingStarts DEF RelayMarksPending
  <2>5. CASE RelayBlocksDuplicate(h) \/ RelayRejects(h) \/ RelayLosesAnswer(h)
    <3>1. \A g \in Handlers : relay'[g].pc # "idle" /\ relay'[g].a = "OCO" =>
            relay[g].pc # "idle" /\ relay[g].a = "OCO"
      BY <2>5, <2>a, <2>b DEF RelayBlocksDuplicate, RelayRejects, RelayLosesAnswer, RelayDone
    <3> QED BY <1>0, <2>5, <3>1, NothingStarts DEF RelayBlocksDuplicate, RelayRejects, RelayLosesAnswer
  <2> QED BY <1>2, <2>1, <2>2, <2>3, <2>4, <2>5 DEF Relay
<1>3. CASE Recovery
  <2>1. ASSUME NEW s \in Signals, RecovQueriesBuy(s) PROVE ~Started'
    BY <1>0, <2>1, NothingStarts DEF RecovQueriesBuy, RecovStep
  <2>2. CASE RecovRecordsBuy
    BY <1>c, <1>e, <2>2, FirstIsAll DEF RecovRecordsBuy, RecordBuy
  <2>3. CASE RecovMarksPending
    <3>1. pos' = pos
      BY <1>a, <1>b, <2>3 DEF RecovMarksPending
    <3> QED BY <1>0, <2>3, <3>1, NothingStarts DEF RecovMarksPending, IdleRecov
  <2>4. \A k \in Keys : ~RecovQueriesOco(k)
    BY <1>0 DEF RecovQueriesOco, Links, ListLinks, Owned
  <2>5. \A k \in Keys : ~RecovProtects(k)
    BY <1>d DEF RecovProtects
  <2>6. ~RecovRecordsOco
    BY <1>0 DEF RecovRecordsOco
  <2> QED BY <1>3, <2>1, <2>2, <2>3, <2>4, <2>5, <2>6 DEF Recovery
<1>4. CASE Reconciler
  <2>1. CASE ReconSaves
    <3>1. \A s \in Signals : recon.copy[s].st # "NONE"
      BY <2>1 DEF ReconSaves, TrackedFirst
    <3>2. recon.copy \in PositionFiles /\ Signals \subseteq Keys
      BY <2>1 DEF ReconSaves, TypeInv, ReconOK, Keys
    <3>3. PICK l : pos' = [recon.copy EXCEPT ![Rec(l)] =
                            [st |-> "OCO_ACTIVE", list |-> l, stop |-> lists[l].stop]]
      BY <2>1 DEF ReconSaves
    <3> QED BY <3>1, <3>2, <3>3 DEF AllTracked, Tracked, PositionFiles
  <2>2. CASE ~ReconSaves
    <3>1. pos' = pos
      BY <1>4, <1>a, <1>b, <2>2
         DEF Reconciler, ReconLists, ReconFindsUnknown, ReconLoads, ReconScans,
             ReconQueries, ReconCloses, ReconMarksLost, ReconEndsReservation, ReconEnds, ReconFails, ClosePosition
    <3>2. lists' = lists /\ make' = make /\ relay' = relay /\ dyn' = dyn /\ recov' = recov
      BY <1>4, <2>2
         DEF Reconciler, ReconLists, ReconFindsUnknown, ReconLoads, ReconScans,
             ReconQueries, ReconCloses, ReconMarksLost, ReconEndsReservation, ReconEnds, ReconFails
    <3> QED BY <1>0, <3>1, <3>2, NothingStarts
  <2> QED BY <2>1, <2>2
<1>5. ~DynamicExit
  <2>1. \A k \in Keys : ~DynLooks(k)
    BY <1>d DEF DynLooks
  <2> QED BY <1>0, <2>1 DEF DynamicExit, DynCancels, DynMarksPending, DynPlaces, DynRollsBack,
                            DynSends, DynRecords, DynFailsNew, DynFailsOld, DynEndsReservation
<1>6. CASE Crash \/ CrashInRecord
  <2>1. CASE Crash
    BY <1>0, <2>1, NothingStarts DEF Crash, Restarted, IdleHandler, IdleRecov, IdleDyn
  <2>2. CASE CrashInRecord
    <3>1. \E k \in Signals : pos' = BuyPosition(k)
      <4>1. ASSUME NEW h \in Handlers, relay[h].pc = "posted",
                   pos' = IF relay[h].a = "BUY" THEN BuyPosition(relay[h].k)
                          ELSE OcoPosition(relay[h].k, relay[h].ans, relay[h].stop)
            PROVE  \E k \in Signals : pos' = BuyPosition(k)
        <5>1. relay[h].a = "BUY"
          BY <1>0, <1>b, <4>1 DEF RelayRows, Actions
        <5> QED BY <1>c, <4>1, <5>1
      <4> QED BY <1>0, <1>c, <2>2, <4>1 DEF CrashInRecord
    <3> QED BY <1>e, <3>1, FirstIsAll
  <2> QED BY <1>6, <2>1, <2>2
<1> QED BY <1>1, <1>2, <1>3, <1>4, <1>5, <1>6 DEF Next

LEMMA TrackedFirstSteps ==
  ASSUME OneSignal, TypeInv, Links, FateInv, TrackedFirst, [Next]_vars
  PROVE  TrackedFirst'
<1>1. CASE UNCHANGED vars
  BY <1>1 DEF vars, files, external, binance, procs, TrackedFirst, Started, AllTracked, Tracked
<1>2. CASE Next
  <2>1. CopyIsFresh
    BY DEF TrackedFirst, CopyIsFresh
  <2>2. AllTracked => AllTracked'
    BY <1>2, <2>1, TrackedStays DEF AllTracked
  <2>3. Started' => AllTracked'
    BY <1>2, <2>2, FirstStep DEF TrackedFirst
  <2>4. ASSUME recon'.pc = "save", NEW s \in Signals PROVE recon'.copy[s].st # "NONE"
    <3>1. CASE recon' = recon
      BY <2>4, <3>1 DEF TrackedFirst
    <3>2. ASSUME NEW l \in Lists, ReconLoads(l) PROVE recon'.copy[s].st # "NONE"
      <4>0. recon \in ReconRows
        BY DEF TypeInv, ReconOK
      <4>1. l \in recon.todo /\ recon.pc = "rebuild"
        BY <3>2 DEF ReconLoads
      <4>2. AllTracked
        BY <4>1 DEF Links, ReconLinks, TrackedFirst, Started
      <4>3. ~Tracked(Rec(l))
        BY <2>4, <3>2, <4>0, <4>1 DEF ReconLoads, ReconStep, ReconRows
      <4>4. recon' = [recon EXCEPT !.pc = "save", !.copy = pos, !.k = Rec(l)]
        BY <3>2, <4>3 DEF ReconLoads, ReconStep
      <4>5. recon'.copy = pos
        BY <4>0, <4>4 DEF ReconRows
      <4> QED BY <4>2, <4>5 DEF AllTracked, Tracked
    <3>3. CASE recon' # recon /\ \A l \in Lists : ~ReconLoads(l)
      <4>1. recon \in ReconRows
        BY DEF TypeInv, ReconOK
      <4>a. \A pc, k, l : ReconLooks(k, l, pc) => recon'.pc = pc
        BY <4>1 DEF ReconLooks, ReconStep, ReconRows
      <4>b. \A pc : \A k : recon' = [recon EXCEPT !.pc = pc, !.k = k] => recon'.pc = pc
        BY <4>1 DEF ReconRows
      <4>c. \A pc : recon' = [recon EXCEPT !.pc = pc] => recon'.pc = pc
        BY <4>1 DEF ReconRows
      <4>2. ASSUME Reconciler PROVE recon'.pc # "save"
        <5>1. CASE ReconLists \/ ReconFindsUnknown \/ ReconSaves
          BY <4>1, <5>1 DEF ReconLists, ReconFindsUnknown, ReconSaves, ReconStep, ReconRows
        <5>a. IdleRecon.pc = "idle" /\ \A x : [IdleRecon EXCEPT !.pc = "scan", !.ended = x].pc = "scan"
          BY DEF IdleRecon
        <5>2. CASE ReconScans \/ ReconEnds \/ ReconFails
          BY <5>2, <5>a DEF ReconScans, ReconEnds, ReconFails, ReconStep
        <5>3. CASE \E k \in Keys, l \in Lists : ReconQueries(k, l)
          BY <4>a, <5>3 DEF ReconQueries
        <5>4. CASE ReconCloses \/ ReconMarksLost \/ ReconEndsReservation
          BY <4>b, <4>c, <5>4 DEF ReconCloses, ReconMarksLost, ReconEndsReservation, ReconStep
        <5> QED BY <3>3, <4>2, <5>1, <5>2, <5>3, <5>4 DEF Reconciler
      <4>3. Crash \/ CrashInRecord => recon'.pc # "save"
        BY DEF Crash, CrashInRecord, Restarted, IdleRecon
      <4>4. World => recon' = recon
        BY DEF World, MakeBuys, MakePlaces, MakeDrops, ListSells, OwnerCancels, procs
      <4>5. \A h \in Handlers : Relay(h) => recon' = recon
        BY DEF Relay, RelayChecks, RelayReserves, RelayBlocksDuplicate, RelayRecords,
               RelayMarksPending, RelayRejects, RelayLosesAnswer
      <4>6. Recovery => recon' = recon
        BY DEF Recovery, RecovQueriesBuy, RecovRecordsBuy, RecovMarksPending, RecovQueriesOco,
               RecovRecordsOco, RecovProtects
      <4>7. DynamicExit => recon' = recon
        BY DEF DynamicExit, DynLooks, DynCancels, DynMarksPending, DynPlaces, DynRollsBack,
               DynSends, DynRecords, DynFailsNew, DynFailsOld, DynEndsReservation
      <4> QED BY <1>2, <2>4, <3>3, <4>2, <4>3, <4>4, <4>5, <4>6, <4>7 DEF Next
    <3> QED BY <3>1, <3>2, <3>3
  <2> QED BY <2>3, <2>4 DEF TrackedFirst
<1> QED BY <1>1, <1>2

LEMMA TrackedFirstStarts == Leftover = {} /\ Init => TrackedFirst
<1> SUFFICES ASSUME Leftover = {}, Init PROVE TrackedFirst
  OBVIOUS
<1>1. \A l \in Lists : lists[l].st = "none"
  BY DEF Init
<1>2. \A k \in Keys : pos[k].st = "NONE"
  BY DEF Init, FilesInit
<1>3. \A h \in Handlers : relay[h].pc = "idle"
  BY DEF Init, IdleHandler
<1>4. make = {} /\ dyn.pc = "idle" /\ recov.pc = "idle" /\ recon.pc = "idle"
  BY DEF Init, IdleRecov, IdleRecon, IdleDyn
<1> QED BY <1>1, <1>2, <1>3, <1>4 DEF TrackedFirst, Started, Tracked

\* With one signal every BUY that filled is on record as a position or will be
\* resolved, whatever of its request, of its answer and of the processes is lost.
THEOREM SingleFillRemembered == OneSignal => (Spec => []FillNotForgotten)
<1> SUFFICES ASSUME OneSignal PROVE Spec => []FillNotForgotten
  OBVIOUS
<1>1. CASE Leftover # {}
  <2>1. Signals \ (Leftover \cup misled) = {}
    BY <1>1, RuntimeAssumption DEF OneSignal, RuntimeAssumption
  <2>2. FillNotForgotten
    BY <2>1 DEF FillNotForgotten
  <2> QED BY <2>2, PTL
<1>2. CASE Leftover = {}
  <2>1. Init => TrackedFirst
    BY <1>2, TrackedFirstStarts
  <2>2. TypeInv /\ Links /\ FateInv /\ TrackedFirst /\ [Next]_vars => TrackedFirst'
    BY TrackedFirstSteps
  <2>3. TrackedFirst => CopyIsFresh
    BY DEF TrackedFirst, CopyIsFresh
  <2> QED BY <2>1, <2>2, <2>3, TypesHold, LinksHold, FateHolds, OnlyStaleSavesForget, PTL DEF Spec
<1> QED BY <1>1, <1>2
=============================================================================
