------------------------ MODULE SpotRuntimeProperties -----------------------
(***************************************************************************)
(* What the Python execution runtime has to guarantee, and the fairness    *)
(* under which it does.                                                    *)
(***************************************************************************)
EXTENDS SpotRuntime

RowTypes(row) ==
    /\ row.pc \in {"idle", "checked", "posted", "bought"}
    /\ row.k \in Keys /\ row.a \in Actions /\ row.stop \in 0..MaxStop
    /\ row.ans \in Answers

\* The files hold statuses, lists and levels the code writes.
TypeOK ==
    /\ pos \in [Keys -> Positions]
    /\ res \in [Keys -> [Actions -> Reservations]]
    /\ \A h \in Handlers : RowTypes(relay[h])

\* Exact once: a signal's BUY goes to Make at most once, and so does its OCO
\* through the relay, over repeated clicks, concurrent handlers, lost answers,
\* the recovery worker's own requests and restarts of the container.
SubmittedOnce == \A k \in Keys, a \in Actions : posts[k][a] <= 1

\* A BUY that filled at Binance is on record as a position or still waits to be
\* resolved, whenever and however it filled.  The exceptions are a signal whose
\* state was lost with the files and one whose answer Make made an error of
\* after it had bought.  It takes that no list is rebuilt while another signal's
\* BUY is recorded: the reconciler's save puts back what it loaded before, and
\* with two signals the fill is lost (bug_lost_update).
FillNotForgotten ==
    \A s \in Signals \ (Leftover \cup misled) :
        bought[s] = "filled" /\ res[s]["BUY"] # "NONE"
            => Tracked(s) \/ res[s]["BUY"] \in Unresolved

\* A position is booked as closed only after a list of its coin has sold: no
\* order of reads and writes closes a position that was merely unprotected.
ClosedOnSale ==
    \A k \in Keys : pos[k].st = "CLOSED" =>
        \E l \in Lists : lists[l].sig = SignalOf(k) /\ lists[l].sold > 0

\* The stop on file of an active position is the stop of its list at Binance,
\* whoever placed the list and whoever recorded it last: the manager raises the
\* one on file, so it never asks for less than it cancels.
StopOnFileIsLive ==
    \A k \in Keys :
        pos[k].st = "OCO_ACTIVE" /\ pos[k].list \in Lists =>
            pos[k].stop = lists[pos[k].list].stop

\* What the manager promises, "only ratchet the stop upward", and what does not
\* hold: of two lists placed for one coin the later may have the lower stop.
StopNeverLoosens ==
    \A i, j \in Lists :
        i < j /\ lists[i].st # "none" /\ lists[j].st # "none"
          /\ lists[i].sig = lists[j].sig => lists[i].stop <= lists[j].stop

\* A filled BUY ends up as a tracked position, with the same exceptions.
FillIsTracked ==
    \A s \in Signals :
        (bought[s] = "filled" /\ s \notin misled \cup Leftover) ~> Tracked(s)

\* The runtime does not believe for ever in the protection of a list that has
\* ended.
EndedListIsNoticed ==
    \A k \in Keys, l \in Lists :
        (pos[k].st = "OCO_ACTIVE" /\ pos[k].list = l /\ ~Open(l))
            ~> ~(pos[k].st = "OCO_ACTIVE" /\ pos[k].list = l)

\* "protects a confirmed bot BUY if protection was never submitted"
\* (execution_recovery.py:8).
ConfirmedBuyIsSubmitted ==
    \A s \in Signals : OpenPosition(s) ~> (posts[s]["OCO"] > 0 \/ ~OpenPosition(s))

\* Strong for RecovProtects: the relay starts a thread per request, so a busy
\* handler does not keep the worker's request out.
RecoveryWork ==
    /\ \A s \in Signals : WF_vars(RecovQueriesBuy(s))
    /\ WF_vars(RecovRecordsBuy) /\ WF_vars(RecovMarksPending) /\ WF_vars(RecovRecordsOco)
    /\ \A k \in Keys : WF_vars(RecovQueriesOco(k)) /\ SF_vars(RecovProtects(k))

ReconcilerWork ==
    /\ WF_vars(ReconLists) /\ WF_vars(ReconFindsUnknown) /\ WF_vars(ReconSaves)
    /\ WF_vars(ReconScans) /\ WF_vars(ReconCloses) /\ WF_vars(ReconMarksLost)
    /\ WF_vars(ReconEndsReservation) /\ WF_vars(ReconEnds)
    /\ \A l \in Lists : WF_vars(ReconLoads(l))
    /\ \A k \in Keys, l \in Lists : WF_vars(ReconQueries(k, l))

FairSpec ==
    /\ Spec
    /\ \A h \in Handlers : WF_vars(RelayWork(h))
    /\ RecoveryWork /\ ReconcilerWork
=============================================================================
