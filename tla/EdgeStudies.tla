---------------------------- MODULE EdgeStudies ----------------------------
(***************************************************************************)
(* One run of one study of research/ (its data: module StudyPlans).  A     *)
(* study loads the bars of every symbol, walks each symbol's signals from  *)
(* old to new, spaces them, labels each with the bars that follow, sorts   *)
(* the labelled rows into its parts (rows that pick a rule, rows that      *)
(* prove it) and decides.  What matters here is which bars a row has read, *)
(* never what the bars say: whether a bar is a signal, which of the        *)
(* possible bars ends a label, and what a part's figures are, is open.     *)
(***************************************************************************)
EXTENDS StudyPlans

CONSTANTS Plans,        \* the studies that are run
          MaxSignals    \* bound: signals in one run

ASSUME StudyAssumption == MaxSignals \in Nat \ {0}

VARIABLES plan,      \* the study that runs
          step,      \* "load", "walk", "judge", "done", "aborted"
          todo,      \* symbols still to load
          at,        \* the symbol that is walked
          first,     \* its oldest bar
          gone,      \* its bars that the study's filters dropped
          bar,       \* the bar reached
          held,      \* the row the spacing looks back to
          rows,      \* labelled rows
          verdict    \* "none", "PASS", "FAIL"
vars == <<plan, step, todo, at, first, gone, bar, held, rows, verdict>>

NoRow == [sym |-> "none", bar |-> -1, last |-> -1, parts |-> {}]
NoGap == [from |-> 0, to |-> -1]
Symbols == {"known", "new"}     \* "new": held out by its hash, or no longer listed

Init == /\ plan \in Plans
        /\ step = "load" /\ todo = Symbols /\ at = "none" /\ first = 0 /\ gone = NoGap
        /\ bar = -1 /\ held = NoRow /\ rows = {} /\ verdict = "none"

(***************************************************************************)
(* Bars and parts.                                                         *)
(***************************************************************************)
End == plan.load.bars - 1
Reach == plan.label.wait + plan.label.horizon
From(p) == IF p.unit = "share" THEN first + ((End + 1 - first) * p.from) \div 100 ELSE p.from
To(p)   == IF p.unit = "share" THEN first + ((End + 1 - first) * p.to) \div 100 - 1 ELSE p.to
PartsAt(b) == {i \in DOMAIN plan.parts :
                 LET p == plan.parts[i]
                 IN  p.unit # "row" /\ at \in p.who /\ From(p) <= b /\ b <= To(p)}
ByRows == \E i \in DOMAIN plan.parts : plan.parts[i].unit = "row"

\* the bar that is n rows after bar b
RowsOn(b, n) == IF plan.rows.index = "kept" /\ b < gone.from /\ gone.from <= b + n
                THEN b + n + gone.to - gone.from + 1 ELSE b + n
\* the last bar a label that starts at b may look at
DataBound(b) == End    \* wherever its part ends
Bound(b) ==
  LET inPart == IF plan.label.bound = "part" THEN {To(plan.parts[i]) : i \in PartsAt(b)} ELSE {}
      inGap  == IF plan.rows.index = "contiguous" /\ b < gone.from THEN {gone.from - 1} ELSE {}
  IN  Min({End} \cup inPart \cup inGap)
\* the bars at which a label may end: the horizon, or as early as the first bar
LabelEnds(b) ==
  LET whole == RowsOn(b, Reach)
      ends  == (IF plan.label.exit = "horizon" THEN {} ELSE {RowsOn(b, plan.label.wait + 1)})
               \cup {IF plan.label.end = "cut" THEN Min({whole, Bound(b)}) ELSE whole}
  IN  IF plan.label.end = "drop" /\ whole > Bound(b) THEN {}
      ELSE {e \in ends : b < e /\ e <= Bound(b)}

\* bars tried as signals: the ones around the parts' and the data's ends
Cuts == {first, End + 1} \cup {From(plan.parts[i]) : i \in DOMAIN plan.parts}
Tried == {b \in UNION {{c - Reach, c - 1, c, c + 1, c + plan.space.bars} : c \in Cuts \cup {first + plan.rows.warm}} :
            /\ first + plan.rows.warm <= b /\ b <= End
            /\ ~(gone.from <= b /\ b <= gone.to)}
Gaps == IF plan.rows.index = "raw" THEN {NoGap}
        ELSE {NoGap} \cup {[from |-> c - 1, to |-> c + Reach] : c \in Cuts \cap (2..End - Reach)}
                     \cup {g \in [from : {c - 1 : c \in Cuts}, to : Cuts] :
                              1 <= g.from /\ g.from <= g.to /\ g.to <= End - Reach}

(***************************************************************************)
(* Loading.                                                                *)
(***************************************************************************)
\* a young symbol has no more than the bars the study asks for
Listed == {0} \cup (IF plan.load.least > 0 THEN {End + 1 - plan.load.least} ELSE {})
\* the order of the rows does not matter to what they have read
NextSymbol == IF "known" \in todo THEN "known" ELSE "new"
LoadSymbol(s) ==
  /\ step = "load" /\ s = NextSymbol
  /\ todo' = todo \ {s}
  /\ first' \in Listed
  /\ at' = s /\ bar' = -1 /\ held' = NoRow /\ step' = "filter"
  /\ UNCHANGED <<plan, gone, rows, verdict>>
FilterBars ==
  /\ step = "filter"
  /\ gone' \in Gaps
  /\ step' = "walk"
  /\ UNCHANGED <<plan, todo, at, first, bar, held, rows, verdict>>
NextStep(left) == IF left = {} THEN "judge" ELSE "load"
SymbolFails(s) ==
  /\ step = "load" /\ s = NextSymbol
  /\ todo' = todo \ {s}
  /\ step' = IF plan.load.lost = "abort" THEN "aborted" ELSE NextStep(todo')
  /\ UNCHANGED <<plan, at, first, gone, bar, held, rows, verdict>>
\* BTC, the common index or the panel is missing: the script raises
AnchorMissing ==
  /\ step = "load" /\ todo = Symbols /\ plan.load.anchor
  /\ step' = "aborted"
  /\ UNCHANGED <<plan, todo, at, first, gone, bar, held, rows, verdict>>

(***************************************************************************)
(* Walking one symbol.                                                     *)
(***************************************************************************)
Spaced(b) ==
  \/ held = NoRow
  \/ plan.space.kind = "none"
  \/ plan.space.fresh /\ held.parts # PartsAt(b)
  \/ plan.space.kind = "signal" /\ b - held.bar >= plan.space.bars
  \/ plan.space.kind = "busy" /\ b - held.last >= plan.space.bars

Labelled(b) == {[sym |-> at, bar |-> b, last |-> e, parts |-> PartsAt(b)] : e \in LabelEnds(b)}
Unlabelled(b, e) == [NoRow EXCEPT !.bar = b, !.last = e, !.parts = PartsAt(b)]
\* a signal that is too near is passed over; one without a label counts for
\* the spacing of studies that space first and label later
Signal(b) ==
  /\ step = "walk" /\ b \in Tried /\ b > bar /\ Cardinality(rows) < MaxSignals
  /\ ByRows \/ PartsAt(b) # {}
  /\ Spaced(b)
  /\ \/ \E r \in Labelled(b) : rows' = rows \cup {r} /\ held' = r
     \/ /\ Labelled(b) = {} \/ plan.label.exit = "touch only"
        /\ rows' = rows
        /\ held' = IF plan.space.kind = "signal" THEN Unlabelled(b, b)
                   ELSE IF plan.label.exit = "touch only" THEN Unlabelled(b, Min({RowsOn(b, Reach), Bound(b)}))
                   ELSE held
  /\ bar' = b
  /\ UNCHANGED <<plan, step, todo, at, first, gone, verdict>>
SymbolDone ==
  /\ step = "walk"
  /\ step' = NextStep(todo) /\ gone' = NoGap /\ held' = NoRow /\ bar' = -1
  /\ UNCHANGED <<plan, todo, at, first, rows, verdict>>

(***************************************************************************)
(* The parts' rows and the verdict.                                        *)
(***************************************************************************)
\* a part in shares of rows: the rows of its symbols, in time order, by number
Older(q, r) == q.bar < r.bar \/ (q.bar = r.bar /\ q.sym = "known" /\ r.sym = "new")
InPart(i) ==
  LET p == plan.parts[i]
      mine == {r \in rows : r.sym \in p.who}
      Rank(r) == Cardinality({q \in mine : Older(q, r)})
      Nth(share) == (Cardinality(mine) * share) \div 100
  IN  IF p.unit = "row" THEN {r \in mine : Nth(p.from) <= Rank(r) /\ Rank(r) < Nth(p.to)}
      ELSE {r \in rows : i \in r.parts}
EnoughRows == \A i \in DOMAIN plan.parts : Cardinality(InPart(i)) >= plan.parts[i].need
Uses(use) == {i \in DOMAIN plan.parts : plan.parts[i].use = use}
Judge ==
  /\ step = "judge" /\ step' = "done"
  /\ verdict' \in IF EnoughRows /\ Uses("prove") # {} THEN {"PASS", "FAIL"} ELSE {"FAIL"}
  /\ UNCHANGED <<plan, todo, at, first, gone, bar, held, rows>>

Next == \/ AnchorMissing \/ FilterBars \/ SymbolDone \/ Judge
        \/ \E s \in Symbols : LoadSymbol(s) \/ SymbolFails(s)
        \/ \E b \in Tried : Signal(b)
Spec == Init /\ [][Next]_vars
=============================================================================
