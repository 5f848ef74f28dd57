------------------------- MODULE EdgeStudiesProofs -------------------------
(***************************************************************************)
(* Theorems about the studies of research/, for every set of plans that    *)
(* meet the static conditions of EdgeStudiesProperties and any number of   *)
(* signals.  MCEdgeStudies evaluates the conditions on the plans of every  *)
(* script: they hold of the sound ones and fail for each of the others.    *)
(***************************************************************************)
EXTENDS EdgeStudiesProperties, FiniteSetTheorems, WellFoundedInduction, TLAPS

(***************************************************************************)
(* The types.                                                              *)
(***************************************************************************)
Row == [sym : Symbols \cup {"none"}, bar : Int, last : Int, parts : SUBSET (DOMAIN plan.parts)]
TypeOK ==
  /\ plan \in Plans
  /\ step \in {"load", "filter", "walk", "judge", "done", "aborted"}
  /\ todo \subseteq Symbols
  /\ at \in Symbols \cup {"none"} /\ (step \in {"filter", "walk"} => at \in Symbols \ todo)
  /\ first \in Int /\ 0 <= first /\ first <= End + 1
  /\ gone \in [from : Int, to : Int] /\ gone.from <= gone.to + 1
  /\ bar \in Int
  /\ held \in Row /\ rows \subseteq Row /\ IsFiniteSet(rows)
  /\ verdict \in {"none", "PASS", "FAIL"}

(***************************************************************************)
(* The inductive invariant.                                                *)
(***************************************************************************)
\* a symbol is walked once, after it is loaded
Walked ==
  /\ step = "load" => todo # {}
  /\ step = "filter" => held = NoRow
  /\ \A r \in rows : r.sym \in Symbols \ todo /\ (step = "filter" => r.sym # at)
\* what a row has read: the bars after its own, inside what its plan allows
Reads ==
  \A r \in rows :
    /\ r.bar < r.last
    /\ plan.rows.index # "kept" => r.last <= r.bar + Reach
    /\ \A i \in r.parts : LET p == plan.parts[i] IN
         /\ p.unit # "row" /\ r.sym \in p.who
         /\ p.unit = "bar" => p.from <= r.bar /\ r.bar <= p.to /\ (plan.label.bound = "part" => r.last <= p.to)
\* the row that the spacing looks back to is not older than any of the symbol's
\* rows, and where one position is held at a time it ends after those it counts with
Behind ==
  step = "walk" =>
    /\ held # NoRow => held.bar <= bar /\ held.parts = PartsAt(held.bar) /\ held.bar <= held.last
    /\ \A r \in rows : r.sym = at =>
         /\ held # NoRow /\ r.bar <= held.bar /\ r.parts = PartsAt(r.bar)
         /\ Spaces(plan) /\ SpacesRows(plan) /\ plan.space.kind = "busy"
            /\ (~plan.space.fresh \/ r.parts \cap held.parts # {}) => r.last <= held.last
\* two rows that count together have read different bars
PairwiseApart ==
  Spaces(plan) /\ SpacesRows(plan) => \A r, q \in rows :
    r # q /\ (~plan.space.fresh \/ r.parts \cap q.parts # {}) => ~Overlap(r, q)
WellFormedPlans == \A p \in Plans : WellFormed(p)

(***************************************************************************)
(* Least bars.                                                             *)
(***************************************************************************)
LEMMA LeastExists ==
  ASSUME NEW S, S \subseteq Int, NEW b \in Int, S # {}, \A x \in S : b <= x
  PROVE  Min(S) \in S /\ \A x \in S : Min(S) <= x
<1> DEFINE T == {n \in Nat : b + n \in S}
<1>1. T # {}
  <2>1. PICK x \in S : TRUE
    OBVIOUS
  <2>2. x \in Int /\ x - b \in Nat /\ b + (x - b) = x
    BY <2>1
  <2> QED BY <2>1, <2>2
<1>2. T \subseteq Nat
  OBVIOUS
<1> HIDE DEF T
<1>3. PICK m \in T : \A n \in T : ~(<<n, m>> \in OpToRel(<, Nat))
  BY <1>1, <1>2, NatLessThanWellFounded, WFMin
<1>4. m \in Nat /\ b + m \in S
  BY <1>3 DEF T
<1>5. \A x \in S : b + m <= x
  <2> SUFFICES ASSUME NEW x \in S PROVE b + m <= x
    OBVIOUS
  <2>1. x \in Int /\ x - b \in Nat /\ b + (x - b) = x
    OBVIOUS
  <2>2. x - b \in T
    BY <2>1 DEF T
  <2>3. ~(x - b < m)
    BY <2>1, <2>2, <1>3, <1>4 DEF OpToRel
  <2> QED BY <2>1, <2>3, <1>4
<1>6. \E y \in S : \A x \in S : y <= x
  BY <1>4, <1>5
<1> QED BY <1>6 DEF Min

LEMMA ShareGrows ==
  ASSUME NEW n \in Nat, NEW a \in Int, NEW b \in Int, a <= b
  PROVE  (n * a) \div 100 <= (n * b) \div 100
<1>1. PICK d \in Nat : b = a + d
  <2>1. b - a \in Nat /\ b = a + (b - a)
    OBVIOUS
  <2> QED BY <2>1
<1>2. n * (a + d) = n * a + n * d /\ n * d \in Nat /\ n * a \in Int
  OBVIOUS
<1> DEFINE x == n * a   y == n * b
<1>3. x \in Int /\ y \in Int /\ x <= y
  BY <1>1, <1>2
<1> HIDE DEF x, y
<1>4. x \div 100 <= y \div 100
  BY <1>3
<1> QED BY <1>4 DEF x, y

(***************************************************************************)
(* The bars of parts and labels.                                           *)
(***************************************************************************)
LEMMA PlanFields ==
  ASSUME WellFormed(plan)
  PROVE  /\ plan.load.bars \in Nat \ {0} /\ plan.load.least \in Nat /\ plan.load.least <= plan.load.bars
         /\ plan.rows.warm \in Nat /\ plan.space.bars \in Int
         /\ plan.label.wait \in Nat /\ plan.label.horizon \in Nat \ {0}
         /\ Reach \in Nat \ {0} /\ plan.label.wait + 1 <= Reach /\ ReachOf(plan) = Reach
         /\ End \in Nat /\ End + 1 = plan.load.bars
<1>1. /\ plan.load.bars \in Nat \ {0} /\ plan.load.least \in Nat /\ plan.load.least <= plan.load.bars
      /\ plan.rows.warm \in Nat /\ plan.space.bars \in Int
      /\ plan.label.wait \in Nat /\ plan.label.horizon \in Nat \ {0}
  BY DEF WellFormed, PlanTypes
<1> QED BY <1>1 DEF Reach, ReachOf, End

LEMMA PlanParts ==
  ASSUME WellFormed(plan), NEW i \in DOMAIN plan.parts
  PROVE  /\ plan.parts[i].from \in Nat /\ plan.parts[i].to \in Int /\ plan.parts[i].need \in Nat
         /\ plan.parts[i].who \subseteq Symbols
<1> DEFINE P == [use : {"pick", "check", "prove"}, who : SUBSET Symbols, unit : {"bar", "share", "row"},
                 from : Nat, to : Int, need : Nat]
<1>1. plan.parts \in Seq(P)
  BY DEF WellFormed, PlanTypes
<1> DEFINE s == plan.parts
<1>2. s \in Seq(P) /\ i \in DOMAIN s
  BY <1>1
<1>3. s[i] \in P
  <2> HIDE DEF s, P
  <2>1. DOMAIN s = 1..Len(s)
    BY <1>2
  <2> QED BY <1>2, <2>1
<1> QED BY <1>3

LEMMA FromAndTo ==
  ASSUME TypeOK, WellFormed(plan), NEW i \in DOMAIN plan.parts
  PROVE  From(plan.parts[i]) \in Int /\ To(plan.parts[i]) \in Int
<1> DEFINE p == plan.parts[i]   n == End + 1 - first
<1>1. n \in Nat /\ first \in Int
  BY PlanFields DEF TypeOK
<1>2. p.from \in Int /\ p.to \in Int
  BY PlanParts
<1> HIDE DEF p, n
<1>3. n * p.from \in Int /\ n * p.to \in Int
  BY <1>1, <1>2
<1>4. (n * p.from) \div 100 \in Int /\ (n * p.to) \div 100 \in Int
  BY <1>3
<1>5. From(p) \in Int /\ To(p) \in Int
  BY <1>1, <1>2, <1>4 DEF From, To, n
<1> QED BY <1>5 DEF p

\* a bar lies in the data, and in the parts it belongs to
LEMMA PartsHold ==
  ASSUME NEW b, NEW i \in PartsAt(b)
  PROVE  /\ i \in DOMAIN plan.parts /\ plan.parts[i].unit # "row" /\ at \in plan.parts[i].who
         /\ From(plan.parts[i]) <= b /\ b <= To(plan.parts[i])
BY DEF PartsAt

LEMMA BarFits ==
  ASSUME TypeOK, WellFormed(plan), NEW b \in Int, b <= End
  PROVE  /\ Bound(b) \in Int /\ b <= Bound(b) /\ Bound(b) <= End
         /\ plan.label.bound = "part" => \A i \in PartsAt(b) : Bound(b) <= To(plan.parts[i])
<1> DEFINE inPart == IF plan.label.bound = "part" THEN {To(plan.parts[i]) : i \in PartsAt(b)} ELSE {}
           inGap  == IF plan.rows.index = "contiguous" /\ b < gone.from THEN {gone.from - 1} ELSE {}
           S == {End} \cup inPart \cup inGap
<1>1. inPart \subseteq Int /\ \A x \in inPart : b <= x
  BY PartsHold, FromAndTo
<1>2. inGap \subseteq Int /\ \A x \in inGap : b <= x
  <2>1. gone.from \in Int
    BY DEF TypeOK
  <2> QED BY <2>1
<1>3. End \in Int
  BY PlanFields
<1>4. Bound(b) = Min(S)
  BY DEF Bound
<1>5. plan.label.bound = "part" => \A i \in PartsAt(b) : To(plan.parts[i]) \in inPart
  OBVIOUS
<1> HIDE DEF inPart, inGap
<1>6. S \subseteq Int /\ S # {} /\ \A x \in S : b <= x
  BY <1>1, <1>2, <1>3
<1>7. Min(S) \in S /\ \A x \in S : Min(S) <= x
  <2> HIDE DEF S
  <2> QED BY <1>6, LeastExists
<1> QED BY <1>4, <1>5, <1>6, <1>7

LEMMA RowsCounted ==
  ASSUME TypeOK, NEW b \in Int, NEW n \in Nat
  PROVE  /\ RowsOn(b, n) \in Int /\ b + n <= RowsOn(b, n)
         /\ plan.rows.index # "kept" => RowsOn(b, n) = b + n
<1>1. gone.from \in Int /\ gone.to \in Int /\ gone.from <= gone.to + 1
  BY DEF TypeOK
<1> QED BY <1>1 DEF RowsOn

LEMMA LabelsFit ==
  ASSUME TypeOK, WellFormed(plan), NEW b \in Int, b <= End, NEW e \in LabelEnds(b)
  PROVE  /\ e \in Int /\ b < e /\ e <= Bound(b)
         /\ plan.rows.index # "kept" => e <= b + Reach
<1> DEFINE whole == RowsOn(b, Reach)   near == RowsOn(b, plan.label.wait + 1)
           cut == Min({whole, Bound(b)})
<1>0. plan.label.wait + 1 \in Nat /\ Reach \in Nat /\ plan.label.wait + 1 <= Reach
  BY PlanFields
<1>1. whole \in Int /\ near \in Int
  BY <1>0, RowsCounted
<1>2. plan.rows.index # "kept" => whole = b + Reach /\ near = b + (plan.label.wait + 1)
  BY <1>0, RowsCounted
<1>3. Bound(b) \in Int
  BY BarFits
<1>4. cut \in {whole, Bound(b)} /\ cut <= whole
  <2> HIDE DEF whole
  <2> DEFINE y == Bound(b)
  <2> HIDE DEF y
  <2>0. y \in Int
    BY <1>3 DEF y
  <2>1. \E m \in Int : m <= whole /\ m <= y
    BY <1>1, <2>0
  <2>2. PICK m \in Int : m <= whole /\ m <= y
    BY <2>1
  <2>3. Min({whole, y}) \in {whole, y} /\ \A x \in {whole, y} : Min({whole, y}) <= x
    BY <1>1, <2>0, <2>2, LeastExists
  <2> QED BY <2>3 DEF y
<1>5. /\ e \in {near, whole, cut}
      /\ b < e /\ e <= Bound(b)
  BY DEF LabelEnds
<1> HIDE DEF whole, near, cut
<1>6. e \in Int
  BY <1>1, <1>3, <1>4, <1>5
<1>7. plan.rows.index # "kept" => e <= b + Reach
  BY <1>0, <1>1, <1>2, <1>3, <1>4, <1>5, <1>6
<1> QED BY <1>5, <1>6, <1>7

LEMMA CutsTyped ==
  ASSUME TypeOK, WellFormed(plan)
  PROVE  Cuts \subseteq Int
<1>1. first \in Int /\ End \in Int
  BY PlanFields DEF TypeOK
<1>2. \A i \in DOMAIN plan.parts : From(plan.parts[i]) \in Int
  BY FromAndTo
<1> QED BY <1>1, <1>2 DEF Cuts

LEMMA GapsTyped ==
  ASSUME TypeOK, WellFormed(plan), NEW g \in Gaps
  PROVE  g \in [from : Int, to : Int] /\ g.from <= g.to + 1
<1>1. Cuts \subseteq Int /\ Reach \in Nat
  BY CutsTyped, PlanFields
<1>2. CASE g = NoGap
  BY <1>2 DEF NoGap
<1>3. CASE g \in {[from |-> c - 1, to |-> c + Reach] : c \in Cuts \cap (2..End - Reach)}
  <2>1. PICK c \in Cuts \cap (2..End - Reach) : g = [from |-> c - 1, to |-> c + Reach]
    BY <1>3
  <2>2. c \in Int
    BY <1>1, <2>1
  <2> QED BY <1>1, <2>1, <2>2
<1>4. CASE g \in {h \in [from : {c - 1 : c \in Cuts}, to : Cuts] :
                    1 <= h.from /\ h.from <= h.to /\ h.to <= End - Reach}
  <2>1. g \in [from : {c - 1 : c \in Cuts}, to : Cuts] /\ g.from <= g.to
    BY <1>4
  <2>2. {c - 1 : c \in Cuts} \subseteq Int
    <3>1. \A c \in Cuts : c - 1 \in Int
      BY <1>1
    <3> QED BY <3>1
  <2>3. g \in [from : Int, to : Int]
    BY <1>1, <2>1, <2>2
  <2> QED BY <2>1, <2>3
<1> QED BY <1>2, <1>3, <1>4 DEF Gaps

LEMMA TriedBars ==
  ASSUME TypeOK, WellFormed(plan), NEW b \in Tried
  PROVE  b \in Int /\ first <= b /\ 0 <= b /\ b <= End
<1>1. Cuts \subseteq Int /\ Reach \in Int /\ plan.space.bars \in Int /\ plan.rows.warm \in Nat
  BY CutsTyped, PlanFields
<1>2. first \in Int /\ 0 <= first
  BY DEF TypeOK
<1>3. Cuts \cup {first + plan.rows.warm} \subseteq Int
  <2>1. first + plan.rows.warm \in Int
    BY <1>1, <1>2
  <2> QED BY <1>1, <2>1
<1>4. PICK c \in Cuts \cup {first + plan.rows.warm} :
        b \in {c - Reach, c - 1, c, c + 1, c + plan.space.bars}
  BY DEF Tried
<1>5. c \in Int
  BY <1>3, <1>4
<1>6. b \in Int
  BY <1>1, <1>4, <1>5
<1>7. first + plan.rows.warm <= b /\ b <= End
  BY DEF Tried
<1> QED BY <1>1, <1>2, <1>6, <1>7

\* the oldest bar of a symbol that was loaded
LEMMA ListedBars ==
  ASSUME WellFormed(plan), NEW f \in Listed
  PROVE  f \in Int /\ 0 <= f /\ f <= End + 1
<1>1. End + 1 = plan.load.bars /\ plan.load.bars \in Nat /\ plan.load.least \in Nat
      /\ plan.load.least <= plan.load.bars /\ End \in Nat
  BY PlanFields
<1>2. f = 0 \/ f = End + 1 - plan.load.least
  BY DEF Listed
<1> QED BY <1>1, <1>2

\* what Signal does: a row with its label, or a signal without one
NewRow(b, e) == [sym |-> at, bar |-> b, last |-> e, parts |-> PartsAt(b)]
LEMMA SignalCases ==
  ASSUME TypeOK, WellFormed(plan), NEW b \in Tried, Signal(b)
  PROVE  \/ \E e \in LabelEnds(b) : rows' = rows \cup {NewRow(b, e)} /\ held' = NewRow(b, e)
         \/ rows' = rows /\ held' = held /\ plan.space.kind # "signal"
         \/ \E e \in Int : b <= e /\ rows' = rows /\ held' = Unlabelled(b, e)
<1> DEFINE y == Bound(b)   whole == RowsOn(b, Reach)
<1>1. b \in Int /\ b <= End
  BY TriedBars
<1>2. y \in Int /\ b <= y
  BY <1>1, BarFits
<1>3. Reach \in Nat
  BY PlanFields
<1>4. whole \in Int /\ b + Reach <= whole
  BY <1>1, <1>3, RowsCounted
<1> HIDE DEF y, whole
<1>5. Min({whole, y}) \in Int /\ b <= Min({whole, y})
  <2>1. b <= whole
    BY <1>1, <1>3, <1>4
  <2>2. Min({whole, y}) \in {whole, y}
    BY <1>1, <1>2, <1>4, <2>1, LeastExists
  <2> QED BY <1>2, <1>4, <2>1, <2>2
<1>6. ASSUME NEW r \in Labelled(b), rows' = rows \cup {r}, held' = r
      PROVE  \E e \in LabelEnds(b) : rows' = rows \cup {NewRow(b, e)} /\ held' = NewRow(b, e)
  BY <1>6 DEF Labelled, NewRow
<1>7. ASSUME rows' = rows,
             held' = IF plan.space.kind = "signal" THEN Unlabelled(b, b)
                     ELSE IF plan.label.exit = "touch only" THEN Unlabelled(b, Min({whole, y}))
                     ELSE held
      PROVE  \/ rows' = rows /\ held' = held /\ plan.space.kind # "signal"
             \/ \E e \in Int : b <= e /\ rows' = rows /\ held' = Unlabelled(b, e)
  <2>1. CASE plan.space.kind = "signal"
    BY <1>1, <1>7, <2>1
  <2>2. CASE plan.space.kind # "signal" /\ plan.label.exit = "touch only"
    BY <1>5, <1>7, <2>2
  <2>3. CASE plan.space.kind # "signal" /\ plan.label.exit # "touch only"
    BY <1>7, <2>3
  <2> QED BY <2>1, <2>2, <2>3
<1>8. \/ \E r \in Labelled(b) : rows' = rows \cup {r} /\ held' = r
      \/ /\ rows' = rows
         /\ held' = IF plan.space.kind = "signal" THEN Unlabelled(b, b)
                    ELSE IF plan.label.exit = "touch only" THEN Unlabelled(b, Min({whole, y}))
                    ELSE held
  BY DEF Signal, whole, y
<1> QED BY <1>6, <1>7, <1>8

LEMMA RowsTyped ==
  ASSUME TypeOK, WellFormed(plan), NEW b \in Int, b <= End, at \in Symbols, NEW e \in Int
  PROVE  NewRow(b, e) \in Row /\ Unlabelled(b, e) \in Row
<1>1. PartsAt(b) \subseteq DOMAIN plan.parts
  BY DEF PartsAt
<1> QED BY <1>1 DEF NewRow, Unlabelled, NoRow, Row

LEMMA TypesStart == WellFormedPlans /\ Init => TypeOK
<1> SUFFICES ASSUME WellFormedPlans, Init PROVE TypeOK
  OBVIOUS
<1>1. plan \in Plans /\ WellFormed(plan)
  BY DEF Init, WellFormedPlans
<1>2. End \in Nat
  BY <1>1, PlanFields
<1>3. held \in Row
  BY DEF Init, Row, NoRow
<1>4. IsFiniteSet(rows)
  BY FS_EmptySet DEF Init
<1>5. gone \in [from : Int, to : Int] /\ gone.from <= gone.to + 1
  BY DEF Init, NoGap
<1> QED BY <1>1, <1>2, <1>3, <1>4, <1>5 DEF Init, TypeOK

LEMMA TypesStep == WellFormedPlans /\ TypeOK /\ [Next]_vars => TypeOK'
<1> SUFFICES ASSUME WellFormedPlans, TypeOK, [Next]_vars PROVE TypeOK'
  OBVIOUS
<1>0. WellFormed(plan)
  BY DEF TypeOK, WellFormedPlans
<1>a. NoRow \in Row /\ NoGap \in [from : Int, to : Int] /\ NoGap.from <= NoGap.to + 1
  BY DEF NoRow, NoGap, Row
<1>1. ASSUME NEW s \in Symbols, LoadSymbol(s) PROVE TypeOK'
  <2>1. first' \in Int /\ 0 <= first' /\ first' <= End + 1
    BY <1>0, <1>1, ListedBars DEF LoadSymbol
  <2> QED BY <1>1, <1>a, <2>1 DEF LoadSymbol, TypeOK, End, Row
<1>2. ASSUME NEW s \in Symbols, SymbolFails(s) PROVE TypeOK'
  BY <1>2 DEF SymbolFails, NextStep, TypeOK, End, Row
<1>3. CASE AnchorMissing
  BY <1>3 DEF AnchorMissing, TypeOK, End, Row
<1>4. CASE FilterBars
  <2>1. gone' \in [from : Int, to : Int] /\ gone'.from <= gone'.to + 1
    BY <1>0, <1>4, GapsTyped DEF FilterBars
  <2> QED BY <1>4, <2>1 DEF FilterBars, TypeOK, End, Row
<1>5. CASE SymbolDone
  BY <1>5, <1>a DEF SymbolDone, NextStep, TypeOK, End, Row
<1>6. CASE Judge
  BY <1>6 DEF Judge, TypeOK, End, Row
<1>7. ASSUME NEW b \in Tried, Signal(b) PROVE TypeOK'
  <2>1. b \in Int /\ b <= End
    BY <1>0, TriedBars
  <2>2. at \in Symbols
    BY <1>7 DEF Signal, TypeOK
  <2>3. held' \in Row /\ rows' \subseteq Row /\ IsFiniteSet(rows')
    <3>1. ASSUME NEW e \in LabelEnds(b), rows' = rows \cup {NewRow(b, e)}, held' = NewRow(b, e)
          PROVE  held' \in Row /\ rows' \subseteq Row /\ IsFiniteSet(rows')
      <4>1. e \in Int
        BY <1>0, <2>1, LabelsFit
      <4>2. NewRow(b, e) \in Row
        BY <1>0, <2>1, <2>2, <4>1, RowsTyped
      <4>3. IsFiniteSet(rows') 
        BY <3>1, FS_AddElement DEF TypeOK
      <4> QED BY <3>1, <4>2, <4>3 DEF TypeOK
    <3>2. ASSUME NEW e \in Int, rows' = rows, held' = Unlabelled(b, e)
          PROVE  held' \in Row /\ rows' \subseteq Row /\ IsFiniteSet(rows')
      BY <1>0, <2>1, <2>2, <3>2, RowsTyped DEF TypeOK
    <3>3. ASSUME rows' = rows, held' = held
          PROVE  held' \in Row /\ rows' \subseteq Row /\ IsFiniteSet(rows')
      BY <3>3 DEF TypeOK
    <3> QED BY <1>0, <1>7, <3>1, <3>2, <3>3, SignalCases
  <2> QED BY <1>7, <2>1, <2>3 DEF Signal, TypeOK, End, Row
<1>8. CASE UNCHANGED vars
  BY <1>8 DEF vars, TypeOK, End, Row
<1> QED BY <1>1, <1>2, <1>3, <1>4, <1>5, <1>6, <1>7, <1>8 DEF Next

(***************************************************************************)
(* A row is preserved by the steps that leave the rows and the plan alone. *)
(***************************************************************************)
\* a bar between two bars of a part is of that part
LEMMA BetweenBars ==
  ASSUME TypeOK, WellFormed(plan), NEW b \in Int, NEW c \in Int, NEW d \in Int, b <= c, c <= d,
         NEW i \in PartsAt(b), i \in PartsAt(d)
  PROVE  i \in PartsAt(c)
<1>1. i \in DOMAIN plan.parts /\ plan.parts[i].unit # "row" /\ at \in plan.parts[i].who
      /\ From(plan.parts[i]) <= b /\ d <= To(plan.parts[i])
  BY PartsHold
<1>2. From(plan.parts[i]) \in Int /\ To(plan.parts[i]) \in Int
  BY <1>1, FromAndTo
<1>3. From(plan.parts[i]) <= c /\ c <= To(plan.parts[i])
  BY <1>1, <1>2
<1> QED BY <1>1, <1>3 DEF PartsAt

\* disjoint parts share no bar of a symbol
LEMMA OnePart ==
  ASSUME TypeOK, WellFormed(plan), NEW b \in Int, NEW i \in PartsAt(b), NEW j \in PartsAt(b),
         Disjoint(plan.parts[i], plan.parts[j])
  PROVE  FALSE
<1> DEFINE p == plan.parts[i]   q == plan.parts[j]   n == End + 1 - first
<1>1. i \in DOMAIN plan.parts /\ j \in DOMAIN plan.parts /\ at \in p.who /\ at \in q.who
  BY PartsHold
<1>2. From(p) <= b /\ b <= To(p) /\ From(q) <= b /\ b <= To(q)
  BY PartsHold
<1>3. n \in Nat /\ first \in Int
  BY PlanFields DEF TypeOK
<1>4. p.from \in Int /\ p.to \in Int /\ q.from \in Int /\ q.to \in Int
  BY <1>1, PlanParts
<1>d. Disjoint(p, q)
  OBVIOUS
<1> HIDE DEF p, q
<1>5. p.who \cap q.who # {}
  BY <1>1
<1>6. CASE p.unit = "bar" /\ q.unit = "bar" /\ (p.to < q.from \/ q.to < p.from)
  <2>1. From(p) = p.from /\ To(p) = p.to /\ From(q) = q.from /\ To(q) = q.to
    BY <1>6 DEF From, To
  <2> QED BY <1>2, <1>4, <1>6, <2>1
<1>7. CASE p.unit = "share" /\ q.unit = "share" /\ (p.to <= q.from \/ q.to <= p.from)
  <2> DEFINE F(x) == (n * x) \div 100
  <2>1. /\ From(p) = first + F(p.from) /\ To(p) = first + F(p.to) - 1
        /\ From(q) = first + F(q.from) /\ To(q) = first + F(q.to) - 1
    BY <1>7 DEF From, To
  <2>2. \A x \in Int : F(x) \in Int
    <3> SUFFICES ASSUME NEW x \in Int PROVE F(x) \in Int
      OBVIOUS
    <3> HIDE DEF n
    <3>1. n * x \in Int
      BY <1>3
    <3> QED BY <3>1
  <2>3. \A x, y \in Int : x <= y => F(x) <= F(y)
    <3> HIDE DEF n
    <3> QED BY <1>3, ShareGrows
  <2> HIDE DEF F, n
  <2>4. F(p.from) \in Int /\ F(p.to) \in Int /\ F(q.from) \in Int /\ F(q.to) \in Int
    BY <1>4, <2>2
  <2>5. F(p.to) <= F(q.from) \/ F(q.to) <= F(p.from)
    BY <1>4, <1>7, <2>3
  <2>6. b \in Int /\ first \in Int
    BY <1>3
  <2> DEFINE a1 == F(p.from)   a2 == F(p.to)   b1 == F(q.from)   b2 == F(q.to)
  <2>7. /\ a1 \in Int /\ a2 \in Int /\ b1 \in Int /\ b2 \in Int
        /\ first + a1 <= b /\ b <= first + a2 - 1 /\ first + b1 <= b /\ b <= first + b2 - 1
        /\ a2 <= b1 \/ b2 <= a1
    BY <1>2, <2>1, <2>4, <2>5
  <2> HIDE DEF a1, a2, b1, b2
  <2> QED BY <2>6, <2>7
<1> QED BY <1>d, <1>5, <1>6, <1>7 DEF Disjoint

\* The heart of it: where the spacing holds, every row that counts together with
\* a new signal has ended when the signal comes.
LEMMA EarlierRowsEnded ==
  ASSUME TypeOK, WellFormed(plan), Reads, Behind, step = "walk",
         NEW b \in Tried, b > bar, Spaced(b), Spaces(plan), SpacesRows(plan),
         NEW r \in rows, r.sym = at,
         ~plan.space.fresh \/ r.parts \cap PartsAt(b) # {}
  PROVE  r.last <= b
<1>1. b \in Int /\ bar \in Int /\ Reach \in Nat /\ ReachOf(plan) = Reach /\ plan.space.bars \in Int
  BY TriedBars, PlanFields DEF TypeOK
<1>2. r.bar \in Int /\ r.last \in Int /\ held.bar \in Int /\ held.last \in Int
  BY DEF TypeOK, Row
<1>3. /\ held # NoRow /\ r.bar <= held.bar /\ r.parts = PartsAt(r.bar)
      /\ held.bar <= bar /\ held.parts = PartsAt(held.bar)
  BY DEF Behind
<1>4. plan.space.fresh => held.parts = PartsAt(b)
  <2> SUFFICES ASSUME plan.space.fresh PROVE held.parts = PartsAt(b)
    OBVIOUS
  <2>1. PICK i \in PartsAt(r.bar) : i \in PartsAt(b)
    BY <1>3
  <2>2. i \in PartsAt(held.bar)
    BY <1>1, <1>2, <1>3, <2>1, BetweenBars
  <2>3. \A c \in Int : i \in PartsAt(c) => PartsAt(c) = {i}
    <3> SUFFICES ASSUME NEW c \in Int, i \in PartsAt(c), NEW j \in PartsAt(c), j # i PROVE FALSE
      OBVIOUS
    <3>1. i \in DOMAIN plan.parts /\ j \in DOMAIN plan.parts
      BY PartsHold
    <3>2. Disjoint(plan.parts[i], plan.parts[j])
      BY <3>1 DEF SpacesRows
    <3> QED BY <3>2, OnePart
  <2> QED BY <1>1, <1>2, <1>3, <2>1, <2>2, <2>3
<1>5. ~plan.space.fresh \/ r.parts \cap held.parts # {}
  BY <1>4
<1>6. CASE plan.space.kind = "signal"
  <2>1. b - held.bar >= plan.space.bars /\ plan.space.bars >= Reach
    BY <1>1, <1>3, <1>4, <1>6 DEF Spaced, Spaces
  <2>2. r.last <= r.bar + Reach
    BY <1>6 DEF SpacesRows, Reads
  <2> QED BY <1>1, <1>2, <1>3, <2>1, <2>2
<1>7. CASE plan.space.kind = "busy"
  <2>1. b - held.last >= plan.space.bars /\ plan.space.bars >= 0
    BY <1>3, <1>4, <1>7 DEF Spaced, SpacesRows
  <2>2. r.last <= held.last
    BY <1>5, <1>7 DEF Behind
  <2> QED BY <1>1, <1>2, <2>1, <2>2
<1> QED BY <1>6, <1>7 DEF Spaces

(***************************************************************************)
(* The invariant is inductive.                                             *)
(***************************************************************************)
IInv == TypeOK /\ Walked /\ Reads /\ Behind /\ PairwiseApart

LEMMA IInvStarts == WellFormedPlans /\ Init => IInv
<1> SUFFICES ASSUME WellFormedPlans, Init PROVE IInv
  OBVIOUS
<1>1. TypeOK
  BY TypesStart
<1>2. rows = {} /\ step = "load" /\ todo # {} /\ verdict = "none"
  BY DEF Init, Symbols
<1> QED BY <1>1, <1>2 DEF IInv, Walked, Reads, Behind, PairwiseApart

\* steps that leave the rows and the plan alone
LEMMA RowsKept ==
  ASSUME IInv, rows' = rows, plan' = plan
  PROVE  Reads' /\ PairwiseApart'
<1>1. Reads'
  BY DEF IInv, Reads, Reach
<1>2. PairwiseApart'
  BY DEF IInv, PairwiseApart, Overlap, Spaces, SpacesRows, ReachOf, Disjoint
<1> QED BY <1>1, <1>2

LEMMA LoadStep ==
  ASSUME IInv, NEW s \in Symbols, LoadSymbol(s)
  PROVE  Walked' /\ Behind' /\ Reads' /\ PairwiseApart'
<1>1. step = "load" /\ step' = "filter" /\ rows' = rows /\ plan' = plan /\ todo' = todo \ {s}
      /\ at' = s /\ held' = NoRow /\ verdict' = verdict /\ s = NextSymbol
  BY DEF LoadSymbol
<1>2. todo \subseteq Symbols /\ todo # {}
  BY <1>1 DEF IInv, TypeOK, Walked
<1>3. s \in todo
  BY <1>1, <1>2 DEF NextSymbol, Symbols
<1>4. Walked'
  BY <1>1, <1>2, <1>3 DEF IInv, Walked
<1> QED BY <1>1, <1>4, RowsKept DEF Behind

LEMMA FilterStep ==
  ASSUME IInv, FilterBars
  PROVE  Walked' /\ Behind' /\ Reads' /\ PairwiseApart'
<1>1. step = "filter" /\ step' = "walk" /\ rows' = rows /\ plan' = plan /\ todo' = todo
      /\ at' = at /\ held' = held /\ verdict' = verdict
  BY DEF FilterBars
<1>2. held = NoRow /\ \A r \in rows : r.sym # at
  BY <1>1 DEF IInv, Walked
<1>3. Walked' /\ Behind'
  BY <1>1, <1>2 DEF IInv, Walked, Behind
<1> QED BY <1>1, <1>3, RowsKept

LEMMA OtherSteps ==
  ASSUME IInv, SymbolDone \/ AnchorMissing \/ \E s \in Symbols : SymbolFails(s)
  PROVE  Walked' /\ Behind' /\ Reads' /\ PairwiseApart'
<1>1. /\ step \in {"load", "walk"} /\ step' \in {"load", "judge", "aborted"}
      /\ rows' = rows /\ plan' = plan /\ verdict' = verdict /\ todo' \subseteq todo
  BY DEF SymbolDone, AnchorMissing, SymbolFails, NextStep
<1>2. step' = "load" => todo' # {}
  BY DEF SymbolDone, AnchorMissing, SymbolFails, NextStep
<1>3. Walked'
  BY <1>1, <1>2 DEF IInv, Walked
<1> QED BY <1>1, <1>3, RowsKept DEF Behind

LEMMA JudgeStep ==
  ASSUME IInv, Judge
  PROVE  Walked' /\ Behind' /\ Reads' /\ PairwiseApart'
<1>1. step = "judge" /\ step' = "done" /\ rows' = rows /\ plan' = plan /\ todo' = todo
  BY DEF Judge
<1>2. Walked' /\ Behind'
  BY <1>1 DEF IInv, Walked, Behind
<1> QED BY <1>1, <1>2, RowsKept

LEMMA NewRowReads ==
  ASSUME TypeOK, WellFormed(plan), at \in Symbols, NEW b \in Int, b <= End, NEW e \in LabelEnds(b),
         NEW i \in PartsAt(b)
  PROVE  LET p == plan.parts[i] IN
           /\ p.unit # "row" /\ at \in p.who
           /\ p.unit = "bar" => p.from <= b /\ b <= p.to /\ (plan.label.bound = "part" => e <= p.to)
<1> DEFINE p == plan.parts[i]   y == Bound(b)
<1>1. p.unit # "row" /\ at \in p.who /\ From(p) <= b /\ b <= To(p) /\ i \in DOMAIN plan.parts
  BY PartsHold
<1>2. p.from \in Int /\ p.to \in Int
  BY <1>1, PlanParts
<1>3. e \in Int /\ e <= y /\ y \in Int
  BY LabelsFit, BarFits
<1>4. plan.label.bound = "part" => y <= To(p)
  BY BarFits
<1> HIDE DEF p, y
<1>5. p.unit = "bar" => From(p) = p.from /\ To(p) = p.to
  BY DEF From, To
<1>6. p.unit = "bar" => p.from <= b /\ b <= p.to /\ (plan.label.bound = "part" => e <= p.to)
  BY <1>1, <1>2, <1>3, <1>4, <1>5
<1>7. p.unit # "row" /\ at \in p.who
  BY <1>1
<1> QED BY <1>6, <1>7 DEF p

LEMMA SignalStep ==
  ASSUME WellFormed(plan), IInv, NEW b \in Tried, Signal(b)
  PROVE  Walked' /\ Behind' /\ Reads' /\ PairwiseApart'
<1>1. /\ step = "walk" /\ b > bar /\ Spaced(b) /\ bar' = b
      /\ plan' = plan /\ step' = step /\ todo' = todo /\ at' = at /\ first' = first /\ verdict' = verdict
  BY DEF Signal
<1>2. TypeOK /\ Walked /\ Reads /\ Behind /\ PairwiseApart
  BY DEF IInv
<1>3. b \in Int /\ 0 <= b /\ b <= End /\ bar \in Int /\ at \in Symbols \ todo
  BY <1>1, <1>2, TriedBars DEF TypeOK
<1>5. Spaces(plan)' = Spaces(plan) /\ SpacesRows(plan)' = SpacesRows(plan) /\ Reach' = Reach
  BY <1>1 DEF Spaces, SpacesRows, ReachOf, Disjoint, Reach
<1>6. \A c : PartsAt(c)' = PartsAt(c)
  BY <1>1 DEF PartsAt, From, To, End
<1>7. \A r \in rows : r.bar \in Int /\ r.last \in Int
  BY <1>2 DEF TypeOK, Row
<1>8. held.bar \in Int /\ held.last \in Int
  BY <1>2 DEF TypeOK, Row
<1>9. \A r \in rows : r.sym = at =>
        held # NoRow /\ r.bar <= held.bar /\ r.parts = PartsAt(r.bar) /\ held.bar <= bar /\ r.bar <= b
  BY <1>1, <1>2, <1>3, <1>7, <1>8 DEF Behind
<1>10. \A r \in rows : Spaces(plan) /\ SpacesRows(plan) /\ r.sym = at
                       /\ (~plan.space.fresh \/ r.parts \cap PartsAt(b) # {}) => r.last <= b
  BY <1>1, <1>2, EarlierRowsEnded
<1>11. ASSUME NEW e \in LabelEnds(b), rows' = rows \cup {NewRow(b, e)}, held' = NewRow(b, e)
       PROVE  Walked' /\ Behind' /\ Reads' /\ PairwiseApart'
  <2> DEFINE x == NewRow(b, e)
  <2>1. x.sym = at /\ x.bar = b /\ x.last = e /\ x.parts = PartsAt(b)
    BY DEF NewRow
  <2>2. e \in Int /\ b < e /\ (plan.rows.index # "kept" => e <= b + Reach)
    BY <1>2, <1>3, LabelsFit
  <2>3. x # NoRow
    BY <1>3, <2>1 DEF NoRow
  <2>4. rows' = rows \cup {x} /\ held' = x
    BY <1>11
  <2> HIDE DEF x
  <2>5. Walked'
    BY <1>1, <1>2, <1>3, <2>1, <2>4 DEF Walked
  <2>6. Reads'
    <3> SUFFICES ASSUME NEW r \in rows'
                 PROVE  /\ r.bar < r.last
                        /\ plan.rows.index # "kept" => r.last <= r.bar + Reach
                        /\ \A i \in r.parts : LET p == plan.parts[i] IN
                             /\ p.unit # "row" /\ r.sym \in p.who
                             /\ p.unit = "bar" => /\ p.from <= r.bar /\ r.bar <= p.to
                                                  /\ plan.label.bound = "part" => r.last <= p.to
      BY <1>1, <1>5 DEF Reads
    <3>1. CASE r \in rows
      BY <1>2, <3>1 DEF Reads
    <3>2. CASE r = x
      <4>1. \A i \in PartsAt(b) : LET p == plan.parts[i] IN
             /\ p.unit # "row" /\ at \in p.who
             /\ p.unit = "bar" => p.from <= b /\ b <= p.to /\ (plan.label.bound = "part" => e <= p.to)
        BY <1>2, <1>3, NewRowReads
      <4> QED BY <2>1, <2>2, <3>2, <4>1
    <3> QED BY <2>4, <3>1, <3>2
  <2>7. Behind'
    <3>1. held'.bar <= bar' /\ held'.parts = PartsAt(held'.bar) /\ held'.bar <= held'.last /\ held' # NoRow
      BY <1>1, <1>3, <2>1, <2>2, <2>3, <2>4
    <3>2. ASSUME NEW r \in rows', r.sym = at
          PROVE  /\ r.bar <= held'.bar /\ r.parts = PartsAt(r.bar)
                 /\ Spaces(plan) /\ SpacesRows(plan) /\ plan.space.kind = "busy"
                    /\ (~plan.space.fresh \/ r.parts \cap held'.parts # {}) => r.last <= held'.last
      <4>1. CASE r = x
        BY <1>3, <2>1, <2>2, <2>4, <4>1
      <4>2. CASE r \in rows
        BY <1>3, <1>7, <1>9, <1>10, <2>1, <2>2, <2>4, <3>2, <4>2
      <4> QED BY <2>4, <4>1, <4>2
    <3> QED BY <1>1, <1>5, <1>6, <3>1, <3>2 DEF Behind
  <2>8. PairwiseApart'
    <3> SUFFICES ASSUME Spaces(plan), SpacesRows(plan), NEW r \in rows', NEW q \in rows', r # q,
                        ~plan.space.fresh \/ r.parts \cap q.parts # {}
                 PROVE  ~Overlap(r, q)
      BY <1>1, <1>5 DEF PairwiseApart, Overlap
    <3>1. ASSUME NEW y \in rows, ~plan.space.fresh \/ y.parts \cap PartsAt(b) # {}
          PROVE  ~Overlap(y, x) /\ ~Overlap(x, y)
      <4>1. CASE y.sym # at
        BY <2>1, <4>1 DEF Overlap
      <4>2. CASE y.sym = at
        <5>1. y.last <= b /\ y.last \in Int
          BY <1>7, <1>10, <3>1, <4>2
        <5> QED BY <1>3, <2>1, <5>1 DEF Overlap
      <4> QED BY <4>1, <4>2
    <3>2. CASE r \in rows /\ q \in rows
      BY <1>2, <3>2 DEF PairwiseApart
    <3>3. CASE r = x /\ q \in rows
      BY <2>1, <3>1, <3>3
    <3>4. CASE r \in rows /\ q = x
      BY <2>1, <3>1, <3>4
    <3> QED BY <2>4, <3>2, <3>3, <3>4
  <2> QED BY <2>5, <2>6, <2>7, <2>8
<1>12. ASSUME rows' = rows,
              \/ held' = held /\ plan.space.kind # "signal"
              \/ \E e \in Int : b <= e /\ held' = Unlabelled(b, e)
       PROVE  Walked' /\ Behind' /\ Reads' /\ PairwiseApart'
  <2>1. Walked'
    BY <1>1, <1>2, <1>3, <1>12 DEF Walked
  <2>2. Reads' /\ PairwiseApart'
    BY <1>1, <1>12, RowsKept
  <2>3. CASE held' = held
    <3>1. held # NoRow => held.bar <= bar /\ held.parts = PartsAt(held.bar) /\ held.bar <= held.last
      BY <1>1, <1>2 DEF Behind
    <3>2. held # NoRow => held.bar <= b
      BY <1>1, <1>3, <1>8, <3>1
    <3> QED BY <1>1, <1>2, <1>5, <1>6, <1>9, <1>12, <2>1, <2>2, <2>3, <3>1, <3>2 DEF Behind
  <2>4. ASSUME NEW e \in Int, b <= e, held' = Unlabelled(b, e) PROVE Behind'
    <3>1. held'.bar = b /\ held'.last = e /\ held'.parts = PartsAt(b) /\ held' # NoRow
      <4>1. held' = [sym |-> "none", bar |-> b, last |-> e, parts |-> PartsAt(b)]
        BY <2>4 DEF Unlabelled, NoRow
      <4>2. NoRow.bar = -1 /\ b # -1
        BY <1>3 DEF NoRow
      <4> QED BY <4>1, <4>2
    <3>2. ASSUME NEW r \in rows, r.sym = at
          PROVE  /\ r.bar <= held'.bar /\ r.parts = PartsAt(r.bar)
                 /\ Spaces(plan) /\ SpacesRows(plan) /\ plan.space.kind = "busy"
                    /\ (~plan.space.fresh \/ r.parts \cap held'.parts # {}) => r.last <= held'.last
      <4>1. Spaces(plan) /\ SpacesRows(plan) /\ (~plan.space.fresh \/ r.parts \cap held'.parts # {})
              => r.last <= b
        BY <1>10, <3>1, <3>2
      <4>2. r.last <= b => r.last <= held'.last
        BY <1>3, <1>7, <2>4, <3>1
      <4> QED BY <1>9, <3>1, <3>2, <4>1, <4>2
    <3>3. held'.bar <= b /\ held'.bar <= held'.last /\ held'.parts = PartsAt(held'.bar)
      BY <1>3, <2>4, <3>1
    <3> QED BY <1>1, <1>5, <1>6, <1>12, <3>1, <3>2, <3>3 DEF Behind
  <2> QED BY <1>12, <2>1, <2>2, <2>3, <2>4
<1> QED BY <1>2, <1>11, <1>12, SignalCases

LEMMA IInvSteps == WellFormedPlans /\ IInv /\ [Next]_vars => IInv'
<1> SUFFICES ASSUME WellFormedPlans, IInv, [Next]_vars PROVE IInv'
  OBVIOUS
<1>0. WellFormed(plan)
  BY DEF IInv, TypeOK, WellFormedPlans
<1>1. TypeOK'
  BY TypesStep DEF IInv
<1>2. CASE UNCHANGED vars
  <2>1. Reads' /\ PairwiseApart'
    BY <1>2, RowsKept DEF vars
  <2>2. \A c : PartsAt(c)' = PartsAt(c)
    BY <1>2 DEF vars, PartsAt, From, To, End
  <2>3. Spaces(plan)' = Spaces(plan) /\ SpacesRows(plan)' = SpacesRows(plan)
    BY <1>2 DEF vars
  <2>5. Behind' /\ Walked'
    BY <1>2, <2>2, <2>3 DEF IInv, vars, Behind, Walked
  <2> QED BY <1>1, <2>1, <2>5 DEF IInv
<1>3. CASE Next
  <2>1. Walked' /\ Behind' /\ Reads' /\ PairwiseApart'
    BY <1>0, <1>3, LoadStep, FilterStep, OtherSteps, JudgeStep, SignalStep DEF Next
  <2> QED BY <1>1, <2>1 DEF IInv
<1> QED BY <1>2, <1>3

\* Every state of every run keeps the types, the bars a row has read and the
\* spacing's look-back in step.
THEOREM StudyInvariantHolds == WellFormedPlans => (Spec => []IInv)
<1> SUFFICES ASSUME WellFormedPlans PROVE Spec => []IInv
  OBVIOUS
<1>1. Init => IInv
  BY IInvStarts
<1>2. IInv /\ [Next]_vars => IInv'
  BY IInvSteps
<1> QED BY <1>1, <1>2, PTL DEF Spec

(***************************************************************************)
(* What it means for the verdicts.                                         *)
(***************************************************************************)
LEMMA ReadsInPart ==
  ASSUME IInv, NEW i \in DOMAIN plan.parts, NEW r \in InPart(i)
  PROVE  /\ r \in rows /\ r.sym \in plan.parts[i].who
         /\ plan.parts[i].unit = "bar" =>
              /\ plan.parts[i].from <= r.bar /\ r.bar <= plan.parts[i].to
              /\ plan.label.bound = "part" => r.last <= plan.parts[i].to
         /\ plan.parts[i].unit # "row" => i \in r.parts
<1>1. CASE plan.parts[i].unit = "row"
  BY <1>1 DEF InPart
<1>2. CASE plan.parts[i].unit # "row"
  <2>1. r \in rows /\ i \in r.parts
    BY <1>2 DEF InPart
  <2> QED BY <1>2, <2>1 DEF IInv, Reads
<1> QED BY <1>1, <1>2

\* labels of a part that ends before another part starts
LEMMA EndedBefore ==
  ASSUME IInv, WellFormed(plan), NEW i \in DOMAIN plan.parts, NEW j \in DOMAIN plan.parts,
         EndsBefore(plan, plan.parts[i], plan.parts[j]), NEW r \in InPart(i), NEW q \in InPart(j)
  PROVE  ~(q.bar < r.last)
<1> DEFINE a == plan.parts[i]   c == plan.parts[j]
<1>1. a.to \in Int /\ c.from \in Int
  BY PlanParts
<1>2. Reach \in Int /\ ReachOf(plan) = Reach
  BY PlanFields
<1>3. r \in rows /\ q \in rows /\ a.unit = "bar" /\ c.unit = "bar"
  BY ReadsInPart DEF EndsBefore
<1>4. r.bar \in Int /\ r.last \in Int /\ q.bar \in Int
  BY <1>3 DEF IInv, TypeOK, Row
<1>5. r.bar <= a.to /\ c.from <= q.bar /\ (plan.label.bound = "part" => r.last <= a.to)
  BY <1>3, ReadsInPart
<1>6. plan.rows.index # "kept" => r.last <= r.bar + Reach
  BY <1>3 DEF IInv, Reads
<1>7. \/ plan.label.bound = "part" /\ a.to <= c.from
      \/ plan.rows.index # "kept" /\ a.to + Reach <= c.from
  BY <1>2 DEF EndsBefore
<1> HIDE DEF a, c
<1> QED BY <1>1, <1>2, <1>4, <1>5, <1>6, <1>7

\* shares of one ordered list have no row in common
LEMMA RanksApart ==
  ASSUME IInv, WellFormed(plan), NEW i \in DOMAIN plan.parts, NEW j \in DOMAIN plan.parts,
         plan.parts[i].unit = "row", plan.parts[j].unit = "row", plan.parts[i].who = plan.parts[j].who,
         plan.parts[i].to <= plan.parts[j].from, NEW r \in InPart(i), NEW q \in InPart(j)
  PROVE  r # q
<1> DEFINE mine == {x \in rows : x.sym \in plan.parts[i].who}
           rank(x) == Cardinality({y \in mine : Older(y, x)})
           n == Cardinality(mine)
           a == plan.parts[i].to   b == plan.parts[j].from
<1>1. IsFiniteSet(mine)
  BY FS_Subset DEF IInv, TypeOK
<1>2. n \in Nat
  BY <1>1, FS_CardinalityType
<1>3. IsFiniteSet({y \in mine : Older(y, r)})
  BY <1>1, FS_Subset
<1>4. rank(r) \in Nat
  BY <1>3, FS_CardinalityType
<1>5. rank(r) < (n * a) \div 100
  BY DEF InPart
<1>6. (n * b) \div 100 <= rank(q)
  BY DEF InPart
<1>7. a \in Int /\ b \in Int /\ a <= b
  BY PlanParts
<1> HIDE DEF mine, rank, n, a, b
<1>8. (n * a) \div 100 <= (n * b) \div 100
  BY <1>2, <1>7, ShareGrows
<1>9. (n * a) \div 100 \in Int /\ (n * b) \div 100 \in Int
  <2>1. n * a \in Int /\ n * b \in Int
    BY <1>2, <1>7
  <2> QED BY <2>1
<1> SUFFICES ASSUME r = q PROVE FALSE
  OBVIOUS
<1>10. (n * b) \div 100 <= rank(r)
  BY <1>6
<1> DEFINE u == (n * a) \div 100   v == (n * b) \div 100   w == rank(r)
<1>11. u \in Int /\ v \in Int /\ w \in Int /\ w < u /\ v <= w /\ u <= v
  BY <1>4, <1>5, <1>8, <1>9, <1>10
<1> HIDE DEF u, v, w
<1> QED BY <1>11

LEMMA UnseenProof ==
  ASSUME IInv, WellFormed(plan), KeepsApart(plan)
  PROVE  ProofIsUnseen
<1>1. ASSUME NEW i \in Uses("pick"), NEW j \in Uses("prove"), NEW r \in InPart(i), NEW q \in InPart(j)
      PROVE  ~Overlap(r, q)
  <2>1. i \in DOMAIN plan.parts /\ j \in DOMAIN plan.parts
        /\ plan.parts[i].use = "pick" /\ plan.parts[j].use = "prove"
    BY <1>1 DEF Uses
  <2>2. r.sym \in plan.parts[i].who /\ q.sym \in plan.parts[j].who /\ r \in rows /\ q \in rows
    BY <1>1, <2>1, ReadsInPart
  <2>3. CASE plan.parts[i].who \cap plan.parts[j].who = {}
    BY <2>2, <2>3 DEF Overlap
  <2>4. CASE EndsBefore(plan, plan.parts[i], plan.parts[j])
    BY <1>1, <2>1, <2>4, EndedBefore DEF Overlap
  <2>5. CASE EndsBefore(plan, plan.parts[j], plan.parts[i])
    BY <1>1, <2>1, <2>5, EndedBefore DEF Overlap
  <2>6. CASE SplitByRank(plan, plan.parts[i], plan.parts[j])
    <3>1. r # q
      BY <1>1, <2>1, <2>6, RanksApart DEF SplitByRank
    <3>2. Spaces(plan) /\ SpacesRows(plan) /\ ~plan.space.fresh
      BY <2>6 DEF SplitByRank
    <3> QED BY <2>2, <3>1, <3>2 DEF IInv, PairwiseApart
  <2> QED BY <2>1, <2>3, <2>4, <2>5, <2>6 DEF KeepsApart
<1>2. plan.rows.thresholds = "all" => RowsOf("prove") = {}
  BY DEF KeepsApart, RowsOf, Uses
<1> QED BY <1>1, <1>2 DEF ProofIsUnseen, RowsOf

\* Whatever studies are run: where a plan keeps its parts apart, no row that proves
\* a rule has read a bar that a row which picked the rule has read.
THEOREM ProofStaysUnseen ==
  (\A p \in Plans : WellFormed(p) /\ KeepsApart(p)) => (Spec => []ProofIsUnseen)
<1> SUFFICES ASSUME \A p \in Plans : WellFormed(p) /\ KeepsApart(p)
             PROVE  Spec => []ProofIsUnseen
  OBVIOUS
<1>1. WellFormedPlans
  BY DEF WellFormedPlans
<1>2. IInv => ProofIsUnseen
  BY UnseenProof DEF IInv, TypeOK
<1> QED BY <1>1, <1>2, StudyInvariantHolds, PTL
=============================================================================
