------------------------- MODULE IndicatorBotProofs -------------------------
(***************************************************************************)
(* Theorems about the paper ledger of indicator_bot.py, for every finite   *)
(* universe, every price, stop distance and limit.  The portfolio's risk   *)
(* is a fold over the symbols held: the first part proves, by induction on *)
(* finite sets, what the fold computes.  The library's induction theorems  *)
(* take an operator as a parameter, so the induction is written as the     *)
(* choice of a smallest counterexample (theorem WFMin).                    *)
(***************************************************************************)
EXTENDS IndicatorBotProperties, FiniteSetTheorems, WellFoundedInduction, TLAPS

(***************************************************************************)
(* Sums over finite sets.                                                  *)
(***************************************************************************)
\* h is the fold of f over every subset of S, smallest first
Folded(f, S, h) ==
  h = [s \in SUBSET S |->
         IF s = {} THEN 0
         ELSE f[CHOOSE x \in s : TRUE] + h[s \ {CHOOSE x \in s : TRUE}]]

\* Of the sets of T that are subsets of a finite set some is smallest.
LEMMA SmallestSubset ==
  ASSUME NEW S, IsFiniteSet(S), NEW T, T \subseteq SUBSET S, T # {}
  PROVE  \E U \in T : \A V \in T : V \subseteq U => V = U
<1>1. IsWellFoundedOn(StrictSubsetOrdering(S), SUBSET S)
  BY FS_StrictSubsetOrderingWellFounded, FS_FiniteSubsetsOfFinite
<1>2. PICK U \in T : \A V \in T : ~ (<<V, U>> \in StrictSubsetOrdering(S))
  BY <1>1, WFMin
<1>3. ASSUME NEW V \in T, V \subseteq U, V # U PROVE FALSE
  BY <1>2, <1>3 DEF StrictSubsetOrdering
<1> QED BY <1>3

LEMMA SumIsFold ==
  ASSUME NEW f, NEW S
  PROVE  SumFunctionOnSet(f, S) = (CHOOSE h : Folded(f, S, h))[S]
BY DEF SumFunctionOnSet, FoldFunctionOnSet, MapThenFoldSet, Folded

LEMMA FoldUnique ==
  ASSUME NEW f, NEW S, IsFiniteSet(S), NEW A \in SUBSET S, NEW B \in SUBSET S,
         NEW g, NEW h, Folded(f, A, g), Folded(f, B, h),
         NEW W, W \subseteq A, W \subseteq B
  PROVE  g[W] = h[W]
<1> DEFINE T == {V \in SUBSET S : V \subseteq A /\ V \subseteq B /\ g[V] # h[V]}
<1> SUFFICES ASSUME T # {} PROVE FALSE
  OBVIOUS
<1>0. T \subseteq SUBSET S OBVIOUS
<1> HIDE DEF T
<1>1. PICK U \in T : \A V \in T : V \subseteq U => V = U
  BY <1>0, SmallestSubset
<1> USE DEF T
<1>2. CASE U = {}
  BY <1>2 DEF Folded
<1>3. CASE U # {}
  <2> DEFINE x == CHOOSE x \in U : TRUE
  <2>1. x \in U BY <1>3
  <2>2. g[U \ {x}] = h[U \ {x}] BY <1>1, <2>1
  <2>3. g[U] = f[x] + g[U \ {x}] BY <1>3 DEF Folded
  <2>4. h[U] = f[x] + h[U \ {x}] BY <1>3 DEF Folded
  <2> QED BY <2>2, <2>3, <2>4
<1> QED BY <1>2, <1>3

LEMMA FoldExists ==
  ASSUME NEW f, NEW S, IsFiniteSet(S)
  PROVE  \E h : Folded(f, S, h)
<1> DEFINE Sum(s) == (CHOOSE h : Folded(f, s, h))[s]
           T == {V \in SUBSET S : ~ \E h : Folded(f, V, h)}
<1> SUFFICES ASSUME T # {} PROVE FALSE
  OBVIOUS
<1>0. T \subseteq SUBSET S OBVIOUS
<1> HIDE DEF T
<1>1. PICK U \in T : \A V \in T : V \subseteq U => V = U
  BY <1>0, SmallestSubset
<1> USE DEF T
<1> DEFINE H == [s \in SUBSET U |->
         IF s = {} THEN 0
         ELSE f[CHOOSE x \in s : TRUE] + Sum(s \ {CHOOSE x \in s : TRUE})]
<1> HIDE DEF Sum
<1>2. ASSUME NEW V, V \subseteq U, V # U PROVE Folded(f, V, CHOOSE h : Folded(f, V, h))
  BY <1>1, <1>2
<1>3. ASSUME NEW V, V \subseteq U, V # U PROVE H[V] = Sum(V)
  <2> DEFINE hV == CHOOSE h : Folded(f, V, h)
  <2>1. Folded(f, V, hV) BY <1>2, <1>3
  <2> HIDE DEF hV
  <2>2. CASE V = {} BY <2>1, <2>2 DEF Folded, Sum, hV
  <2>3. CASE V # {}
    <3> DEFINE x == CHOOSE x \in V : TRUE
               hW == CHOOSE h : Folded(f, V \ {x}, h)
    <3>1. x \in V BY <2>3
    <3> HIDE DEF x
    <3>2. Folded(f, V \ {x}, hW) BY <1>2, <1>3, <3>1
    <3>3. hV[V \ {x}] = hW[V \ {x}]
      <4> HIDE DEF hW
      <4>1. V \in SUBSET S /\ V \ {x} \in SUBSET S BY <1>3
      <4> QED BY <4>1, <2>1, <3>2, FoldUnique
    <3>4. hV[V] = f[x] + hV[V \ {x}] BY <2>1, <2>3 DEF Folded, x
    <3>5. H[V] = f[x] + Sum(V \ {x}) BY <2>3, <1>3 DEF x
    <3> QED BY <3>3, <3>4, <3>5 DEF Sum, hV
  <2> QED BY <2>2, <2>3
<1>4. Folded(f, U, H)
  <2>1. ASSUME NEW s \in SUBSET U, s # {}
        PROVE  Sum(s \ {CHOOSE x \in s : TRUE}) = H[s \ {CHOOSE x \in s : TRUE}]
    <3> DEFINE x == CHOOSE x \in s : TRUE
    <3>1. x \in s BY <2>1
    <3> HIDE DEF x, H
    <3>2. s \ {x} \subseteq U /\ s \ {x} # U BY <3>1
    <3>3. H[s \ {x}] = Sum(s \ {x}) BY <3>2, <1>3
    <3> QED BY <3>3 DEF x
  <2> DEFINE G == [s \in SUBSET U |->
         IF s = {} THEN 0
         ELSE f[CHOOSE x \in s : TRUE] + H[s \ {CHOOSE x \in s : TRUE}]]
  <2>2. ASSUME NEW s \in SUBSET U PROVE H[s] = G[s]
    <3>1. CASE s = {} BY <3>1
    <3>2. CASE s # {}
      <4>1. Sum(s \ {CHOOSE x \in s : TRUE}) = H[s \ {CHOOSE x \in s : TRUE}]
        BY <2>1, <3>2
      <4>2. G[s] = f[CHOOSE x \in s : TRUE] + H[s \ {CHOOSE x \in s : TRUE}]
        <5> HIDE DEF H
        <5> QED BY <3>2
      <4>3. H[s] = f[CHOOSE x \in s : TRUE] + Sum(s \ {CHOOSE x \in s : TRUE})
        BY <3>2
      <4> HIDE DEF H, G
      <4> QED BY <4>1, <4>2, <4>3
    <3> HIDE DEF H, G
    <3> QED BY <3>1, <3>2
  <2>3. H = [s \in SUBSET U |-> H[s]] OBVIOUS
  <2>4. G = [s \in SUBSET U |-> G[s]] 
    <3> HIDE DEF H
    <3> QED OBVIOUS
  <2> HIDE DEF H, G
  <2>5. H = G BY <2>2, <2>3, <2>4
  <2> QED BY <2>5 DEF Folded, G
<1> QED BY <1>1, <1>4

\* What the fold computes at a set, from the folds of its subsets.
LEMMA SumUnfolds ==
  ASSUME NEW f, NEW S, IsFiniteSet(S)
  PROVE  /\ S = {} => SumFunctionOnSet(f, S) = 0
         /\ S # {} => LET x == CHOOSE x \in S : TRUE
                      IN SumFunctionOnSet(f, S) = f[x] + SumFunctionOnSet(f, S \ {x})
<1> DEFINE h == CHOOSE h : Folded(f, S, h)
<1>1. Folded(f, S, h) BY FoldExists
<1>2. SumFunctionOnSet(f, S) = h[S] BY SumIsFold
<1> HIDE DEF h
<1>3. CASE S = {} BY <1>1, <1>2, <1>3 DEF Folded
<1>4. CASE S # {}
  <2> DEFINE x == CHOOSE x \in S : TRUE
             g == CHOOSE g : Folded(f, S \ {x}, g)
  <2>1. IsFiniteSet(S \ {x}) BY FS_Subset
  <2>2. Folded(f, S \ {x}, g) BY <2>1, FoldExists
  <2>3. SumFunctionOnSet(f, S \ {x}) = g[S \ {x}] BY SumIsFold
  <2>4. h[S] = f[x] + h[S \ {x}] BY <1>1, <1>4 DEF Folded
  <2> HIDE DEF x, g
  <2>5. h[S \ {x}] = g[S \ {x}]
    <3>1. S \in SUBSET S /\ S \ {x} \in SUBSET S OBVIOUS
    <3> QED BY <3>1, <1>1, <2>2, FoldUnique
  <2>6. SumFunctionOnSet(f, S) = f[x] + SumFunctionOnSet(f, S \ {x})
    BY <1>2, <2>3, <2>4, <2>5
  <2> QED BY <2>6, <1>4 DEF x
<1> QED BY <1>3, <1>4

LEMMA EmptySum == ASSUME NEW f PROVE SumFunctionOnSet(f, {}) = 0
BY FS_EmptySet, SumUnfolds

LEMMA SumIsInt ==
  ASSUME NEW S, IsFiniteSet(S), NEW f, \A s \in S : f[s] \in Int
  PROVE  \A U \in SUBSET S : SumFunctionOnSet(f, U) \in Int
<1> DEFINE T == {V \in SUBSET S : SumFunctionOnSet(f, V) \notin Int}
<1> SUFFICES ASSUME T # {} PROVE FALSE
  OBVIOUS
<1>0. T \subseteq SUBSET S OBVIOUS
<1> HIDE DEF T
<1>1. PICK U \in T : \A V \in T : V \subseteq U => V = U
  BY <1>0, SmallestSubset
<1> USE DEF T
<1>2. IsFiniteSet(U) BY FS_Subset
<1>3. U # {} BY EmptySum
<1> DEFINE x == CHOOSE x \in U : TRUE
<1>4. x \in U BY <1>3
<1>5. SumFunctionOnSet(f, U) = f[x] + SumFunctionOnSet(f, U \ {x}) BY <1>2, <1>3, SumUnfolds
<1> HIDE DEF x
<1>6. SumFunctionOnSet(f, U \ {x}) \in Int BY <1>1, <1>4
<1>7. f[x] \in Int BY <1>4
<1> QED BY <1>5, <1>6, <1>7

\* A sum is the same whichever of its terms is taken out first.
THEOREM SumTakesOut ==
  ASSUME NEW S, IsFiniteSet(S), NEW f, \A s \in S : f[s] \in Int
  PROVE  \A U \in SUBSET S : \A y \in U :
           SumFunctionOnSet(f, U) = f[y] + SumFunctionOnSet(f, U \ {y})
<1> DEFINE T == {V \in SUBSET S : \E y \in V :
                   SumFunctionOnSet(f, V) # f[y] + SumFunctionOnSet(f, V \ {y})}
<1> SUFFICES ASSUME T # {} PROVE FALSE
  OBVIOUS
<1>0. T \subseteq SUBSET S OBVIOUS
<1> HIDE DEF T
<1>1. PICK U \in T : \A V \in T : V \subseteq U => V = U
  BY <1>0, SmallestSubset
<1> USE DEF T
<1>2. PICK y \in U : SumFunctionOnSet(f, U) # f[y] + SumFunctionOnSet(f, U \ {y})
  OBVIOUS
<1>3. IsFiniteSet(U) BY FS_Subset
<1> DEFINE x == CHOOSE x \in U : TRUE
<1>4. x \in U OBVIOUS
<1>5. SumFunctionOnSet(f, U) = f[x] + SumFunctionOnSet(f, U \ {x}) BY <1>3, SumUnfolds
<1> HIDE DEF x
<1>6. x # y BY <1>2, <1>5
<1>7. U \ {x} \in SUBSET S /\ U \ {x} # U /\ y \in U \ {x} BY <1>4, <1>6
<1>8. SumFunctionOnSet(f, U \ {x}) = f[y] + SumFunctionOnSet(f, (U \ {x}) \ {y})
  BY <1>1, <1>7
<1>9. U \ {y} \in SUBSET S /\ U \ {y} # U /\ x \in U \ {y} BY <1>4, <1>6
<1>10. SumFunctionOnSet(f, U \ {y}) = f[x] + SumFunctionOnSet(f, (U \ {y}) \ {x})
  BY <1>1, <1>9
<1>11. (U \ {y}) \ {x} = (U \ {x}) \ {y} OBVIOUS
<1>12. (U \ {x}) \ {y} \in SUBSET S OBVIOUS
<1>13. SumFunctionOnSet(f, (U \ {x}) \ {y}) \in Int BY <1>12, SumIsInt
<1>14. f[x] \in Int /\ f[y] \in Int BY <1>4
<1> HIDE DEF T
<1> DEFINE z == SumFunctionOnSet(f, (U \ {x}) \ {y})
<1>15. SumFunctionOnSet(f, U \ {y}) = f[x] + z BY <1>10, <1>11
<1>16. SumFunctionOnSet(f, U) = f[x] + (f[y] + z) BY <1>5, <1>8
<1>17. z \in Int BY <1>13
<1> HIDE DEF z
<1> QED BY <1>2, <1>14, <1>15, <1>16, <1>17

\* Terms that are no larger make a sum that is no larger.
LEMMA SumIsMonotone ==
  ASSUME NEW S, IsFiniteSet(S), NEW f, NEW g,
         \A s \in S : f[s] \in Int /\ g[s] \in Int /\ f[s] <= g[s]
  PROVE  \A U \in SUBSET S : SumFunctionOnSet(f, U) <= SumFunctionOnSet(g, U)
<1> DEFINE T == {V \in SUBSET S :
                   ~ (SumFunctionOnSet(f, V) <= SumFunctionOnSet(g, V))}
<1> SUFFICES ASSUME T # {} PROVE FALSE
  OBVIOUS
<1>0. T \subseteq SUBSET S OBVIOUS
<1> HIDE DEF T
<1>1. PICK U \in T : \A V \in T : V \subseteq U => V = U
  BY <1>0, SmallestSubset
<1> USE DEF T
<1>2. IsFiniteSet(U) BY FS_Subset
<1>3. U # {} BY EmptySum
<1> DEFINE x == CHOOSE x \in U : TRUE
<1>4. x \in U BY <1>3
<1>5. SumFunctionOnSet(f, U) = f[x] + SumFunctionOnSet(f, U \ {x}) BY <1>2, <1>3, SumUnfolds
<1>6. SumFunctionOnSet(g, U) = g[x] + SumFunctionOnSet(g, U \ {x}) BY <1>2, <1>3, SumUnfolds
<1> HIDE DEF x
<1>7. SumFunctionOnSet(f, U \ {x}) <= SumFunctionOnSet(g, U \ {x}) BY <1>1, <1>4
<1>8. f[x] \in Int /\ g[x] \in Int /\ f[x] <= g[x] BY <1>4
<1>9. U \ {x} \in SUBSET S OBVIOUS
<1>10. SumFunctionOnSet(f, U \ {x}) \in Int /\ SumFunctionOnSet(g, U \ {x}) \in Int
  BY <1>9, SumIsInt
<1>11. ~ (SumFunctionOnSet(f, U) <= SumFunctionOnSet(g, U)) OBVIOUS
<1> HIDE DEF T
<1> QED BY <1>5, <1>6, <1>7, <1>8, <1>10, <1>11

LEMMA SumIsNat ==
  ASSUME NEW S, IsFiniteSet(S), NEW f, \A s \in S : f[s] \in Nat
  PROVE  SumFunctionOnSet(f, S) \in Int /\ SumFunctionOnSet(f, S) >= 0
<1> DEFINE T == {V \in SUBSET S : ~ (SumFunctionOnSet(f, V) >= 0)}
<1>1. \A s \in S : f[s] \in Int OBVIOUS
<1>2. S \in SUBSET S OBVIOUS
<1>3. \A U \in SUBSET S : SumFunctionOnSet(f, U) \in Int BY <1>1, SumIsInt
<1> SUFFICES ASSUME T # {} PROVE FALSE
  BY <1>2, <1>3
<1>0. T \subseteq SUBSET S OBVIOUS
<1> HIDE DEF T
<1>4. PICK U \in T : \A V \in T : V \subseteq U => V = U
  BY <1>0, SmallestSubset
<1> USE DEF T
<1>5. IsFiniteSet(U) BY FS_Subset
<1>6. U # {} BY EmptySum
<1> DEFINE x == CHOOSE x \in U : TRUE
<1>7. x \in U BY <1>6
<1>8. SumFunctionOnSet(f, U) = f[x] + SumFunctionOnSet(f, U \ {x}) BY <1>5, <1>6, SumUnfolds
<1> HIDE DEF x
<1>9. SumFunctionOnSet(f, U \ {x}) >= 0 BY <1>4, <1>7
<1>10. f[x] \in Nat /\ SumFunctionOnSet(f, U \ {x}) \in Int BY <1>3, <1>7
<1>11. ~ (SumFunctionOnSet(f, U) >= 0) OBVIOUS
<1> HIDE DEF T
<1> QED BY <1>8, <1>9, <1>10, <1>11

\* The sum is a function of the terms alone.
LEMMA SumAgrees ==
  ASSUME NEW S, IsFiniteSet(S), NEW f, NEW g,
         \A s \in S : f[s] \in Int /\ f[s] = g[s]
  PROVE  \A U \in SUBSET S : SumFunctionOnSet(f, U) = SumFunctionOnSet(g, U)
<1>1. \A U \in SUBSET S : SumFunctionOnSet(f, U) \in Int /\ SumFunctionOnSet(g, U) \in Int
  <2>1. \A s \in S : g[s] \in Int OBVIOUS
  <2> QED BY <2>1, SumIsInt
<1>2. \A U \in SUBSET S : SumFunctionOnSet(f, U) <= SumFunctionOnSet(g, U)
  BY SumIsMonotone
<1>3. \A U \in SUBSET S : SumFunctionOnSet(g, U) <= SumFunctionOnSet(f, U)
  BY SumIsMonotone
<1> QED BY <1>1, <1>2, <1>3

(***************************************************************************)
(* Types.                                                                  *)
(***************************************************************************)
Position == [entry : Nat, stop : Int, risk : Nat, even : BOOLEAN, ran : BOOLEAN, age : Nat]
Ledgers ==
  [cash : Int, pos : [Symbols -> Position], day : Nat, dayPnl : Int, losses : 0..LossesToCool,
   quiet : 0..CoolAge, seen : SUBSET Symbols, done : SUBSET Symbols, trades : Nat, gap : Nat]
TypeOK ==
  /\ file \in Ledgers /\ ledger \in Ledgers
  /\ step \in {"idle", "universe", "manage", "enter", "save"}
  /\ bid \in [Symbols -> Nat] /\ fresh \in SUBSET Symbols /\ todo \in SUBSET Symbols
  /\ today \in Nat /\ faults \in Nat

LEMMA Numbers ==
  /\ Ask \in Nat /\ Ask > 0 /\ Fee \in Nat /\ Slip \in Nat /\ WorseSlip \in Nat /\ Trail \in Nat
  /\ Cash \in Nat /\ MaxDaily \in Nat /\ MaxTrade \in Nat /\ MaxPortfolio \in Nat
  /\ HardAge \in Nat /\ CoolAge \in Nat /\ LossesToCool \in Nat
BY BotAssumption

LEMMA MaxOfTwo ==
  ASSUME NEW a \in Int, NEW b \in Int
  PROVE  Max({a, b}) = IF a >= b THEN a ELSE b
<1>1. \E x \in {a, b} : \A y \in {a, b} : x >= y OBVIOUS
<1>2. Max({a, b}) \in {a, b} /\ \A y \in {a, b} : Max({a, b}) >= y
  BY <1>1 DEF Max
<1> QED BY <1>2

LEMMA MinOfTwo ==
  ASSUME NEW a \in Int, NEW b \in Int
  PROVE  Min({a, b}) = IF a <= b THEN a ELSE b
<1>1. \E x \in {a, b} : \A y \in {a, b} : x <= y OBVIOUS
<1>2. Min({a, b}) \in {a, b} /\ \A y \in {a, b} : Min({a, b}) <= y
  BY <1>1 DEF Min
<1> QED BY <1>2

LEMMA NoPosition == None \in Position /\ None.entry = 0
BY DEF None, Position

\* What a close changes, and that it leaves a ledger.
LEMMA CloseShape ==
  ASSUME NEW l \in Ledgers, NEW s \in Symbols, NEW fill \in Int
  PROVE  LET m == close_position(l, s, fill)
         IN  /\ m \in Ledgers
             /\ m.pos = [l.pos EXCEPT ![s] = None]
             /\ m.dayPnl = l.dayPnl + (fill - Fee - Cost(l.pos[s]))
             /\ m.gap = l.gap + Max({0, l.pos[s].stop - Slip - fill})
<1> DEFINE m == close_position(l, s, fill)
           pnl == fill - Fee - Cost(l.pos[s])
           gap == Max({0, l.pos[s].stop - Slip - fill})
           losses == IF pnl < 0 THEN Min({l.losses + 1, LossesToCool}) ELSE 0
           quiet == IF pnl < 0 THEN 0 ELSE CoolAge
<1>1. l.pos[s] \in Position BY DEF Ledgers
<1>2. pnl \in Int BY <1>1, Numbers DEF Cost, Position
<1>3. gap \in Nat
  <2>1. l.pos[s].stop - Slip - fill \in Int BY <1>1, Numbers DEF Position
  <2> QED BY <2>1, MaxOfTwo
<1>4. losses \in 0..LossesToCool
  <2>1. l.losses \in Int /\ l.losses + 1 \in Int /\ LossesToCool \in Int /\ l.losses >= 0
    BY Numbers DEF Ledgers
  <2>2. Min({l.losses + 1, LossesToCool}) = IF l.losses + 1 <= LossesToCool THEN l.losses + 1 ELSE LossesToCool
    BY <2>1, MinOfTwo
  <2> QED BY <2>1, <2>2, Numbers
<1>5. quiet \in 0..CoolAge BY Numbers
<1>6. m = [l EXCEPT !.pos = [l.pos EXCEPT ![s] = None], !.cash = l.cash + fill - Fee,
                    !.dayPnl = l.dayPnl + pnl, !.losses = losses, !.quiet = quiet,
                    !.gap = l.gap + gap]
  BY DEF close_position, Ledgers
<1>7. [l.pos EXCEPT ![s] = None] \in [Symbols -> Position] BY NoPosition DEF Ledgers
<1>8. l.cash + fill - Fee \in Int /\ l.dayPnl + pnl \in Int /\ l.gap + gap \in Nat
  BY <1>2, <1>3, Numbers DEF Ledgers
<1> HIDE DEF m, pnl, gap, losses, quiet
<1>9. m \in Ledgers BY <1>4, <1>5, <1>6, <1>7, <1>8 DEF Ledgers
<1>10. /\ m.pos = [l.pos EXCEPT ![s] = None] /\ m.dayPnl = l.dayPnl + pnl /\ m.gap = l.gap + gap
  BY <1>6 DEF Ledgers
<1> QED BY <1>9, <1>10 DEF m, pnl, gap

LEMMA TrailShape ==
  ASSUME NEW p \in Position, NEW b \in Nat, p.entry > 0
  PROVE  LET q == Trailed(Priced(p, b), b)
         IN  q \in Position /\ q.entry = p.entry /\ q.stop >= p.stop
<1> DEFINE r == Priced(p, b)
           even == r.even \/ b >= r.entry + r.risk
           base == IF b >= r.entry + r.risk THEN Max({r.stop, r.entry}) ELSE r.stop
           stop == IF even THEN Max({base, b - Trail}) ELSE base
<1>1. r \in Position /\ r.entry = p.entry /\ r.stop = p.stop
  BY DEF Priced, Position
<1>2. base \in Int /\ base >= p.stop
  <2>1. r.stop \in Int /\ r.entry \in Int BY <1>1 DEF Position
  <2>2. Max({r.stop, r.entry}) = IF r.stop >= r.entry THEN r.stop ELSE r.entry BY <2>1, MaxOfTwo
  <2> QED BY <1>1, <2>1, <2>2
<1>3. stop \in Int /\ stop >= p.stop
  <2>1. b - Trail \in Int /\ p.stop \in Int BY Numbers DEF Position
  <2> HIDE DEF base
  <2>2. Max({base, b - Trail}) = IF base >= b - Trail THEN base ELSE b - Trail BY <1>2, <2>1, MaxOfTwo
  <2> QED BY <1>2, <2>1, <2>2
<1>4. even \in BOOLEAN BY <1>1 DEF Position
<1>5. Trailed(r, b) = [r EXCEPT !.even = even, !.stop = stop] BY DEF Trailed
<1> HIDE DEF r, even, stop
<1>6. Trailed(r, b) \in Position /\ Trailed(r, b).entry = r.entry /\ Trailed(r, b).stop = stop
  BY <1>1, <1>3, <1>4, <1>5 DEF Position
<1> QED BY <1>1, <1>3, <1>6 DEF r

LEMMA NewPositionShape ==
  ASSUME NEW risk \in Risks
  PROVE  NewPosition(risk) \in Position /\ NewPosition(risk).entry > 0
<1>1. risk \in Nat BY BotAssumption
<1> DEFINE stop == Ask - risk
<1>3. stop \in Int BY <1>1, Numbers
<1>2. NewPosition(risk) = [None EXCEPT !.entry = Ask, !.stop = stop, !.risk = risk]
  BY DEF NewPosition
<1> HIDE DEF stop
<1> QED BY <1>1, <1>2, <1>3, NoPosition, Numbers DEF Position

\* An entry that is not refused takes a free symbol within the budgets.
LEMMA OpenShape ==
  ASSUME NEW l \in Ledgers, NEW s \in Symbols, NEW p \in Position
  PROVE  LET m == open_position(l, s, p)
         IN  /\ m \in Ledgers
             /\ \/ m = l
                \/ /\ MayOpen(l, s, p) /\ m.pos = [l.pos EXCEPT ![s] = p]
                   /\ m.dayPnl = l.dayPnl /\ m.gap = l.gap
<1>1. Cost(p) \in Int BY Numbers DEF Cost, Position
<1>2. CASE ~MayOpen(l, s, p) BY <1>2 DEF open_position
<1>3. CASE MayOpen(l, s, p)
  <2> DEFINE m == [l EXCEPT !.pos = [l.pos EXCEPT ![s] = p], !.cash = l.cash - Cost(p),
                            !.done = l.done \cup {s}, !.trades = l.trades + 1]
  <2>1. open_position(l, s, p) = m BY <1>3 DEF open_position, Ledgers
  <2>2. [l.pos EXCEPT ![s] = p] \in [Symbols -> Position] BY DEF Ledgers
  <2>3. l.cash - Cost(p) \in Int /\ l.trades + 1 \in Nat /\ l.done \cup {s} \in SUBSET Symbols
    BY <1>1 DEF Ledgers
  <2>4. m \in Ledgers /\ m.pos = [l.pos EXCEPT ![s] = p] /\ m.dayPnl = l.dayPnl /\ m.gap = l.gap
    BY <2>2, <2>3 DEF Ledgers
  <2> QED BY <1>3, <2>1, <2>4
<1> QED BY <1>2, <1>3

LEMMA SeenShape ==
  ASSUME NEW l \in Ledgers, NEW s \in Symbols
  PROVE  LET m == [l EXCEPT !.seen = @ \cup {s}]
         IN  m \in Ledgers /\ m.pos = l.pos /\ m.dayPnl = l.dayPnl /\ m.gap = l.gap
BY DEF Ledgers

LEMMA ResetShape ==
  ASSUME NEW l \in Ledgers, today \in Nat
  PROVE  /\ reset_day(l) \in Ledgers /\ reset_day(l).pos = l.pos
         /\ \/ reset_day(l) = l
            \/ reset_day(l).dayPnl = 0 /\ reset_day(l).gap = 0
<1>1. CASE l.day = today BY <1>1 DEF reset_day
<1>2. CASE l.day # today
  <2>1. reset_day(l) = [l EXCEPT !.day = today, !.dayPnl = 0, !.gap = 0] BY <1>2 DEF reset_day
  <2> HIDE DEF reset_day
  <2>2. reset_day(l) \in Ledgers
    <3> DEFINE zero == 0
    <3>1. zero \in Int /\ zero \in Nat OBVIOUS
    <3>2. reset_day(l) = [l EXCEPT !.day = today, !.dayPnl = zero, !.gap = zero] BY <2>1
    <3> HIDE DEF zero
    <3> QED BY <3>1, <3>2 DEF Ledgers
  <2>3. reset_day(l).pos = l.pos BY <2>1 DEF Ledgers
  <2>4. reset_day(l).dayPnl = 0 BY <2>1 DEF Ledgers
  <2>5. reset_day(l).gap = 0 BY <2>1 DEF Ledgers
  <2> QED BY <2>2, <2>3, <2>4, <2>5
<1> QED BY <1>1, <1>2

\* Time makes a position older and nothing else.
AgedPositions(f) == [s \in Symbols |-> Older(f[s])]
Aged(l) == [l EXCEPT !.pos = AgedPositions(l.pos), !.quiet = Min({l.quiet + 1, CoolAge}),
                     !.seen = {}, !.done = {}]
LEMMA AgedShape ==
  ASSUME NEW l \in Ledgers
  PROVE  /\ Aged(l) \in Ledgers
         /\ Aged(l).dayPnl = l.dayPnl /\ Aged(l).gap = l.gap
         /\ \A s \in Symbols : /\ Aged(l).pos[s].entry = l.pos[s].entry
                               /\ Aged(l).pos[s].stop = l.pos[s].stop
<1>1. ASSUME NEW s \in Symbols
      PROVE  /\ Older(l.pos[s]) \in Position
             /\ Older(l.pos[s]).entry = l.pos[s].entry /\ Older(l.pos[s]).stop = l.pos[s].stop
  <2>1. l.pos[s] \in Position BY DEF Ledgers
  <2>2. l.pos[s].age \in Int /\ l.pos[s].age + 1 \in Int /\ HardAge \in Int /\ l.pos[s].age >= 0
    BY <2>1, Numbers DEF Position
  <2>3. Min({l.pos[s].age + 1, HardAge}) = IF l.pos[s].age + 1 <= HardAge THEN l.pos[s].age + 1 ELSE HardAge
    BY <2>2, MinOfTwo
  <2>4. Min({l.pos[s].age + 1, HardAge}) \in Nat BY <2>2, <2>3, Numbers
  <2> QED BY <2>1, <2>4 DEF Older, Position
<1>2. AgedPositions(l.pos) \in [Symbols -> Position] BY <1>1 DEF AgedPositions
<1>3. Min({l.quiet + 1, CoolAge}) \in 0..CoolAge
  <2>1. l.quiet \in Int /\ l.quiet + 1 \in Int /\ CoolAge \in Int /\ l.quiet >= 0 BY Numbers DEF Ledgers
  <2>2. Min({l.quiet + 1, CoolAge}) = IF l.quiet + 1 <= CoolAge THEN l.quiet + 1 ELSE CoolAge
    BY <2>1, MinOfTwo
  <2> QED BY <2>1, <2>2, Numbers
<1>4. Aged(l) \in Ledgers BY <1>2, <1>3 DEF Aged, Ledgers
<1>5. Aged(l).pos = AgedPositions(l.pos) /\ Aged(l).dayPnl = l.dayPnl /\ Aged(l).gap = l.gap
  BY DEF Aged, Ledgers
<1> QED BY <1>1, <1>4, <1>5 DEF AgedPositions

(***************************************************************************)
(* The budget: what the positions risk, and what the day has lost.         *)
(***************************************************************************)
\* What the day has lost, and may still lose at the stops of its positions, is
\* within the daily limit and what fills were worse than their stops; what may be
\* lost at the stops alone is too, which is what a new day starts with.
Within(l) ==
  /\ portfolio_stop_risk(l) <= MaxDaily
  /\ Loss(l) + portfolio_stop_risk(l) <= MaxDaily + l.gap

LEMMA StopRiskIs ==
  ASSUME NEW p \in Position
  PROVE  /\ stop_risk(p) \in Nat
         /\ stop_risk(p) >= Cost(p) - (p.stop - Slip - Fee)
         /\ Cost(p) \in Int
<1>1. Cost(p) \in Int /\ p.stop \in Int BY Numbers DEF Cost, Position
<1>2. Cost(p) - (p.stop - Slip - Fee) \in Int BY <1>1, Numbers
<1> QED BY <1>1, <1>2, MaxOfTwo DEF stop_risk

LEMMA StopRiskFalls ==
  ASSUME NEW p \in Position, NEW q \in Position, q.entry = p.entry, q.stop >= p.stop
  PROVE  stop_risk(q) <= stop_risk(p)
<1> DEFINE a == Cost(p) - (p.stop - Slip - Fee)
           b == Cost(q) - (q.stop - Slip - Fee)
<1>1. a \in Int /\ b \in Int /\ b <= a BY Numbers DEF Cost, Position
<1>2. stop_risk(p) = Max({0, a}) /\ stop_risk(q) = Max({0, b}) BY DEF stop_risk
<1> HIDE DEF a, b
<1> QED BY <1>1, <1>2, MaxOfTwo

LEMMA HeldIsFinite ==
  ASSUME NEW l \in Ledgers
  PROVE  /\ IsFiniteSet(Held(l)) /\ Held(l) \in SUBSET Symbols
         /\ \A s \in Symbols : Risk(l)[s] = stop_risk(l.pos[s]) /\ Risk(l)[s] \in Nat
<1>1. Held(l) \in SUBSET Symbols BY DEF Held
<1>2. IsFiniteSet(Held(l)) BY <1>1, BotAssumption, FS_Subset
<1>3. \A s \in Symbols : l.pos[s] \in Position BY DEF Ledgers
<1> QED BY <1>1, <1>2, <1>3, StopRiskIs DEF Risk

LEMMA PortfolioIsInt ==
  ASSUME NEW l \in Ledgers
  PROVE  portfolio_stop_risk(l) \in Int
<1>1. \A s \in Held(l) : Risk(l)[s] \in Int BY HeldIsFinite
<1>2. Held(l) \in SUBSET Held(l) OBVIOUS
<1> QED BY <1>1, <1>2, HeldIsFinite, SumIsInt DEF portfolio_stop_risk

LEMMA LossIs ==
  ASSUME NEW l \in Ledgers
  PROVE  Loss(l) = IF l.dayPnl <= 0 THEN -l.dayPnl ELSE 0
<1>1. l.dayPnl \in Int /\ -l.dayPnl \in Int BY DEF Ledgers
<1>2. Loss(l) = IF 0 >= -l.dayPnl THEN 0 ELSE -l.dayPnl BY <1>1, MaxOfTwo DEF Loss
<1> QED BY <1>1, <1>2

\* The same positions with stops that are no lower risk no more.
LEMMA CarriedWithin ==
  ASSUME NEW l \in Ledgers, NEW m \in Ledgers, Within(l),
         m.dayPnl = l.dayPnl, m.gap = l.gap,
         \A s \in Symbols : m.pos[s].entry = l.pos[s].entry,
         \A s \in Held(l) : m.pos[s].stop >= l.pos[s].stop
  PROVE  Within(m)
<1>1. Held(m) = Held(l) BY DEF Held
<1>2. ASSUME NEW s \in Held(l)
      PROVE  Risk(m)[s] \in Int /\ Risk(l)[s] \in Int /\ Risk(m)[s] <= Risk(l)[s]
  <2>1. s \in Symbols /\ m.pos[s] \in Position /\ l.pos[s] \in Position BY DEF Ledgers, Held
  <2>2. stop_risk(m.pos[s]) <= stop_risk(l.pos[s]) BY <2>1, StopRiskFalls
  <2> QED BY <2>1, <2>2, HeldIsFinite
<1>3. portfolio_stop_risk(m) <= portfolio_stop_risk(l)
  <2>1. Held(l) \in SUBSET Held(l) /\ IsFiniteSet(Held(l)) BY HeldIsFinite
  <2>2. SumFunctionOnSet(Risk(m), Held(l)) <= SumFunctionOnSet(Risk(l), Held(l))
    BY <1>2, <2>1, SumIsMonotone
  <2> QED BY <1>1, <2>2 DEF portfolio_stop_risk
<1>4. portfolio_stop_risk(m) \in Int /\ portfolio_stop_risk(l) \in Int BY PortfolioIsInt
<1>5. Loss(m) = Loss(l) /\ Loss(l) \in Int
  BY LossIs DEF Ledgers
<1>6. m.gap \in Int BY DEF Ledgers
<1> QED BY <1>3, <1>4, <1>5, <1>6, Numbers DEF Within

\* A position that is closed takes its risk out, one that is opened puts it in.
LEMMA PortfolioLess ==
  ASSUME NEW l \in Ledgers, NEW m \in Ledgers, NEW s \in Held(l),
         m.pos = [l.pos EXCEPT ![s] = None]
  PROVE  portfolio_stop_risk(m) = portfolio_stop_risk(l) - stop_risk(l.pos[s])
<1>0. s \in Symbols BY DEF Held
<1>1. Held(m) = Held(l) \ {s} BY <1>0, NoPosition DEF Held, Ledgers
<1>2. \A t \in Held(m) : Risk(l)[t] \in Int /\ Risk(l)[t] = Risk(m)[t]
  BY <1>1, HeldIsFinite DEF Ledgers
<1>3. Held(m) \in SUBSET Held(m) /\ IsFiniteSet(Held(m)) BY HeldIsFinite
<1>4. SumFunctionOnSet(Risk(l), Held(m)) = SumFunctionOnSet(Risk(m), Held(m))
  BY <1>2, <1>3, SumAgrees
<1>5. Held(l) \in SUBSET Held(l) /\ IsFiniteSet(Held(l)) /\ \A t \in Held(l) : Risk(l)[t] \in Int
  BY HeldIsFinite
<1>6. SumFunctionOnSet(Risk(l), Held(l)) = Risk(l)[s] + SumFunctionOnSet(Risk(l), Held(l) \ {s})
  BY <1>5, SumTakesOut
<1>7. Risk(l)[s] = stop_risk(l.pos[s]) /\ Risk(l)[s] \in Int BY <1>0, HeldIsFinite
<1>8. portfolio_stop_risk(l) = stop_risk(l.pos[s]) + portfolio_stop_risk(m)
  BY <1>1, <1>4, <1>6, <1>7 DEF portfolio_stop_risk
<1>9. portfolio_stop_risk(m) \in Int BY PortfolioIsInt
<1> QED BY <1>7, <1>8, <1>9

LEMMA PortfolioMore ==
  ASSUME NEW l \in Ledgers, NEW m \in Ledgers, NEW s \in Symbols \ Held(l),
         NEW p \in Position, p.entry > 0, m.pos = [l.pos EXCEPT ![s] = p]
  PROVE  portfolio_stop_risk(m) = portfolio_stop_risk(l) + stop_risk(p)
<1>1. s \in Held(m) /\ Held(m) \ {s} = Held(l) BY DEF Held, Ledgers
<1>2. \A t \in Held(l) : Risk(m)[t] \in Int /\ Risk(m)[t] = Risk(l)[t]
  <2> TAKE t \in Held(l)
  <2>1. t # s /\ t \in Symbols BY DEF Held
  <2>2. m.pos[t] = l.pos[t] BY <2>1 DEF Ledgers
  <2>3. Risk(m)[t] = stop_risk(m.pos[t]) /\ Risk(m)[t] \in Nat BY <2>1, HeldIsFinite
  <2>4. Risk(l)[t] = stop_risk(l.pos[t]) BY <2>1, HeldIsFinite
  <2> QED BY <2>2, <2>3, <2>4
<1>3. Held(l) \in SUBSET Held(l) /\ IsFiniteSet(Held(l)) BY HeldIsFinite
<1>4. SumFunctionOnSet(Risk(m), Held(l)) = SumFunctionOnSet(Risk(l), Held(l))
  BY <1>2, <1>3, SumAgrees
<1>5. Held(m) \in SUBSET Held(m) /\ IsFiniteSet(Held(m)) /\ \A t \in Held(m) : Risk(m)[t] \in Int
  BY HeldIsFinite
<1>6. SumFunctionOnSet(Risk(m), Held(m)) = Risk(m)[s] + SumFunctionOnSet(Risk(m), Held(m) \ {s})
  BY <1>1, <1>5, SumTakesOut
<1>7. Risk(m)[s] = stop_risk(p) /\ Risk(m)[s] \in Int
  <2>1. m.pos[s] = p BY DEF Ledgers
  <2>2. s \in Symbols OBVIOUS
  <2>3. Risk(m)[s] = stop_risk(m.pos[s]) /\ Risk(m)[s] \in Nat BY <2>2, HeldIsFinite
  <2> QED BY <2>1, <2>3
<1>8. portfolio_stop_risk(m) = stop_risk(p) + portfolio_stop_risk(l)
  BY <1>1, <1>4, <1>6, <1>7 DEF portfolio_stop_risk
<1>9. portfolio_stop_risk(l) \in Int BY PortfolioIsInt
<1> QED BY <1>7, <1>8, <1>9

\* A close loses no more than its stop's risk and what its fill was worse.
LEMMA CloseWithin ==
  ASSUME NEW l \in Ledgers, Within(l), NEW s \in Held(l), NEW fill \in Int
  PROVE  Within(close_position(l, s, fill))
<1> DEFINE m == close_position(l, s, fill)
           p == l.pos[s]
           worse == p.stop - Slip - fill
           r == stop_risk(p)
<1>0. s \in Symbols /\ p \in Position BY DEF Held, Ledgers
<1>1. m \in Ledgers /\ m.pos = [l.pos EXCEPT ![s] = None]
      /\ m.dayPnl = l.dayPnl + (fill - Fee - Cost(p)) /\ m.gap = l.gap + Max({0, worse})
  BY <1>0, CloseShape
<1> HIDE DEF m
<1>2. portfolio_stop_risk(m) = portfolio_stop_risk(l) - r BY <1>1, PortfolioLess
<1>3. worse \in Int /\ p.stop \in Int BY <1>0, Numbers DEF Position
<1>4. Max({0, worse}) = IF 0 >= worse THEN 0 ELSE worse
  <2> HIDE DEF worse
  <2> QED BY <1>3, MaxOfTwo
<1>5. r \in Nat /\ r >= Cost(p) - (p.stop - Slip - Fee) /\ Cost(p) \in Int BY <1>0, StopRiskIs
<1>6. Loss(m) = (IF m.dayPnl <= 0 THEN -m.dayPnl ELSE 0)
      /\ Loss(l) = (IF l.dayPnl <= 0 THEN -l.dayPnl ELSE 0)
  BY <1>1, LossIs
<1>7. portfolio_stop_risk(l) \in Int /\ l.gap \in Nat /\ l.dayPnl \in Int
  BY PortfolioIsInt DEF Ledgers
<1>8. portfolio_stop_risk(l) <= MaxDaily /\ Loss(l) + portfolio_stop_risk(l) <= MaxDaily + l.gap
  BY DEF Within
<1> HIDE DEF r, p
<1>9. portfolio_stop_risk(m) <= MaxDaily BY <1>2, <1>5, <1>7, <1>8, Numbers
<1>10. Loss(m) + portfolio_stop_risk(m) <= MaxDaily + m.gap
  BY <1>1, <1>2, <1>3, <1>4, <1>5, <1>6, <1>7, <1>8, Numbers
<1> QED BY <1>9, <1>10 DEF Within, m

LEMMA OpenWithin ==
  ASSUME NEW l \in Ledgers, Within(l), NEW s \in Symbols, NEW p \in Position, p.entry > 0
  PROVE  Within(open_position(l, s, p))
<1> DEFINE m == open_position(l, s, p)
<1>1. m \in Ledgers BY OpenShape
<1>2. CASE m = l BY <1>2
<1>3. CASE /\ MayOpen(l, s, p) /\ m.pos = [l.pos EXCEPT ![s] = p]
           /\ m.dayPnl = l.dayPnl /\ m.gap = l.gap
  <2> HIDE DEF m
  <2>1. s \in Symbols \ Held(l) BY <1>3 DEF MayOpen, Affordable
  <2>2. portfolio_stop_risk(m) = portfolio_stop_risk(l) + stop_risk(p) BY <1>1, <1>3, <2>1, PortfolioMore
  <2>3. Loss(m) = Loss(l) BY <1>1, <1>3, LossIs
  <2>4. Loss(l) + portfolio_stop_risk(l) + stop_risk(p) <= MaxDaily
    BY <1>3 DEF MayOpen, Affordable
  <2>5. stop_risk(p) \in Int /\ portfolio_stop_risk(l) \in Int /\ Loss(l) \in Nat /\ l.gap \in Nat
    BY StopRiskIs, PortfolioIsInt, LossIs DEF Ledgers
  <2> QED BY <1>3, <2>2, <2>3, <2>4, <2>5, Numbers DEF Within, m
<1> QED BY <1>2, <1>3, OpenShape

LEMMA ResetWithin ==
  ASSUME NEW l \in Ledgers, Within(l), today \in Nat
  PROVE  Within(reset_day(l))
<1> DEFINE m == reset_day(l)
<1>1. m \in Ledgers /\ m.pos = l.pos BY ResetShape
<1>2. CASE m = l BY <1>2
<1>3. CASE m.dayPnl = 0 /\ m.gap = 0
  <2> HIDE DEF m
  <2>1. portfolio_stop_risk(m) = portfolio_stop_risk(l)
    BY <1>1 DEF portfolio_stop_risk, Risk, Held
  <2>2. Loss(m) = 0 BY <1>1, <1>3, LossIs
  <2>3. portfolio_stop_risk(l) \in Int BY PortfolioIsInt
  <2> QED BY <1>3, <2>1, <2>2, <2>3, Numbers DEF Within, m
<1> QED BY <1>2, <1>3, ResetShape

LEMMA EmptyWithin == load_state \in Ledgers /\ Held(load_state) = {} /\ Within(load_state)
<1>1. load_state \in Ledgers
  <2>1. 0 \in 0..LossesToCool /\ CoolAge \in 0..CoolAge /\ [s \in Symbols |-> None] \in [Symbols -> Position]
    BY Numbers, NoPosition
  <2> QED BY <2>1, Numbers DEF load_state, Ledgers
<1>2. Held(load_state) = {} BY NoPosition DEF Held, load_state
<1>3. portfolio_stop_risk(load_state) = 0 BY <1>2, EmptySum DEF portfolio_stop_risk
<1>4. load_state.dayPnl = 0 /\ load_state.gap = 0 BY DEF load_state
<1>5. Loss(load_state) = 0 BY <1>1, <1>4, LossIs
<1> QED BY <1>1, <1>2, <1>3, <1>4, <1>5, Numbers DEF Within

(***************************************************************************)
(* What a run's ledger has to do with the file it was read from.           *)
(***************************************************************************)
Reading ==
  /\ step = "idle" => ledger = file
  /\ step = "universe" => ledger.pos = file.pos
  /\ step = "manage" => todo \subseteq Held(ledger)
  /\ step \in {"manage", "enter"} => fresh \cap Held(file) = {}
  /\ step = "enter" => todo \subseteq fresh
NoLooser == \A s \in Held(file) \cap Held(ledger) : ledger.pos[s].stop >= file.pos[s].stop
IInv == TypeOK /\ Reading /\ NoLooser /\ Within(file) /\ Within(ledger)

LEMMA InitHolds == Init => IInv
<1> SUFFICES ASSUME Init PROVE IInv OBVIOUS
<1>1. TypeOK BY EmptyWithin DEF Init, TypeOK
<1>2. Reading BY DEF Init, Reading
<1>3. NoLooser BY EmptyWithin DEF Init, NoLooser
<1>4. Within(file) /\ Within(ledger) BY EmptyWithin DEF Init
<1> QED BY <1>1, <1>2, <1>3, <1>4 DEF IInv

LEMMA RunStartsHolds == IInv /\ RunStarts => IInv'
<1> SUFFICES ASSUME IInv, RunStarts PROVE IInv' OBVIOUS
<1>1. ledger' = reset_day(file) /\ file \in Ledgers /\ today \in Nat /\ ledger = file
  BY DEF IInv, TypeOK, Reading, RunStarts
<1>2. ledger' \in Ledgers /\ ledger'.pos = file.pos BY <1>1, ResetShape
<1>3. TypeOK' BY <1>2 DEF IInv, TypeOK, RunStarts
<1>4. Reading' BY <1>2 DEF IInv, Reading, RunStarts
<1>5. \A s \in Held(file) : file.pos[s].stop \in Int BY <1>1 DEF Held, Ledgers, Position
<1>6. NoLooser' BY <1>2, <1>5 DEF NoLooser, RunStarts, Held
<1>7. Within(file') BY DEF IInv, RunStarts
<1>8. Within(ledger') BY <1>1, ResetWithin DEF IInv
<1> QED BY <1>3, <1>4, <1>6, <1>7, <1>8 DEF IInv, Within, portfolio_stop_risk, Loss, Held, Risk

\* The steps that leave both ledgers alone.
LEMMA QuietStepHolds ==
  IInv /\ (UniverseFails \/ SnapshotsRead \/ SignalsWeighed \/ EntriesDone \/ Midnight
           \/ UNCHANGED vars \/ \E s \in Symbols : UnpricedPosition(s)) => IInv'
<1> SUFFICES ASSUME IInv, UniverseFails \/ SnapshotsRead \/ SignalsWeighed \/ EntriesDone
                          \/ Midnight \/ UNCHANGED vars \/ \E s \in Symbols : UnpricedPosition(s)
             PROVE  IInv'
  OBVIOUS
<1>1. file' = file /\ ledger' = ledger
  BY DEF UniverseFails, SnapshotsRead, SignalsWeighed, EntriesDone, Midnight, vars, UnpricedPosition
<1>2. TypeOK /\ Reading BY DEF IInv
<1>3. TypeOK' /\ Reading'
  <2>1. CASE UniverseFails BY <2>1, <1>1, <1>2 DEF UniverseFails, TypeOK, Reading
  <2>2. CASE SnapshotsRead
    <3>1. bid' \in [Symbols -> Nat]
      <4>1. PICK price \in [Held(ledger) -> Bids \cup {0}] :
              bid' = [s \in Symbols |-> IF s \in Held(ledger) THEN price[s] ELSE Ask]
        BY <2>2 DEF SnapshotsRead
      <4>2. Bids \cup {0} \subseteq Nat /\ Ask \in Nat BY BotAssumption
      <4>3. \A s \in Held(ledger) : price[s] \in Nat BY <4>2
      <4>4. \A s \in Symbols : (IF s \in Held(ledger) THEN price[s] ELSE Ask) \in Nat
        BY <4>2, <4>3
      <4> QED BY <4>1, <4>4
    <3>2. faults' \in Nat BY <2>2, <1>2 DEF SnapshotsRead, TypeOK
    <3>3. TypeOK' BY <3>1, <3>2, <2>2, <1>1, <1>2 DEF SnapshotsRead, TypeOK, Held
    <3>4. Held(ledger) = Held(file) BY <2>2, <1>2 DEF SnapshotsRead, Reading, Held
    <3>5. Reading' BY <3>4, <2>2, <1>1 DEF SnapshotsRead, Reading, Held
    <3> QED BY <3>3, <3>5
  <2>3. CASE SignalsWeighed
    <3>1. \A read : Signals(read) \subseteq fresh BY DEF Signals
    <3>2. todo' \subseteq fresh
      <4>1. PICK open \in Gates : todo' \in IF open /\ EntriesAllowed
                THEN {Signals(read) : read \in [fresh -> Readings]} ELSE {{}}
        BY <2>3 DEF SignalsWeighed
      <4>2. CASE todo' \in {{}} BY <4>2
      <4>3. CASE todo' \in {Signals(read) : read \in [fresh -> Readings]} BY <4>3, <3>1
      <4> QED BY <4>1, <4>2, <4>3
    <3>3. TypeOK' BY <3>2, <2>3, <1>1, <1>2 DEF SignalsWeighed, TypeOK
    <3>4. Reading' BY <3>2, <2>3, <1>1, <1>2 DEF SignalsWeighed, Reading, Held
    <3> QED BY <3>3, <3>4
  <2>4. CASE EntriesDone BY <2>4, <1>1, <1>2 DEF EntriesDone, TypeOK, Reading
  <2>5. CASE Midnight BY <2>5, <1>1, <1>2 DEF Midnight, TypeOK, Reading, Held
  <2>6. CASE UNCHANGED vars BY <2>6, <1>1, <1>2 DEF vars, TypeOK, Reading, Held
  <2>7. ASSUME NEW s \in Symbols, UnpricedPosition(s) PROVE TypeOK' /\ Reading'
    BY <2>7, <1>1, <1>2 DEF UnpricedPosition, TypeOK, Reading, Held
  <2> QED BY <2>1, <2>2, <2>3, <2>4, <2>5, <2>6, <2>7
<1>4. NoLooser' BY <1>1 DEF IInv, NoLooser, Held
<1>5. Within(file') /\ Within(ledger') BY <1>1 DEF IInv
<1> QED BY <1>3, <1>4, <1>5 DEF IInv, Within, portfolio_stop_risk, Loss, Held, Risk

\* manage_position closes the position or leaves it with a stop no lower.
LEMMA ManageDoes ==
  ASSUME IInv, NEW s \in Symbols, manage_position(s)
  PROVE  /\ s \in Held(ledger) /\ ledger' \in Ledgers /\ Within(ledger')
         /\ \/ ledger'.pos = [ledger.pos EXCEPT ![s] = None]
            \/ \E q \in Position : /\ ledger'.pos = [ledger.pos EXCEPT ![s] = q]
                                   /\ q.entry = ledger.pos[s].entry
                                   /\ q.stop >= ledger.pos[s].stop
<1>1. ledger \in Ledgers /\ s \in Held(ledger) /\ bid[s] \in Nat /\ Within(ledger)
  BY DEF IInv, TypeOK, Reading, manage_position
<1>2. ledger.pos[s] \in Position /\ ledger.pos[s].entry > 0 BY <1>1 DEF Ledgers, Held
<1> DEFINE p == Priced(ledger.pos[s], bid[s])
           q == Trailed(p, bid[s])
<1>3. \/ \E slip \in {0, WorseSlip} : ledger' = close_position(ledger, s, bid[s] - slip)
      \/ ledger' = [ledger EXCEPT !.pos[s] = q]
  BY DEF manage_position
<1>4. CASE \E slip \in {0, WorseSlip} : ledger' = close_position(ledger, s, bid[s] - slip)
  <2>1. PICK slip \in {0, WorseSlip} : ledger' = close_position(ledger, s, bid[s] - slip)
    BY <1>4
  <2>2. bid[s] - slip \in Int BY <1>1, Numbers
  <2>3. Within(close_position(ledger, s, bid[s] - slip)) BY <1>1, <2>2, CloseWithin
  <2>4. /\ close_position(ledger, s, bid[s] - slip) \in Ledgers
        /\ close_position(ledger, s, bid[s] - slip).pos = [ledger.pos EXCEPT ![s] = None]
    BY <1>1, <2>2, CloseShape
  <2> QED BY <1>1, <2>1, <2>3, <2>4
<1>5. CASE ledger' = [ledger EXCEPT !.pos[s] = q]
  <2>1. q \in Position /\ q.entry = ledger.pos[s].entry /\ q.stop >= ledger.pos[s].stop
    BY <1>1, <1>2, TrailShape
  <2> DEFINE m == [ledger EXCEPT !.pos = [ledger.pos EXCEPT ![s] = q]]
  <2> HIDE DEF q
  <2>2. ledger' = m BY <1>5, <1>1 DEF Ledgers
  <2>3. [ledger.pos EXCEPT ![s] = q] \in [Symbols -> Position] BY <1>1, <2>1 DEF Ledgers
  <2>4. m \in Ledgers /\ m.pos = [ledger.pos EXCEPT ![s] = q] /\ m.dayPnl = ledger.dayPnl
        /\ m.gap = ledger.gap
    BY <1>1, <2>3 DEF Ledgers
  <2> HIDE DEF m
  <2>5. \A t \in Symbols : m.pos[t].entry = ledger.pos[t].entry BY <1>1, <2>1, <2>4 DEF Ledgers
  <2>6. \A t \in Held(ledger) : m.pos[t].stop >= ledger.pos[t].stop
    <3> TAKE t \in Held(ledger)
    <3>1. t \in Symbols /\ ledger.pos[t].stop \in Int BY <1>1 DEF Held, Ledgers, Position
    <3>2. CASE t = s BY <3>2, <1>1, <2>1, <2>4 DEF Ledgers
    <3>3. CASE t # s
      <4>1. m.pos[t] = ledger.pos[t] BY <3>1, <3>3, <1>1, <2>4 DEF Ledgers
      <4> QED BY <3>1, <4>1
    <3> QED BY <3>2, <3>3
  <2>7. Within(m) BY <1>1, <2>4, <2>5, <2>6, CarriedWithin
  <2> QED BY <1>1, <2>1, <2>2, <2>4, <2>7
<1> QED BY <1>3, <1>4, <1>5

LEMMA ManageHolds == ASSUME IInv, NEW s \in Symbols, manage_position(s) PROVE IInv'
<1>1. /\ s \in Held(ledger) /\ ledger' \in Ledgers /\ Within(ledger')
      /\ \/ ledger'.pos = [ledger.pos EXCEPT ![s] = None]
         \/ \E q \in Position : /\ ledger'.pos = [ledger.pos EXCEPT ![s] = q]
                                /\ q.entry = ledger.pos[s].entry
                                /\ q.stop >= ledger.pos[s].stop
  BY ManageDoes
<1>2. /\ file' = file /\ step' = step /\ step = "manage" /\ bid' = bid /\ fresh' = fresh
      /\ todo' = todo \ {s} /\ today' = today /\ faults' = faults
  BY DEF manage_position
<1>3. TypeOK /\ Reading /\ NoLooser BY DEF IInv
<1>4. ledger \in Ledgers /\ file \in Ledgers BY <1>3 DEF TypeOK
<1>5. \A t \in Symbols : t # s => ledger'.pos[t] = ledger.pos[t] BY <1>1, <1>4 DEF Ledgers
<1>6. TypeOK' BY <1>1, <1>2, <1>3 DEF TypeOK
<1>7. Reading' BY <1>2, <1>3, <1>5 DEF Reading, Held
<1>8. NoLooser'
  <2> SUFFICES ASSUME NEW t \in Held(file), t \in Held(ledger')
               PROVE  ledger'.pos[t].stop >= file.pos[t].stop
    BY <1>2 DEF NoLooser, Held
  <2>1. t \in Symbols BY DEF Held
  <2>2. CASE t # s
    <3>1. t \in Held(ledger) /\ ledger'.pos[t] = ledger.pos[t] BY <2>1, <2>2, <1>5 DEF Held
    <3> QED BY <3>1, <1>3 DEF NoLooser
  <2>3. CASE t = s
    <3>1. ledger'.pos # [ledger.pos EXCEPT ![s] = None] BY <2>1, <2>3, <1>4, NoPosition DEF Held, Ledgers
    <3>2. PICK q \in Position : /\ ledger'.pos = [ledger.pos EXCEPT ![s] = q]
                                /\ q.stop >= ledger.pos[s].stop
      BY <1>1, <3>1
    <3>3. ledger'.pos[t] = q BY <2>3, <3>2, <1>4 DEF Ledgers
    <3>4. ledger.pos[s].stop >= file.pos[s].stop BY <1>1, <2>3, <1>3 DEF NoLooser
    <3>5. q.stop \in Int /\ ledger.pos[s].stop \in Int /\ file.pos[s].stop \in Int
      BY <1>4 DEF Ledgers, Position
    <3> QED BY <2>3, <3>2, <3>3, <3>4, <3>5
  <2> QED BY <2>2, <2>3
<1>9. Within(file') BY <1>2 DEF IInv
<1> QED BY <1>1, <1>6, <1>7, <1>8, <1>9 DEF IInv, Within, portfolio_stop_risk, Loss, Held, Risk

\* A signal that is weighed opens nothing, or a position for a symbol without one.
LEMMA EntryDoes ==
  ASSUME IInv, NEW s \in Symbols, EntryDecided(s)
  PROVE  /\ ledger' \in Ledgers /\ Within(ledger')
         /\ \/ ledger'.pos = ledger.pos
            \/ s \notin Held(ledger) /\ \E p \in Position : ledger'.pos = [ledger.pos EXCEPT ![s] = p]
<1>1. ledger \in Ledgers /\ Within(ledger) BY DEF IInv, TypeOK
<1>2. PICK risk \in Risks, ok \in Answers :
       ledger' = IF s \in ledger.seen THEN ledger
                 ELSE [(IF ok /\ ledger.trades < MaxTrades
                        THEN open_position(ledger, s, NewPosition(risk))
                        ELSE ledger) EXCEPT !.seen = @ \cup {s}]
  BY DEF EntryDecided
<1>3. CASE s \in ledger.seen BY <1>1, <1>2, <1>3
<1>4. CASE s \notin ledger.seen
  <2> DEFINE p == NewPosition(risk)
             n == IF ok /\ ledger.trades < MaxTrades THEN open_position(ledger, s, p) ELSE ledger
             m == [n EXCEPT !.seen = @ \cup {s}]
  <2>1. p \in Position /\ p.entry > 0 BY NewPositionShape
  <2> HIDE DEF p
  <2>2. open_position(ledger, s, p) \in Ledgers /\ Within(open_position(ledger, s, p))
    BY <1>1, <2>1, OpenShape, OpenWithin
  <2>3. n \in Ledgers /\ Within(n) BY <1>1, <2>2
  <2>4. \/ n.pos = ledger.pos
        \/ s \notin Held(ledger) /\ n.pos = [ledger.pos EXCEPT ![s] = p]
    <3>1. CASE n = ledger BY <3>1
    <3>2. CASE n = open_position(ledger, s, p)
      <4>1. \/ n = ledger
            \/ MayOpen(ledger, s, p) /\ n.pos = [ledger.pos EXCEPT ![s] = p]
        BY <1>1, <2>1, <3>2, OpenShape
      <4> QED BY <4>1 DEF MayOpen, Affordable
    <3> QED BY <3>1, <3>2
  <2> HIDE DEF n
  <2>5. m \in Ledgers /\ m.pos = n.pos /\ m.dayPnl = n.dayPnl /\ m.gap = n.gap BY <2>3, SeenShape
  <2>6. ledger' = m BY <1>2, <1>4 DEF n, p
  <2> HIDE DEF m
  <2>7. \A t \in Held(n) : m.pos[t].stop >= n.pos[t].stop
    BY <2>3, <2>5 DEF Held, Ledgers, Position
  <2>8. Within(m) BY <2>3, <2>5, <2>7, CarriedWithin
  <2> QED BY <2>1, <2>4, <2>5, <2>6, <2>8
<1> QED BY <1>3, <1>4

LEMMA EntryHolds == ASSUME IInv, NEW s \in Symbols, EntryDecided(s) PROVE IInv'
<1>1. /\ ledger' \in Ledgers /\ Within(ledger')
      /\ \/ ledger'.pos = ledger.pos
         \/ s \notin Held(ledger) /\ \E p \in Position : ledger'.pos = [ledger.pos EXCEPT ![s] = p]
  BY EntryDoes
<1>2. /\ file' = file /\ step' = step /\ step = "enter" /\ bid' = bid /\ fresh' = fresh
      /\ todo' = todo \ {s} /\ today' = today /\ faults' = faults /\ s \in todo
  BY DEF EntryDecided
<1>3. TypeOK /\ Reading /\ NoLooser BY DEF IInv
<1>4. ledger \in Ledgers /\ file \in Ledgers BY <1>3 DEF TypeOK
<1>5. \A t \in Symbols : t # s => ledger'.pos[t] = ledger.pos[t] BY <1>1, <1>4 DEF Ledgers
<1>6. TypeOK' BY <1>1, <1>2, <1>3 DEF TypeOK
<1>7. Reading' BY <1>2, <1>3 DEF Reading, Held
<1>8. s \notin Held(file) BY <1>2, <1>3 DEF Reading
<1>9. NoLooser' BY <1>2, <1>3, <1>5, <1>8 DEF NoLooser, Held
<1>10. Within(file') BY <1>2 DEF IInv
<1> QED BY <1>1, <1>6, <1>7, <1>9, <1>10 DEF IInv, Within, portfolio_stop_risk, Loss, Held, Risk

LEMMA StopsAreNumbers == TypeOK => \A s \in Symbols : file.pos[s].stop \in Int /\ ledger.pos[s].stop \in Int
BY DEF TypeOK, Ledgers, Position

LEMMA SaveHolds == IInv /\ save_state => IInv'
<1> SUFFICES ASSUME IInv, save_state PROVE IInv' OBVIOUS
<1>1. file' = ledger /\ ledger' = ledger /\ TypeOK BY DEF save_state, IInv
<1>2. TypeOK' BY <1>1 DEF TypeOK, save_state
<1>3. Reading' BY <1>1 DEF Reading, save_state
<1>4. NoLooser' BY <1>1, StopsAreNumbers DEF NoLooser, Held
<1>5. Within(file') /\ Within(ledger') BY <1>1 DEF IInv
<1> QED BY <1>2, <1>3, <1>4, <1>5 DEF IInv, Within, portfolio_stop_risk, Loss, Held, Risk

LEMMA CrashHolds == IInv /\ Crash => IInv'
<1> SUFFICES ASSUME IInv, Crash PROVE IInv' OBVIOUS
<1>1. file' = file /\ ledger' = file /\ TypeOK BY DEF Crash, IInv
<1>2. TypeOK' BY <1>1 DEF TypeOK, Crash
<1>3. Reading' BY <1>1 DEF Reading, Crash
<1>4. NoLooser' BY <1>1, StopsAreNumbers DEF NoLooser, Held
<1>5. Within(file') /\ Within(ledger') BY <1>1 DEF IInv
<1> QED BY <1>2, <1>3, <1>4, <1>5 DEF IInv, Within, portfolio_stop_risk, Loss, Held, Risk

LEMMA TimeHolds == IInv /\ TimePasses => IInv'
<1> SUFFICES ASSUME IInv, TimePasses PROVE IInv' OBVIOUS
<1>1. file \in Ledgers /\ TypeOK /\ Within(file) BY DEF IInv, TypeOK
<1>2. file' = Aged(file) /\ ledger' = file' BY <1>1 DEF TimePasses, Aged, AgedPositions, Ledgers
<1>3. /\ Aged(file) \in Ledgers /\ Aged(file).dayPnl = file.dayPnl /\ Aged(file).gap = file.gap
      /\ \A s \in Symbols : /\ Aged(file).pos[s].entry = file.pos[s].entry
                            /\ Aged(file).pos[s].stop = file.pos[s].stop
  BY <1>1, AgedShape
<1>4. TypeOK' BY <1>1, <1>2, <1>3 DEF TypeOK, TimePasses
<1>5. Reading' BY <1>2 DEF Reading, TimePasses
<1>6. NoLooser' BY <1>2, <1>4, StopsAreNumbers, <1>1, <1>3 DEF NoLooser, Held
<1>7. \A s \in Held(file) : Aged(file).pos[s].stop >= file.pos[s].stop
  BY <1>1, <1>3, StopsAreNumbers DEF Held
<1>8. Within(file') /\ Within(ledger') BY <1>1, <1>2, <1>3, <1>7, CarriedWithin
<1> QED BY <1>4, <1>5, <1>6, <1>8 DEF IInv, Within, portfolio_stop_risk, Loss, Held, Risk

LEMMA NextHolds == IInv /\ [Next]_vars => IInv'
<1> SUFFICES ASSUME IInv, [Next]_vars PROVE IInv' OBVIOUS
<1>1. CASE RunStarts BY <1>1, RunStartsHolds
<1>2. CASE UniverseFails \/ SnapshotsRead \/ SignalsWeighed \/ EntriesDone \/ Midnight \/ UNCHANGED vars
  BY <1>2, QuietStepHolds
<1>3. CASE \E s \in Symbols : manage_position(s) BY <1>3, ManageHolds
<1>4. CASE \E s \in Symbols : UnpricedPosition(s) BY <1>4, QuietStepHolds
<1>5. CASE \E s \in Symbols : EntryDecided(s) BY <1>5, EntryHolds
<1>6. CASE save_state BY <1>6, SaveHolds
<1>7. CASE Crash BY <1>7, CrashHolds
<1>8. CASE TimePasses BY <1>8, TimeHolds
<1> QED BY <1>1, <1>2, <1>3, <1>4, <1>5, <1>6, <1>7, <1>8 DEF Next, Run

\* What the other theorems rest on: types, a run's ledger against its file, and the
\* budget of both, through closes, entries, saves, crashes and midnights.
THEOREM BotInvariantHolds == Spec => []IInv
<1> QED BY InitHolds, NextHolds, PTL DEF Spec

\* The fields of both ledgers, the run's step and its lists keep their types.
THEOREM TypesHold == Spec => []TypeOK
<1>1. IInv => TypeOK BY DEF IInv
<1> QED BY <1>1, BotInvariantHolds, PTL

\* Whatever the universe, prices, stop distances and limits: the loss of a day is
\* bounded before it happens, by the daily limit and what fills were worse than
\* the stops the budget had counted with.
THEOREM DailyLossBounded == Spec => []DailyLossBound
<1>1. IInv => DailyLossBound
  <2> SUFFICES ASSUME IInv PROVE DailyLossBound OBVIOUS
  <2>1. ledger \in Ledgers /\ Within(ledger) BY DEF IInv, TypeOK
  <2>2. portfolio_stop_risk(ledger) >= 0
    <3>1. \A s \in Held(ledger) : Risk(ledger)[s] \in Nat BY <2>1, HeldIsFinite
    <3> QED BY <2>1, <3>1, SumIsNat, HeldIsFinite DEF portfolio_stop_risk
  <2>3. portfolio_stop_risk(ledger) \in Int /\ Loss(ledger) \in Int /\ ledger.gap \in Int
    BY <2>1, PortfolioIsInt, LossIs DEF Ledgers
  <2> QED BY <2>1, <2>2, <2>3, Numbers DEF Within, DailyLossBound
<1> QED BY <1>1, BotInvariantHolds, PTL

\* A program whose INTERVAL_MS does not know the daily bars (market_context.py:16-23
\* names none above four hours) reads every listing age as unavailable and opens
\* nothing, whatever the signals, the books and the limits are.
THEOREM NoDailyBarsNoEntry ==
  ASSUME "1d" \notin Intervals
  PROVE  Spec => [](Held(file) = {} /\ Held(ledger) = {})
<1> DEFINE Empty == Held(file) = {} /\ Held(ledger) = {}
<1>1. Init => Empty BY EmptyWithin DEF Init
<1>2. ASSUME IInv, Empty, [Next]_vars PROVE Empty'
  <2>1. file \in Ledgers /\ ledger \in Ledgers /\ (step = "manage" => todo = {})
    BY <1>2 DEF IInv, TypeOK, Reading
  <2>2. CASE RunStarts
    <3>1. file' = file /\ ledger' = reset_day(file) BY <2>2 DEF RunStarts
    <3>2. reset_day(file).pos = file.pos BY <1>2, <2>1, ResetShape DEF IInv, TypeOK
    <3> QED BY <1>2, <3>1, <3>2 DEF Held
  <2>3. CASE UniverseFails \/ SnapshotsRead \/ SignalsWeighed \/ EntriesDone \/ Midnight
             \/ UNCHANGED vars \/ \E s \in Symbols : UnpricedPosition(s)
    <3>1. file' = file /\ ledger' = ledger
      BY <2>3 DEF UniverseFails, SnapshotsRead, SignalsWeighed, EntriesDone, Midnight, vars, UnpricedPosition
    <3> QED BY <1>2, <3>1 DEF Held
  <2>4. CASE \E s \in Symbols : manage_position(s)
    BY <2>1, <2>4 DEF manage_position
  <2>5. CASE \E s \in Symbols : EntryDecided(s)
    <3>1. PICK s \in Symbols : EntryDecided(s) BY <2>5
    <3>2. PICK risk \in Risks, ok \in Answers :
            ledger' = IF s \in ledger.seen THEN ledger
                      ELSE [(IF ok /\ ledger.trades < MaxTrades
                             THEN open_position(ledger, s, NewPosition(risk))
                             ELSE ledger) EXCEPT !.seen = @ \cup {s}]
      BY <3>1 DEF EntryDecided
    <3>3. ~ok
      <4>1. PICK o \in Orders : ok = Fills(o) BY DEF Answers
      <4>2. ~Fills(o) BY DEF Fills, listing_age_status
      <4> QED BY <4>1, <4>2
    <3>4. ledger' = ledger \/ ledger' = [ledger EXCEPT !.seen = @ \cup {s}] BY <3>2, <3>3
    <3>5. ledger'.pos = ledger.pos BY <2>1, <3>4 DEF Ledgers
    <3> QED BY <1>2, <3>1, <3>5 DEF EntryDecided, Held
  <2>6. CASE save_state BY <1>2, <2>6 DEF save_state, Held
  <2>7. CASE Crash BY <1>2, <2>7 DEF Crash, Held
  <2>8. CASE TimePasses
    <3>1. file' = Aged(file) /\ ledger' = file'
      BY <2>1, <2>8 DEF TimePasses, Aged, AgedPositions, Ledgers
    <3>2. \A s \in Symbols : Aged(file).pos[s].entry = file.pos[s].entry
      BY <2>1, AgedShape
    <3> QED BY <1>2, <3>1, <3>2 DEF Held
  <2> QED BY <1>2, <2>2, <2>3, <2>4, <2>5, <2>6, <2>7, <2>8 DEF Next, Run
<1> HIDE DEF Empty
<1>3. Empty => Held(file) = {} /\ Held(ledger) = {} BY DEF Empty
<1> QED BY <1>1, <1>2, <1>3, BotInvariantHolds, PTL DEF Spec

LEMMA TightensStep ==
  ASSUME IInv, [Next]_vars
  PROVE  \A s \in Symbols :
       /\ s \in Held(file) /\ s \in Held(file') =>
            file'.pos[s].stop >= file.pos[s].stop
       /\ step # "idle" /\ step' # "idle" /\ s \in Held(ledger) /\ s \in Held(ledger') =>
            ledger'.pos[s].stop >= ledger.pos[s].stop
<1> TAKE s \in Symbols
<1>1. TypeOK /\ file.pos[s].stop \in Int /\ ledger.pos[s].stop \in Int
  BY StopsAreNumbers DEF IInv
<1>2. file \in Ledgers /\ ledger \in Ledgers BY <1>1 DEF TypeOK
<1> DEFINE Files == s \in Held(file) /\ s \in Held(file') => file'.pos[s].stop >= file.pos[s].stop
           Runs == step # "idle" /\ step' # "idle" /\ s \in Held(ledger) /\ s \in Held(ledger') =>
                     ledger'.pos[s].stop >= ledger.pos[s].stop
<1>3. CASE file' = file /\ ledger' = ledger BY <1>1, <1>3
<1>4. CASE RunStarts BY <1>1, <1>4 DEF RunStarts
<1>5. CASE \E t \in Symbols : manage_position(t)
  <2>1. PICK t \in Symbols : manage_position(t) BY <1>5
  <2>2. file' = file BY <2>1 DEF manage_position
  <2>3. \/ ledger'.pos = [ledger.pos EXCEPT ![t] = None]
        \/ \E q \in Position : /\ ledger'.pos = [ledger.pos EXCEPT ![t] = q]
                               /\ q.entry = ledger.pos[t].entry
                               /\ q.stop >= ledger.pos[t].stop
    BY <2>1, ManageDoes
  <2>4. CASE s # t
    <3>1. ledger'.pos[s] = ledger.pos[s] BY <2>3, <2>4, <1>2 DEF Ledgers
    <3> QED BY <2>2, <3>1, <1>1
  <2>5. CASE s = t
    <3>1. \/ ledger'.pos[s] = None
          \/ ledger'.pos[s].stop >= ledger.pos[s].stop
      BY <2>3, <2>5, <1>2 DEF Ledgers
    <3>2. ledger'.pos[s] = None => s \notin Held(ledger') BY NoPosition DEF Held
    <3> QED BY <2>2, <3>1, <3>2, <1>1
  <2> QED BY <2>4, <2>5
<1>6. CASE \E t \in Symbols : EntryDecided(t)
  <2>1. PICK t \in Symbols : EntryDecided(t) BY <1>6
  <2>2. file' = file BY <2>1 DEF EntryDecided
  <2>3. \/ ledger'.pos = ledger.pos
        \/ t \notin Held(ledger) /\ \E p \in Position : ledger'.pos = [ledger.pos EXCEPT ![t] = p]
    BY <2>1, EntryDoes
  <2>4. s \in Held(ledger) => ledger'.pos[s] = ledger.pos[s]
    BY <2>3, <1>2 DEF Ledgers
  <2> QED BY <2>2, <2>4, <1>1
<1>7. CASE save_state BY <1>1, <1>7 DEF save_state, IInv, NoLooser, Held
<1>8. CASE Crash BY <1>1, <1>8 DEF Crash
<1>9. CASE TimePasses
  <2>1. file' = Aged(file) BY <1>2, <1>9 DEF TimePasses, Aged, AgedPositions, Ledgers
  <2>2. Aged(file).pos[s].stop = file.pos[s].stop BY <1>2, AgedShape
  <2>3. step' = "idle" \/ step = "idle" BY <1>9 DEF TimePasses
  <2> QED BY <2>1, <2>2, <2>3, <1>1
<1> QED BY <1>3, <1>4, <1>5, <1>6, <1>7, <1>8, <1>9
  DEF Next, Run, vars, UniverseFails, SnapshotsRead, SignalsWeighed, EntriesDone, Midnight,
      UnpricedPosition

\* No step loosens a stop, neither in the file nor within a run: a position a run
\* holds is the one it read, with a stop no lower.
THEOREM StopsTighten == Spec => StopsOnlyTighten
<1>1. IInv /\ [Next]_vars => [\A s \in Symbols :
       /\ s \in Held(file) /\ s \in Held(file') =>
            file'.pos[s].stop >= file.pos[s].stop
       /\ step # "idle" /\ step' # "idle" /\ s \in Held(ledger) /\ s \in Held(ledger') =>
            ledger'.pos[s].stop >= ledger.pos[s].stop]_vars
  BY TightensStep
<1> QED BY <1>1, BotInvariantHolds, PTL DEF Spec, StopsOnlyTighten

(***************************************************************************)
(* What the thresholds of the early-momentum engine amount to together:    *)
(* prefilter, microstructure score and eligibility of MicroEntry.          *)
(***************************************************************************)
\* The table never gives more than 85 points.
LEMMA PrefilterRange ==
  ASSUME NEW f \in AllFacts
  PROVE  /\ prefilter_score(f) \in 0..85
         /\ prefilter_score(f) >= 70 /\ ~f.cvd
              => f.trades = 2 /\ f.slope /\ f.expansion /\ f.near
PROOF
  <1> DEFINE a == Points(f.volume >= 1, 12)
             b == Points(f.volume = 2 /\ f.volume3, 8)
             c == Points(f.taker >= 1, 10)
             d == Points(f.taker >= 2 /\ f.rising, 10)
             e == Points(f.cvd, 15)
             g == Points(f.trades >= 1, 6)
             h == Points(f.trades = 2, 4)
             i == Points(f.vwap = "near", 5)
             j == Points(f.slope, 5)
             k == Points(f.expansion, 5)
             l == Points(f.near, 5)
  <1>1. /\ a \in 0..12 /\ b \in 0..8 /\ c \in 0..10 /\ d \in 0..10 /\ e \in 0..15
        /\ g \in 0..6 /\ h \in 0..4 /\ i \in 0..5 /\ j \in 0..5 /\ k \in 0..5
        /\ l \in 0..5
    BY DEF Points
  <1>2. ~f.cvd => e = 0
    BY DEF Points
  <1>3. /\ h = 4 => f.trades = 2
        /\ j = 5 => f.slope
        /\ k = 5 => f.expansion
        /\ l = 5 => f.near
    BY DEF Points
  <1>4. prefilter_score(f) = a + b + c + d + e + g + h + i + j + k + l
    BY DEF prefilter_score
  <1> HIDE DEF a, b, c, d, e, g, h, i, j, k, l
  <1>5. /\ a + b + c + d + e + g + h + i + j + k + l \in 0..85
        /\ a + b + c + d + e + g + h + i + j + k + l >= 70 /\ e = 0
              => h = 4 /\ j = 5 /\ k = 5 /\ l = 5
    BY <1>1
  <1> QED
    BY <1>2, <1>3, <1>4, <1>5

\* The cut at 100 in combine_microstructure never takes a point away: 85 of the
\* table and 15 of the book are all there is.
THEOREM ScoreNeedsNoCut == \A f \in AllFacts : score(f) \in 0..100
PROOF
  <1> TAKE f \in AllFacts
  <1>1. prefilter_score(f) \in 0..85
    BY PrefilterRange
  <1>2. Points(f.obi >= 1, 8) \in 0..8 /\ Points(f.obi = 2, 7) \in 0..7
    BY DEF Points
  <1> QED
    BY <1>1, <1>2 DEF score

\* What an eligible symbol has, whichever function asked for it.
LEMMA EligibleFacts ==
  ASSUME NEW f \in AllFacts, eligible(f)
  PROVE  /\ combine_microstructure(f) = "ENTRY_CANDIDATE"
         /\ adverse_selection_status(f) /\ liquidity_disappearance_status(f)
         /\ score(f) >= 85 /\ ignition(f) /\ required(f)
PROOF
  <1>1. /\ combine_microstructure(f) = "ENTRY_CANDIDATE"
        /\ adverse_selection_status(f) /\ liquidity_disappearance_status(f)
    BY DEF eligible, enrich_microstructure
  <1>2. classify(score(f)) = "ENTRY_CANDIDATE" /\ ignition(f) /\ required(f)
    BY <1>1 DEF combine_microstructure
  <1>3. score(f) >= 85
    BY <1>2 DEF classify
  <1> QED
    BY <1>1, <1>2, <1>3

\* "Book imbalance is not trusted by itself" (production_guard.py:105): a symbol
\* is eligible only on a bullish book that the trades confirm, the buy share of
\* the last minute being above the ARMED threshold although the entry asks for less.
THEOREM EligibleIsConfirmed ==
  \A f \in AllFacts : eligible(f) =>
    /\ f.obi = 2 /\ f.ratio = 2 /\ f.bias /\ ~f.bidGone /\ ~f.askSurge
    /\ f.taker = 3 /\ f.rising /\ ~chase(f)
PROOF
  <1> SUFFICES ASSUME NEW f \in AllFacts, eligible(f)
               PROVE  /\ f.obi = 2 /\ f.ratio = 2 /\ f.bias /\ ~f.bidGone /\ ~f.askSurge
                      /\ f.taker = 3 /\ f.rising /\ ~chase(f)
    OBVIOUS
  <1>1. f.obi = 2 /\ f.taker = 3
    BY EligibleFacts DEF ignition
  <1>2. f.rising /\ ~chase(f)
    BY EligibleFacts DEF required
  <1>3. f.ratio = 2 /\ f.bias /\ ~f.bidGone
    BY <1>1, EligibleFacts DEF adverse_selection_status
  <1>4. ~f.askSurge
    BY EligibleFacts DEF liquidity_disappearance_status
  <1> QED
    BY <1>1, <1>2, <1>3, <1>4

\* The candle CVD is worth 15 points (early_momentum.py:323): without it a symbol
\* is eligible only when every other line that ignition does not ask for is full.
THEOREM EligibleWithoutCvd ==
  \A f \in AllFacts : eligible(f) /\ ~f.cvd =>
    f.trades = 2 /\ f.slope /\ f.expansion /\ f.near
PROOF
  <1> SUFFICES ASSUME NEW f \in AllFacts, eligible(f), ~f.cvd
               PROVE  f.trades = 2 /\ f.slope /\ f.expansion /\ f.near
    OBVIOUS
  <1>1. score(f) >= 85
    BY EligibleFacts
  <1>2. Points(f.obi >= 1, 8) \in 0..8 /\ Points(f.obi = 2, 7) \in 0..7
    BY DEF Points
  <1>3. prefilter_score(f) \in 0..85
    BY PrefilterRange
  <1>4. prefilter_score(f) >= 70
    BY <1>1, <1>2, <1>3 DEF score
  <1> QED
    BY <1>4, PrefilterRange

\* Of the conditions of classify_market_regime only the breadth of the last
\* quarter of an hour can stop a run that the BTC gate after it would let through.
THEOREM RegimeAddsBreadth ==
  \A m \in AllMarkets : MarketAllows(m) <=>
    clock_sync_status(m) /\ btc_shock_status(m) /\ btc_regime(m) /\ m.breadth15m >= 20
  BY DEF MarketAllows, AllMarkets, btc_regime, classify_market_regime

\* Rounding up to a tick adds less than a tick.
LEMMA RoundedUpBound ==
  ASSUME NEW n \in Nat, NEW tick \in Nat \ {0}
  PROVE  RoundedUp(n, tick) \in Int /\ RoundedUp(n, tick) < n + tick
PROOF
  <1> DEFINE q == (n + tick - 1) \div tick
  <1>1. n + tick - 1 = tick * q + ((n + tick - 1) % tick)
        /\ (n + tick - 1) % tick \in 0..(tick - 1) /\ q \in Int
    OBVIOUS
  <1>2. tick * q = q * tick
    BY <1>1
  <1> QED
    BY <1>1, <1>2 DEF RoundedUp

\* The budget of 12 points (max_estimated_slippage_bps and smart_execution's
\* max_slippage_bps) is not what limits a fill: a limit order pays less than the
\* 8 points it crosses and a tick, drift included, and a market order slips by
\* 4 points at most, whatever the drift.
THEOREM FillIsWithinCross ==
  \A o \in AllOrders : Fills(o) => Paid(o) < 8 + o.tick \/ o.slip <= 4
PROOF
  <1> SUFFICES ASSUME NEW o \in AllOrders, Fills(o)
               PROVE  Paid(o) < 8 + o.tick \/ o.slip <= 4
    OBVIOUS
  <1>1. /\ o.slip \in 0..40 /\ o.past \in 0..40
        /\ o.tick \in 1..40 /\ o.drift \in 0..40
    BY DEF AllOrders
  <1>2. EffectiveSlip(o) \in Nat /\ o.slip <= EffectiveSlip(o)
    BY <1>1 DEF EffectiveSlip
  <1>3. CASE choose_execution_plan(o) = "MARKET"
    BY <1>1, <1>2, <1>3 DEF choose_execution_plan
  <1>4. CASE choose_execution_plan(o) = "AGGRESSIVE_LIMIT" /\ Paid(o) <= Cross(o)
    <2> DEFINE n == IF EffectiveSlip(o) < 8 THEN EffectiveSlip(o) ELSE 8
    <2>1. n \in Nat /\ n <= 8
      BY <1>2
    <2>2. o.tick \in Nat \ {0}
      BY <1>1
    <2>3. Cross(o) \in Int /\ Cross(o) < n + o.tick
      BY <2>1, <2>2, RoundedUpBound DEF Cross
    <2>4. Paid(o) \in Int
      BY <1>1 DEF Paid
    <2> QED
      BY <1>1, <1>4, <2>1, <2>3, <2>4
  <1> QED
    BY <1>3, <1>4 DEF Fills
=============================================================================
