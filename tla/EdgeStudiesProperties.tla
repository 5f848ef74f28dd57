------------------------ MODULE EdgeStudiesProperties ------------------------
(* What a study's verdict may rest on. *)
EXTENDS EdgeStudies

RowsOf(use) == UNION {InPart(i) : i \in Uses(use)}
\* a label reads the bars after its signal's bar
Overlap(r, q) == r.sym = q.sym /\ r.bar < q.last /\ q.bar < r.last

\* No row that proves a rule has read a bar that a row which picked the rule has
\* read: labels that run past the end of their part, parts that share rows,
\* symbols that are only held out for some splits, and bars closed up by a filter
\* would each break it, and so would thresholds taken from the whole sample.
ProofIsUnseen ==
  /\ \A r \in RowsOf("pick"), q \in RowsOf("prove") : ~Overlap(r, q)
  /\ plan.rows.thresholds = "all" => RowsOf("prove") = {}

(***************************************************************************)
(* What the plan of a study, read on its own, must say for its verdicts to *)
(* be sound: conditions on the data of StudyPlans that need no run.        *)
(***************************************************************************)
PlanTypes ==
  [load  : [bars : Nat \ {0}, least : Nat, lost : {"skip", "abort"}, anchor : BOOLEAN],
   rows  : [warm : Nat, thresholds : {"fixed", "pick", "all"}, index : {"raw", "kept", "contiguous"}],
   space : [kind : {"signal", "busy", "none"}, bars : Int, fresh : BOOLEAN],
   label : [wait : Nat, horizon : Nat \ {0}, exit : {"touch", "touch only", "horizon"},
            end : {"cut", "drop"}, bound : {"part", "data"}],
   parts : Seq([use : {"pick", "check", "prove"}, who : SUBSET Symbols, unit : {"bar", "share", "row"},
                from : Nat, to : Int, need : Nat])]
WellFormed(p) == p \in PlanTypes /\ p.load.least <= p.load.bars

ReachOf(p) == p.label.wait + p.label.horizon
Spaces(p) == p.space.kind = "busy" \/ (p.space.kind = "signal" /\ p.space.bars >= ReachOf(p))
\* parts i and j have no bar of a symbol in common
Disjoint(i, j) ==
  \/ i.who \cap j.who = {}
  \/ i.unit = "bar" /\ j.unit = "bar" /\ (i.to < j.from \/ j.to < i.from)
  \/ i.unit = "share" /\ j.unit = "share" /\ (i.to <= j.from \/ j.to <= i.from)
\* the spacing really covers the bars of a label, and is given up only between
\* parts that share no bar
SpacesRows(p) ==
  Spaces(p) =>
    /\ p.space.kind = "busy" => p.space.bars >= 0
    /\ p.space.kind = "signal" => p.rows.index # "kept"
    /\ p.space.fresh => \A i, j \in DOMAIN p.parts :
                         p.parts[i].unit # "row" /\ (i # j => Disjoint(p.parts[i], p.parts[j]))
\* every label of part i has ended where part j starts
EndsBefore(p, i, j) ==
  /\ i.unit = "bar" /\ j.unit = "bar"
  /\ \/ p.label.bound = "part" /\ i.to <= j.from
     \/ p.rows.index # "kept" /\ i.to + ReachOf(p) <= j.from
\* consecutive shares of one ordered list of independent rows
SplitByRank(p, i, j) ==
  /\ i.unit = "row" /\ j.unit = "row" /\ i.who = j.who
  /\ i.to <= j.from \/ j.to <= i.from
  /\ Spaces(p) /\ SpacesRows(p) /\ ~p.space.fresh
KeepsApart(p) ==
  \A j \in DOMAIN p.parts : p.parts[j].use = "prove" =>
    /\ p.rows.thresholds # "all"
    /\ \A i \in DOMAIN p.parts : p.parts[i].use = "pick" =>
         \/ p.parts[i].who \cap p.parts[j].who = {}
         \/ EndsBefore(p, p.parts[i], p.parts[j]) \/ EndsBefore(p, p.parts[j], p.parts[i])
         \/ SplitByRank(p, p.parts[i], p.parts[j])
=============================================================================
