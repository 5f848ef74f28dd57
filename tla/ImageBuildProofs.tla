-------------------------- MODULE ImageBuildProofs --------------------------
(***************************************************************************)
(* Theorems about the RUN chain, for every set of scripts taken out and    *)
(* every number of builds over the tree of the last one.  What the scripts *)
(* have to be for them (PatchesSound, CeilingsOfOne, ThinStakeIsLate) is a *)
(* statement about the 39 scripts alone, without a behaviour: it is the    *)
(* theorems' hypothesis, and MCImageBuild evaluates it.                    *)
(***************************************************************************)
EXTENDS ImageBuildProperties, WellFoundedInduction, TLAPS

(***************************************************************************)
(* The inductive invariant.  Three parts speak of the files alone: where   *)
(* their texts come from, what stands where a mark stands, and what an     *)
(* earlier script hands over.  The others follow the chain: what its       *)
(* scripts so far, and the groups so far of the running one, put for good. *)
(***************************************************************************)
Disks == [Files -> Texts]
Putters == Scripts \ left
PutsFor(s, f, t) == \E e \in EditsOf(s) : e.file = f /\ t \in e.puts
Origin == \A f \in Files : \A t \in disk[f] : t \in Base[f] \/ \E s \in Putters : PutsFor(s, f, t)
Marked(d) == \A s \in Scripts : \A e \in EditsOf(s) :
  e.unless # {} /\ e.unless \subseteq d[e.file] => Kept(s, e) \subseteq d[e.file]
Handed(d) == \A r \in Scripts, s \in Scripts : \A x \in EditsOf(r), e \in EditsOf(s) :
  HandsOver(r, x, s, e) /\ x.unless \subseteq d[x.file] =>
    e.at \subseteq d[e.file] \/ Kept(s, e) \subseteq d[e.file]

\* what the script at place i puts for good is there
Settled(i) == Chain[i] \notin left => \A e \in EditsOf(Chain[i]) : Kept(Chain[i], e) \subseteq disk[e.file]
ChainSettled == \A i \in Places : i < place => Settled(i)
GroupsSettled ==
  place \in Places /\ Chain[place] \notin left =>
    \A h \in DOMAIN Script[Chain[place]] : h < group =>
      \A k \in DOMAIN Script[Chain[place]][h].edits :
        LET e == Script[Chain[place]][h].edits[k] IN Kept(Chain[place], e) \subseteq disk[e.file]
\* this chain has saved group g of place i and is still in its process
Underway(i, g) == i <= place /\ place < ProcessEnd(i) /\ (place = i => g < group)
\* a stop mark of an earlier process: all of that process is in the files
StopsSettled ==
  \A i \in Places : \A g \in DOMAIN Script[Chain[i]] : \A m \in Script[Chain[i]][g].stop :
    m \in disk["engine"] /\ ~Underway(i, g) => \A j \in i..(ProcessEnd(i) - 1) : Settled(j)

\* a script is taken out without which nothing is published
Doomed == \E r \in left \cap Scripts : Vital(r)
TypesHold ==
  /\ disk \in Disks
  /\ place \in 1..(Len(Chain) + 1) /\ group \in Nat /\ group >= 1
  /\ status \in {"building", "failed", "published"}
IInv ==
  /\ TypesHold /\ Origin /\ Marked(disk) /\ Handed(disk)
  /\ ~Doomed => ChainSettled /\ GroupsSettled /\ StopsSettled
  /\ status = "published" => ~Doomed /\ place > Len(Chain)

(***************************************************************************)
(* Induction over places, and the edits of a group as a sequence of        *)
(* stages.                                                                 *)
(***************************************************************************)
\* What holds at 0 and is handed on by each number holds up to N.
LEMMA Upwards ==
  ASSUME NEW N \in Nat, NEW T, 0 \in T, \A n \in 1..N : n - 1 \in T => n \in T
  PROVE  \A n \in 0..N : n \in T
<1> DEFINE U == {n \in 0..N : n \notin T}
<1> SUFFICES ASSUME U # {} PROVE FALSE
  OBVIOUS
<1>1. U \subseteq Nat
  OBVIOUS
<1> HIDE DEF U
<1>2. PICK m \in U : \A n \in U : ~(<<n, m>> \in OpToRel(<, Nat))
  BY <1>1, NatLessThanWellFounded, WFMin
<1> USE DEF U
<1>3. m \in 0..N /\ m \notin T /\ m # 0
  BY <1>2
<1>4. m - 1 \in T
  <2> SUFFICES ASSUME m - 1 \notin T PROVE FALSE
    OBVIOUS
  <2>1. m - 1 \in U /\ m - 1 < m /\ m - 1 \in Nat /\ m \in Nat
    BY <1>3
  <2> QED BY <1>2, <2>1 DEF OpToRel
<1> QED BY <1>3, <1>4

\* the first place after i that opens a process
LEMMA ProcessEnds ==
  ASSUME NEW i \in Places
  PROVE  /\ ProcessEnd(i) \in (i + 1)..(Len(Chain) + 1) /\ Opens(ProcessEnd(i))
         /\ \A k \in (i + 1)..(ProcessEnd(i) - 1) : ~Opens(k)
         /\ \A j \in i..(ProcessEnd(i) - 1) : ProcessEnd(j) = ProcessEnd(i)
<1>0. Len(Chain) \in Nat /\ Len(Chain) = 39
  BY DEF Chain
<1>1. i \in 1..39 /\ 39 + 1 = 40
  BY <1>0 DEF Places
<1> DEFINE First(a, j) == j \in (a + 1)..40 /\ Opens(j) /\ \A k \in (a + 1)..(j - 1) : ~Opens(k)
<1>2. \A a \in 1..39 : ProcessEnd(a) = CHOOSE j \in (a + 1)..40 : First(a, j)
  BY <1>0 DEF ProcessEnd
<1>3. \A a \in 1..39 : \E j \in (a + 1)..40 : First(a, j)
  <2> SUFFICES ASSUME NEW a \in 1..39 PROVE \E j \in (a + 1)..40 : First(a, j)
    OBVIOUS
  <2> DEFINE U == {j \in (a + 1)..40 : Opens(j)}
  <2>1. 40 \in U
    BY <1>0 DEF Opens
  <2>2. U \subseteq Nat /\ U # {}
    BY <2>1
  <2> HIDE DEF U
  <2>3. PICK m \in U : \A n \in U : ~(<<n, m>> \in OpToRel(<, Nat))
    BY <2>2, NatLessThanWellFounded, WFMin
  <2> USE DEF U
  <2>4. \A k \in (a + 1)..(m - 1) : ~Opens(k)
    <3> SUFFICES ASSUME NEW k \in (a + 1)..(m - 1), Opens(k) PROVE FALSE
      OBVIOUS
    <3>1. m \in (a + 1)..40 /\ k < m /\ k \in Nat /\ m \in Nat /\ k \in U
      OBVIOUS
    <3> QED BY <2>3, <3>1 DEF OpToRel
  <2> QED BY <2>3, <2>4
<1>4. \A a \in 1..39 : First(a, ProcessEnd(a))
  BY <1>2, <1>3
<1>5. \A a \in 1..39 : \A j, k \in Nat : First(a, j) /\ First(a, k) => j = k
  <2> SUFFICES ASSUME NEW a \in 1..39, NEW j \in Nat, NEW k \in Nat, First(a, j), First(a, k), j < k
               PROVE  FALSE
    OBVIOUS
  <2>1. j \in (a + 1)..(k - 1)
    OBVIOUS
  <2> QED BY <2>1
<1>6. ASSUME NEW j \in i..(ProcessEnd(i) - 1) PROVE ProcessEnd(j) = ProcessEnd(i)
  <2>1. ProcessEnd(i) \in 2..40 /\ j \in 1..39 /\ i <= j /\ j < ProcessEnd(i)
    BY <1>1, <1>4
  <2>2. First(j, ProcessEnd(i))
    BY <1>1, <1>4, <2>1
  <2>3. ProcessEnd(j) \in Nat /\ First(j, ProcessEnd(j))
    BY <1>4, <2>1
  <2> QED BY <1>5, <2>1, <2>2, <2>3
<1> QED BY <1>0, <1>1, <1>4, <1>6


\* The stages are the edits one after the other.
LEMMA StagesRun ==
  ASSUME NEW edits, Len(edits) \in Nat
  PROVE  /\ Stages(edits)[0] = [ok |-> TRUE, disk |-> disk]
         /\ \A n \in 1..Len(edits) : Stages(edits)[n] = Apply(Stages(edits)[n - 1], edits[n])
<1> DEFINE N == Len(edits)
           start == [ok |-> TRUE, disk |-> disk]
           Stage(h, j) == IF j = 0 THEN start ELSE Apply(h[j - 1], edits[j])
           Runs(n, h) == h = [j \in 0..n |-> Stage(h, j)]
           T == {n \in 0..N : \E h : Runs(n, h)}
<1>0. N \in Nat
  OBVIOUS
<1>a. \A h : Stage(h, 0) = start
  OBVIOUS
<1>b. \A h, j : j # 0 => Stage(h, j) = Apply(h[j - 1], edits[j])
  OBVIOUS
<1>c. Stages(edits) = CHOOSE h : Runs(N, h)
  BY DEF Stages
<1> HIDE DEF start, N
<1>d. \A h, g, j : (j # 0 => h[j - 1] = g[j - 1]) => Stage(h, j) = Stage(g, j)
  OBVIOUS
<1> HIDE DEF Stage
<1>1. 0 \in T
  <2> DEFINE h == [j \in 0..0 |-> start]
  <2>1. h = [j \in 0..0 |-> Stage(h, j)]
    <3>1. \A j \in 0..0 : j = 0
      OBVIOUS
    <3> HIDE DEF h
    <3>2. \A j \in 0..0 : Stage(h, j) = start
      BY <3>1, <1>a
    <3> USE DEF h
    <3> QED BY <3>2
  <2>2. Runs(0, h)
    BY <2>1
  <2> HIDE DEF Runs, h
  <2> QED BY <2>2, <1>0
<1>2. ASSUME NEW n \in 1..N, n - 1 \in T PROVE n \in T
  <2>1. PICK h : Runs(n - 1, h)
    BY <1>2
  <2>2. h = [j \in 0..(n - 1) |-> Stage(h, j)]
    BY <2>1
  <2> DEFINE g == [j \in 0..n |-> IF j < n THEN h[j] ELSE Stage(h, n)]
  <2>3. n \in Nat /\ n >= 1 /\ n \in 0..N
    BY <1>0, <1>2
  <2>4. \A j \in 0..(n - 1) : g[j] = h[j]
    BY <2>3
  <2>5. g[n] = Stage(h, n)
    BY <2>3
  <2>6. g = [j \in 0..n |-> g[j]]
    OBVIOUS
  <2> HIDE DEF g
  <2>7. ASSUME NEW j \in 0..n PROVE g[j] = Stage(g, j)
    <3>1. j # 0 => j - 1 \in 0..(n - 1)
      BY <2>3
    <3>2. Stage(h, j) = Stage(g, j)
      BY <1>d, <2>4, <3>1
    <3>3. CASE j < n
      <4>1. j \in 0..(n - 1)
        BY <3>3, <2>3
      <4>2. h[j] = Stage(h, j)
        BY <2>2, <4>1
      <4> QED BY <4>1, <4>2, <3>2, <2>4
    <3>4. CASE j = n
      BY <3>4, <3>2, <2>5
    <3> QED BY <3>3, <3>4, <2>3
  <2>8. g = [j \in 0..n |-> Stage(g, j)]
    BY <2>6, <2>7
  <2>9. Runs(n, g)
    BY <2>8
  <2> HIDE DEF Runs
  <2> QED BY <2>9, <2>3
<1>3. N \in T
  <2>1. \A n \in 1..N : n - 1 \in T => n \in T
    BY <1>2
  <2> HIDE DEF T
  <2>2. \A n \in 0..N : n \in T
    BY <1>0, <1>1, <2>1, Upwards
  <2> QED BY <2>2, <1>0
<1>4. PICK h : Runs(N, h)
  BY <1>3
<1>5. Runs(N, Stages(edits))
  <2> HIDE DEF Runs
  <2> QED BY <1>4, <1>c
<1>6. Stages(edits) = [j \in 0..N |-> Stage(Stages(edits), j)]
  BY <1>5
<1>7. \A j \in 0..N : Stages(edits)[j] = Stage(Stages(edits), j)
  BY <1>6
<1>8. \A n \in 1..N : n \in 0..N /\ n # 0
  BY <1>0
<1>9. 0 \in 0..N
  BY <1>0
<1> QED BY <1>7, <1>8, <1>9, <1>a, <1>b DEF start, N

(***************************************************************************)
(* One edit.                                                               *)
(***************************************************************************)
\* the edits of a script as rows
LEMMA EditTypes ==
  ASSUME PatchesSound, NEW s \in Scripts
  PROVE  /\ EditsOf(s) \subseteq EditRows /\ EditsOf(s) \subseteq AllEdits
         /\ \A h \in DOMAIN Script[s] :
              /\ Len(Script[s][h].edits) \in Nat
              /\ DOMAIN Script[s][h].edits = 1..Len(Script[s][h].edits)
              /\ \A k \in DOMAIN Script[s][h].edits : Script[s][h].edits[k] \in EditsOf(s)
<1>1. Script[s] \in Seq(PatchGroups)
  BY DEF PatchesSound, PatchTypes
<1>2. \A h \in DOMAIN Script[s] : Script[s][h] \in PatchGroups
  BY <1>1
<1>3. \A g \in PatchGroups : g.edits \in Seq(EditRows)
  BY DEF PatchGroups
<1>4. \A x \in Seq(EditRows) : Len(x) \in Nat /\ DOMAIN x = 1..Len(x) /\ \A k \in DOMAIN x : x[k] \in EditRows
  OBVIOUS
<1>5. \A h \in DOMAIN Script[s] : Script[s][h].edits \in Seq(EditRows)
  BY <1>2, <1>3
<1>6. \A e : e \in EditsOf(s) <=>
        \E h \in DOMAIN Script[s] : \E k \in DOMAIN Script[s][h].edits : e = Script[s][h].edits[k]
  BY DEF EditsOf
<1>7. EditsOf(s) \subseteq EditRows
  BY <1>4, <1>5, <1>6
<1>8. EditsOf(s) \subseteq AllEdits
  BY DEF AllEdits
<1> QED BY <1>4, <1>5, <1>6, <1>7, <1>8

\* the fields of a row
LEMMA RowFields ==
  ASSUME NEW e \in EditRows
  PROVE  /\ e.file \in Files /\ e.must \in BOOLEAN
         /\ e.unless \in Texts /\ e.at \in Texts /\ e.puts \in Texts /\ e.cuts \in Texts
BY DEF EditRows

Accs == [ok : BOOLEAN, disk : Disks]
Written(d, e) == [d EXCEPT ![e.file] = (@ \ e.cuts) \cup e.puts]
\* what an edit that went through did
Passed(d, d2, e) == e.unless # {} /\ e.unless \subseteq d[e.file] /\ d2 = d
Replaced(d, d2, e) == e.at \subseteq d[e.file] /\ d2 = Written(d, e)
Missed(d, d2, e) == ~(e.at \subseteq d[e.file]) /\ ~e.must /\ d2 = d

\* what a replacement leaves of the files
LEMMA WrittenTexts ==
  ASSUME NEW d \in Disks, NEW e \in EditRows
  PROVE  /\ Written(d, e) \in Disks
         /\ Written(d, e)[e.file] = (d[e.file] \ e.cuts) \cup e.puts
         /\ \A f \in Files : f # e.file => Written(d, e)[f] = d[f]
<1>1. e.file \in Files /\ e.puts \in Texts /\ e.cuts \in Texts
  BY RowFields
<1>2. \A f \in Files : d[f] \in Texts
  BY DEF Disks
<1>3. (d[e.file] \ e.cuts) \cup e.puts \in Texts
  BY <1>1, <1>2 DEF Texts
<1> QED BY <1>1, <1>3 DEF Written, Disks

\* An edit that goes through finds its mark, or its anchor, or is one that may miss it.
LEMMA ApplyDoes ==
  ASSUME NEW acc \in Accs, NEW e \in EditRows
  PROVE  /\ Apply(acc, e) \in Accs
         /\ Apply(acc, e).ok =>
              /\ acc.ok
              /\ \/ Passed(acc.disk, Apply(acc, e).disk, e)
                 \/ Replaced(acc.disk, Apply(acc, e).disk, e)
                 \/ Missed(acc.disk, Apply(acc, e).disk, e)
<1> DEFINE text == acc.disk[e.file]
           skip == ~acc.ok \/ (e.unless # {} /\ e.unless \subseteq text)
<1>0. acc.ok \in BOOLEAN /\ acc.disk \in Disks
  BY DEF Accs
<1>1. e.must \in BOOLEAN
  BY RowFields
<1>2. CASE skip
  <2>1. Apply(acc, e) = acc
    BY <1>2 DEF Apply
  <2> QED BY <2>1, <1>2, <1>0 DEF Passed
<1>3. CASE ~skip /\ e.at \subseteq text
  <2>1. Apply(acc, e) = [acc EXCEPT !.disk[e.file] = (text \ e.cuts) \cup e.puts]
    BY <1>3 DEF Apply
  <2>2. Apply(acc, e) = [acc EXCEPT !.disk = Written(acc.disk, e)]
    BY <2>1, <1>0 DEF Written, Accs, Disks
  <2>3. Apply(acc, e).ok = acc.ok /\ Apply(acc, e).disk = Written(acc.disk, e)
    BY <2>2, <1>0 DEF Accs
  <2>4. Apply(acc, e) \in Accs
    <3>1. Written(acc.disk, e) \in Disks
      BY <1>0, WrittenTexts
    <3> HIDE DEF Disks, Written
    <3> QED BY <2>2, <3>1 DEF Accs
  <2> QED BY <2>3, <2>4, <1>3 DEF Replaced
<1>4. CASE ~skip /\ ~(e.at \subseteq text)
  <2>1. Apply(acc, e) = [acc EXCEPT !.ok = ~e.must]
    BY <1>4 DEF Apply
  <2>2. Apply(acc, e).ok = ~e.must /\ Apply(acc, e).disk = acc.disk
    BY <2>1 DEF Accs
  <2>3. Apply(acc, e) \in Accs
    BY <2>1, <1>1 DEF Accs
  <2> QED BY <2>2, <2>3, <1>4 DEF Missed
<1> QED BY <1>2, <1>3, <1>4

Through(d, d2, e) == Passed(d, d2, e) \/ Replaced(d, d2, e) \/ Missed(d, d2, e)

\* What an edit does not cut, or puts again, stays.
LEMMA UncutStays ==
  ASSUME NEW d \in Disks, NEW d2, NEW x \in EditRows, Through(d, d2, x),
         NEW f \in Files, NEW K, K \subseteq d[f], x.file = f => x.cuts \cap K \subseteq x.puts
  PROVE  K \subseteq d2[f]
<1>1. CASE d2 = d
  BY <1>1
<1>2. CASE d2 = Written(d, x)
  <2>1. CASE x.file = f
    BY <1>2, <2>1, WrittenTexts
  <2>2. CASE x.file # f
    BY <1>2, <2>2, WrittenTexts
  <2> QED BY <2>1, <2>2
<1> QED BY <1>1, <1>2 DEF Through, Passed, Replaced, Missed

\* A text that was not there was put by the edit.
LEMMA PutByEdit ==
  ASSUME NEW d \in Disks, NEW d2, NEW x \in EditRows, Through(d, d2, x)
  PROVE  /\ d2 \in Disks
         /\ \A f \in Files : \A t \in d2[f] : t \in d[f] \/ (x.file = f /\ t \in x.puts)
<1>1. CASE d2 = d
  BY <1>1
<1>2. CASE d2 = Written(d, x)
  <2>1. d2 \in Disks
    BY <1>2, WrittenTexts
  <2>2. ASSUME NEW f \in Files, NEW t \in d2[f] PROVE t \in d[f] \/ (x.file = f /\ t \in x.puts)
    <3>1. CASE x.file = f
      BY <1>2, <3>1, WrittenTexts
    <3>2. CASE x.file # f
      BY <1>2, <3>2, WrittenTexts
    <3> QED BY <3>1, <3>2
  <2> QED BY <2>1, <2>2
<1> QED BY <1>1, <1>2 DEF Through, Passed, Replaced, Missed

\* A mark keeps telling what stands where it stands.
LEMMA MarkedStays ==
  ASSUME PatchesSound, NEW d \in Disks, NEW d2, NEW x \in AllEdits, x \in EditRows,
         Through(d, d2, x), Marked(d)
  PROVE  Marked(d2)
<1> SUFFICES ASSUME NEW s \in Scripts, NEW e \in EditsOf(s), e.unless # {},
                    e.unless \subseteq d2[e.file]
             PROVE  Kept(s, e) \subseteq d2[e.file]
  BY DEF Marked
<1>1. e.file \in Files
  BY EditTypes, RowFields
<1>2. e.unless \subseteq d[e.file] => Kept(s, e) \subseteq d[e.file]
  BY DEF Marked
<1>3. CASE d2 = d
  BY <1>2, <1>3
<1>4. CASE d2 = Written(d, x)
  <2>1. CASE x.file # e.file
    <3>1. d2[e.file] = d[e.file]
      BY <1>1, <1>4, <2>1, WrittenTexts
    <3> QED BY <3>1, <1>2
  <2>2. CASE x.file = e.file
    <3>1. d2[e.file] = (d[e.file] \ x.cuts) \cup x.puts
      BY <1>4, <2>2, WrittenTexts
    <3>2. /\ x.puts \cap e.unless # {} => Kept(s, e) \subseteq x.puts
          /\ ~(x.cuts \cap Kept(s, e) \subseteq x.puts) => (x.cuts \ x.puts) \cap e.unless # {}
      BY <2>2 DEF PatchesSound, MarksTell
    <3> QED BY <1>2, <3>1, <3>2
  <2> QED BY <2>1, <2>2
<1> QED BY <1>3, <1>4 DEF Through, Passed, Replaced, Missed

\* What an earlier script hands over stays handed over.
LEMMA HandedStays ==
  ASSUME PatchesSound, NEW d \in Disks, NEW d2, NEW x \in AllEdits, x \in EditRows,
         Through(d, d2, x), Handed(d)
  PROVE  Handed(d2)
<1> SUFFICES ASSUME NEW r \in Scripts, NEW s \in Scripts, NEW y \in EditsOf(r), NEW e \in EditsOf(s),
                    HandsOver(r, y, s, e), y.unless \subseteq d2[y.file]
             PROVE  e.at \subseteq d2[e.file] \/ Kept(s, e) \subseteq d2[e.file]
  BY DEF Handed
<1>1. e.file \in Files /\ y.file = e.file
  BY EditTypes, RowFields DEF HandsOver
<1>2. y.unless \subseteq d[e.file] => e.at \subseteq d[e.file] \/ Kept(s, e) \subseteq d[e.file]
  BY <1>1 DEF Handed
<1>3. CASE d2 = d
  BY <1>1, <1>2, <1>3
<1>4. CASE d2 = Written(d, x)
  <2>1. CASE x.file # e.file
    <3>1. d2[e.file] = d[e.file]
      BY <1>1, <1>4, <2>1, WrittenTexts
    <3> QED BY <3>1, <1>1, <1>2
  <2>2. CASE x.file = e.file
    <3>1. d2[e.file] = (d[e.file] \ x.cuts) \cup x.puts
      BY <1>4, <2>2, WrittenTexts
    <3>2. /\ x.puts \cap y.unless # {} => e.at \subseteq x.puts
          /\ x.cuts \cap e.at # {} => Kept(s, e) \subseteq x.puts
          /\ x.cuts \cap Kept(s, e) \subseteq x.puts
      BY <2>2 DEF HandsOver
    <3> QED BY <1>1, <1>2, <3>1, <3>2
  <2> QED BY <2>1, <2>2
<1> QED BY <1>3, <1>4 DEF Through, Passed, Replaced, Missed

(***************************************************************************)
(* The edits of a group, one stage after the other.                        *)
(***************************************************************************)
DiskAt(edits, n) == Stages(edits)[n].disk
FilesAt(edits, n) ==
  /\ DiskAt(edits, n) \in Disks /\ Marked(DiskAt(edits, n)) /\ Handed(DiskAt(edits, n))
  /\ \A f \in Files : \A t \in DiskAt(edits, n)[f] :
       t \in disk[f] \/ \E k \in DOMAIN edits : edits[k].file = f /\ t \in edits[k].puts
  /\ \A f \in Files : \A K \in SUBSET disk[f] :
       (\A k \in DOMAIN edits : edits[k].file = f => edits[k].cuts \cap K \subseteq edits[k].puts)
         => K \subseteq DiskAt(edits, n)[f]

\* the files at every stage that was reached
LEMMA StageFiles ==
  ASSUME PatchesSound, disk \in Disks, Marked(disk), Handed(disk), NEW edits,
         Len(edits) \in Nat, DOMAIN edits = 1..Len(edits),
         \A k \in DOMAIN edits : edits[k] \in EditRows /\ edits[k] \in AllEdits
  PROVE  \A n \in 0..Len(edits) :
           /\ Stages(edits)[n] \in Accs
           /\ Stages(edits)[n].ok => FilesAt(edits, n)
           /\ n # 0 /\ Stages(edits)[n].ok =>
                Stages(edits)[n - 1].ok /\ Through(DiskAt(edits, n - 1), DiskAt(edits, n), edits[n])
<1> DEFINE P(n) ==
      /\ Stages(edits)[n] \in Accs
      /\ Stages(edits)[n].ok => FilesAt(edits, n)
      /\ n # 0 /\ Stages(edits)[n].ok =>
           Stages(edits)[n - 1].ok /\ Through(DiskAt(edits, n - 1), DiskAt(edits, n), edits[n])
<1> DEFINE T == {n \in 0..Len(edits) : P(n)}
<1>1. 0 \in T
  <2>1. Stages(edits)[0] = [ok |-> TRUE, disk |-> disk]
    BY StagesRun
  <2>2. Stages(edits)[0] \in Accs /\ DiskAt(edits, 0) = disk
    BY <2>1 DEF Accs, DiskAt
  <2>3. FilesAt(edits, 0)
    BY <2>2 DEF FilesAt
  <2> HIDE DEF FilesAt, DiskAt
  <2> QED BY <2>2, <2>3
<1>2. ASSUME NEW n \in 1..Len(edits), n - 1 \in T PROVE n \in T
  <2> DEFINE old == Stages(edits)[n - 1]
             new == Stages(edits)[n]
             x == edits[n]
  <2>1. x \in EditRows /\ x \in AllEdits /\ n \in DOMAIN edits /\ n \in 0..Len(edits)
    BY <1>2
  <2>2. new = Apply(old, x)
    BY StagesRun
  <2>3. old \in Accs /\ (old.ok => FilesAt(edits, n - 1))
    BY <1>2
  <2> HIDE DEF old, new, x
  <2>4. new \in Accs /\ (new.ok => old.ok /\ Through(old.disk, new.disk, x))
    BY <2>1, <2>2, <2>3, ApplyDoes DEF Through
  <2>5. DiskAt(edits, n) = new.disk /\ DiskAt(edits, n - 1) = old.disk
    BY DEF DiskAt, old, new
  <2>6. ASSUME new.ok PROVE FilesAt(edits, n)
    <3>1. /\ Through(old.disk, new.disk, x) /\ old.disk \in Disks
          /\ Marked(old.disk) /\ Handed(old.disk)
      BY <2>3, <2>4, <2>5, <2>6 DEF FilesAt
    <3>2. new.disk \in Disks /\ Marked(new.disk) /\ Handed(new.disk)
      BY <2>1, <3>1, PutByEdit, MarkedStays, HandedStays
    <3>3. ASSUME NEW f \in Files, NEW t \in new.disk[f]
          PROVE  t \in disk[f] \/ \E k \in DOMAIN edits : edits[k].file = f /\ t \in edits[k].puts
      <4>1. t \in old.disk[f] \/ (x.file = f /\ t \in x.puts)
        BY <2>1, <3>1, PutByEdit
      <4>2. CASE t \in old.disk[f]
        BY <2>3, <2>4, <2>5, <2>6, <4>2 DEF FilesAt
      <4>3. CASE x.file = f /\ t \in x.puts
        BY <2>1, <4>3 DEF x
      <4> QED BY <4>1, <4>2, <4>3
    <3>4. ASSUME NEW f \in Files, NEW K \in SUBSET disk[f],
                 \A k \in DOMAIN edits : edits[k].file = f => edits[k].cuts \cap K \subseteq edits[k].puts
          PROVE  K \subseteq new.disk[f]
      <4>1. K \subseteq old.disk[f]
        BY <2>3, <2>4, <2>5, <2>6, <3>4 DEF FilesAt
      <4>2. x.file = f => x.cuts \cap K \subseteq x.puts
        BY <2>1, <3>4 DEF x
      <4> QED BY <2>1, <3>1, <4>1, <4>2, UncutStays
    <3> QED BY <2>5, <3>2, <3>3, <3>4 DEF FilesAt
  <2>7. P(n)
    BY <2>4, <2>5, <2>6 DEF old, new, x
  <2> HIDE DEF P
  <2> QED BY <2>1, <2>7
<1>3. \A n \in 1..Len(edits) : n - 1 \in T => n \in T
  BY <1>2
<1> HIDE DEF T
<1>4. \A n \in 0..Len(edits) : n \in T
  BY <1>1, <1>3, Upwards
<1> QED BY <1>4 DEF T

\* What each edit of a group puts for good is there at the end of it, unless a
\* script is missing without which nothing is published.
LEMMA GroupSettles ==
  ASSUME PatchesSound, disk \in Disks, Origin, Marked(disk), Handed(disk),
         ~Doomed, ChainSettled, place \in Places, Chain[place] \notin left,
         group \in DOMAIN Script[Chain[place]], NEW edits,
         edits = Script[Chain[place]][group].edits, Edited(edits).ok
  PROVE  \A k \in DOMAIN edits :
           Kept(Chain[place], edits[k]) \subseteq Edited(edits).disk[edits[k].file]
<1> DEFINE s == Chain[place]
           N == Len(edits)
           Later(k, n) == \E v \in DOMAIN edits :
             v > n /\ Verified(Kept(s, edits[k]), edits[k].file, edits[v])
           There(k, n) == Kept(s, edits[k]) \subseteq DiskAt(edits, n)[edits[k].file]
           P(n) == Stages(edits)[n].ok => \A k \in 1..n : There(k, n) \/ Later(k, n)
           T == {n \in 0..N : P(n)}
<1>1. s \in Scripts
  BY DEF PatchesSound, EachOnce
<1>2. N \in Nat /\ DOMAIN edits = 1..N
  BY <1>1, EditTypes
<1>3. \A k \in DOMAIN edits : edits[k] \in EditsOf(s) /\ edits[k] \in EditRows /\ edits[k] \in AllEdits
  BY <1>1, EditTypes
<1>4. \A n \in 0..N :
        /\ Stages(edits)[n] \in Accs
        /\ Stages(edits)[n].ok => FilesAt(edits, n)
        /\ n # 0 /\ Stages(edits)[n].ok =>
             Stages(edits)[n - 1].ok /\ Through(DiskAt(edits, n - 1), DiskAt(edits, n), edits[n])
  BY <1>2, <1>3, StageFiles
<1>5. s \in From(s)
  BY DEF From, Places
\* no edit of s cuts what s puts for good
<1>6. \A j, k \in DOMAIN edits : edits[j].file = edits[k].file => edits[j].cuts \cap Kept(s, edits[k]) = {}
  <2> SUFFICES ASSUME NEW j \in DOMAIN edits, NEW k \in DOMAIN edits, edits[j].file = edits[k].file
               PROVE  edits[j].cuts \cap Kept(s, edits[k]) = {}
    OBVIOUS
  <2> DEFINE x == edits[j]
             f == edits[k].file
  <2>1. x \in EditsOf(s) /\ x.file = f
    BY <1>3
  <2> HIDE DEF x, f, s
  <2>2. x.cuts \subseteq ReplacedAfter(s, f)
    BY <1>5, <2>1 DEF ReplacedAfter
  <2> QED BY <2>2 DEF Kept, x, f
\* nor what an earlier script does
<1>7. \A r \in Scripts : s \in From(r) => \A y \in EditsOf(r) : \A k \in DOMAIN edits :
        edits[k].file = y.file => edits[k].cuts \cap Kept(r, y) = {}
  BY <1>3 DEF Kept, ReplacedAfter
<1>8. 0 \in T
  BY <1>2
<1>9. ASSUME NEW n \in 1..N, P(n - 1), Stages(edits)[n].ok, NEW k \in 1..n
      PROVE  There(k, n) \/ Later(k, n)
  <2> DEFINE x == edits[n]
             old == DiskAt(edits, n - 1)
             new == DiskAt(edits, n)
             e == edits[k]
  <2>0. /\ n \in DOMAIN edits /\ k \in DOMAIN edits /\ n \in 0..N /\ n - 1 \in 0..N
        /\ n # 0 /\ n \in Nat /\ k \in Nat
    BY <1>2
  <2>1. /\ x \in EditRows /\ e \in EditRows /\ e.file \in Files
        /\ x \in EditsOf(s) /\ e \in EditsOf(s) /\ x \in AllEdits
    BY <1>3, <2>0, RowFields
  <2>2. /\ Stages(edits)[n - 1].ok /\ Through(old, new, x)
        /\ FilesAt(edits, n - 1) /\ FilesAt(edits, n)
    BY <1>4, <1>9, <2>0
  <2>3. old \in Disks /\ new \in Disks /\ Marked(old) /\ Handed(old)
    BY <2>2 DEF FilesAt
  <2>4. x.file = e.file => x.cuts \cap Kept(s, e) = {}
    BY <1>6, <2>0
  <2>5. There(k, n - 1) => There(k, n)
    <3> DEFINE K == Kept(s, e)
    <3>1. x.file = e.file => x.cuts \cap K \subseteq x.puts
      BY <2>4
    <3>2. K \subseteq old[e.file] => K \subseteq new[e.file]
      <4> HIDE DEF K, x, e, old, new
      <4> QED BY <2>1, <2>2, <2>3, <3>1, UncutStays
    <3> QED BY <3>2
  <2>6. CASE k # n
    <3>1. k \in 1..(n - 1)
      BY <2>0, <2>6
    <3>2. There(k, n - 1) \/ Later(k, n - 1)
      BY <1>9, <2>2, <3>1
    <3>3. ASSUME Later(k, n - 1), ~Later(k, n) PROVE There(k, n)
      <4>1. Verified(Kept(s, e), e.file, x)
        <5>1. PICK v \in DOMAIN edits : v > n - 1 /\ Verified(Kept(s, e), e.file, edits[v])
          BY <3>3
        <5>2. v \in 1..N /\ ~(v > n)
          BY <3>3, <5>1, <1>2
        <5>3. v = n
          BY <2>0, <5>1, <5>2
        <5> QED BY <5>1, <5>3
      <4>2. PICK t \in x.at : Never(e.file, t)
        BY <4>1 DEF Verified
      <4>3. x.file = e.file /\ x.must /\ Kept(s, e) \subseteq x.unless
        BY <4>1 DEF Verified
      <4>4. t \notin old[e.file]
        <5> SUFFICES ASSUME t \in old[e.file] PROVE FALSE
          OBVIOUS
        <5>1. t \in disk[e.file] \/ \E j \in DOMAIN edits : edits[j].file = e.file /\ t \in edits[j].puts
          <6>1. \A f \in Files : \A u \in old[f] :
                  u \in disk[f] \/ \E j \in DOMAIN edits : edits[j].file = f /\ u \in edits[j].puts
            BY <2>2 DEF FilesAt
          <6> HIDE DEF old, e
          <6> QED BY <2>1, <6>1
        <5>2. t \notin Base[e.file] /\ \A y \in AllEdits : y.file = e.file => t \notin y.puts
          BY <4>2 DEF Never
        <5>3. \A r \in Scripts : EditsOf(r) \subseteq AllEdits
          BY EditTypes
        <5>4. t \notin disk[e.file]
          BY <2>1, <5>2, <5>3 DEF Origin, Putters, PutsFor
        <5> QED BY <1>3, <5>1, <5>2, <5>4
      <4>5. x.unless \subseteq old[e.file] /\ new = old
        BY <2>2, <4>3, <4>4, <4>2 DEF Through, Passed, Replaced, Missed
      <4> QED BY <4>3, <4>5
    <3> QED BY <2>5, <3>2, <3>3
  <2>7. CASE k = n
    <3>0. e = x
      BY <2>7
    <3>1. CASE Passed(old, new, x)
      BY <1>1, <2>1, <2>3, <3>0, <3>1 DEF Passed, Marked
    <3>2. CASE Replaced(old, new, x)
      <4>1. new[e.file] = (old[e.file] \ x.cuts) \cup x.puts
        <5>1. new = Written(old, x)
          BY <3>2 DEF Replaced
        <5>2. Written(old, x)[x.file] = (old[x.file] \ x.cuts) \cup x.puts
          <6> HIDE DEF old, x
          <6> QED BY <2>1, <2>3, WrittenTexts
        <5> QED BY <5>1, <5>2, <3>0
      <4>2. Kept(s, e) \subseteq x.puts
        BY <3>0 DEF Kept
      <4> QED BY <4>1, <4>2
    <3>3. CASE Missed(old, new, x)
      <4>1. ~(e.at \subseteq old[e.file]) /\ ~e.must /\ new = old
        BY <3>0, <3>3 DEF Missed
      <4>2. Sure(s, group, k)
        BY <1>1, <2>0 DEF PatchesSound
      <4>3. \/ Kept(s, e) = {} \/ Later(k, n)
            \/ \E r \in Scripts : \E y \in EditsOf(r) : HandsOver(r, y, s, e)
        BY <4>1, <4>2, <2>7 DEF Sure
      <4>4. ASSUME NEW r \in Scripts, NEW y \in EditsOf(r), HandsOver(r, y, s, e)
            PROVE  There(k, n)
        <5>1. /\ y.file = e.file /\ r # s /\ s \in From(r) /\ Vital(r)
              /\ y.unless \subseteq Kept(r, y)
          BY <4>4 DEF HandsOver
        <5>2. r \notin left
          BY <5>1 DEF Doomed
        <5>3. PICK i \in Places : i < place /\ Chain[i] = r
          <6>1. PICK p \in Places : Chain[p] = s /\ \E i \in 1..p : Chain[i] = r
            BY <5>1 DEF From
          <6>2. p = place
            BY <6>1 DEF PatchesSound, EachOnce
          <6>3. PICK i \in 1..place : Chain[i] = r
            BY <6>1, <6>2
          <6>4. Len(Chain) \in Nat
            BY DEF Chain
          <6>5. i \in Places /\ i # place /\ i <= place
            BY <6>3, <6>4, <5>1 DEF Places
          <6>6. i \in Int /\ place \in Int
            BY <6>4, <6>5 DEF Places
          <6> QED BY <6>3, <6>5, <6>6
        <5>4. Kept(r, y) \subseteq disk[e.file]
          BY <5>1, <5>2, <5>3 DEF ChainSettled, Settled
        <5>5. Kept(r, y) \subseteq old[e.file]
          <6>1. \A j \in DOMAIN edits : edits[j].file = e.file => edits[j].cuts \cap Kept(r, y) = {}
            BY <1>7, <5>1
          <6>2. \A f \in Files : \A K \in SUBSET disk[f] :
                  (\A j \in DOMAIN edits : edits[j].file = f => edits[j].cuts \cap K \subseteq edits[j].puts)
                    => K \subseteq old[f]
            BY <2>2 DEF FilesAt
          <6> HIDE DEF e, old
          <6> QED BY <2>1, <5>4, <6>1, <6>2
        <5>6. Kept(s, e) \subseteq old[e.file]
          <6>1. y.unless \subseteq old[y.file]
            BY <5>1, <5>5
          <6> QED BY <1>1, <2>1, <2>3, <4>1, <4>4, <6>1 DEF Handed
        <5> QED BY <4>1, <5>6
      <4> QED BY <4>3, <4>4
    <3> QED BY <2>2, <3>1, <3>2, <3>3 DEF Through
  <2> QED BY <2>6, <2>7
<1>10. \A n \in 1..N : n - 1 \in T => n \in T
  <2> SUFFICES ASSUME NEW n \in 1..N, n - 1 \in T PROVE n \in T
    OBVIOUS
  <2>1. n \in 0..N
    BY <1>2
  <2>2. P(n - 1) => P(n)
    BY <1>9
  <2> HIDE DEF P
  <2> QED BY <2>1, <2>2
<1> HIDE DEF T
<1>11. \A n \in 0..N : n \in T
  BY <1>2, <1>8, <1>10, Upwards
<1>12. P(N)
  <2>1. N \in 0..N
    BY <1>2
  <2> HIDE DEF P
  <2> QED BY <1>11, <2>1 DEF T
<1>13. Edited(edits) = Stages(edits)[N] /\ Edited(edits).disk = DiskAt(edits, N)
  BY DEF Edited, DiskAt
<1>14. ASSUME NEW k \in 1..N PROVE There(k, N)
  <2>1. ~Later(k, N)
    <3>1. \A v \in 1..N : ~(v > N)
      BY <1>2
    <3> QED BY <1>2, <3>1
  <2>2. Stages(edits)[N].ok
    BY <1>13
  <2> HIDE DEF There, Later
  <2> QED BY <1>12, <2>1, <2>2
<1> QED BY <1>2, <1>13, <1>14

(***************************************************************************)
(* The invariant, action by action.                                        *)
(***************************************************************************)
\* the places of the chain as numbers
LEMMA ChainPlaces ==
  /\ Len(Chain) \in Nat /\ Places \subseteq Nat
  /\ \A i : i \in Places <=> i \in 1..Len(Chain)
<1>1. Len(Chain) \in Nat
  BY DEF Chain
<1> QED BY <1>1 DEF Places

\* On the files as copied no mark is there yet.
LEMMA Started == ASSUME PatchesSound, Init PROVE IInv
<1>1. disk = Base /\ place = 1 /\ group = 1 /\ status = "building"
  BY DEF Init
<1>2. Base \in Disks
  BY DEF PatchesSound, PatchTypes, Disks
<1>3. TypesHold
  BY <1>1, <1>2, ChainPlaces DEF TypesHold
<1>4. Origin
  BY <1>1 DEF Origin
<1>5. Marked(disk)
  BY <1>1 DEF Marked, PatchesSound, MarksTell
<1>6. Handed(disk)
  BY <1>1 DEF Handed, HandsOver
<1>7. ChainSettled /\ GroupsSettled
  <2>1. \A i \in Places : ~(i < place)
    BY <1>1, ChainPlaces
  <2>2. \A s \in Scripts : \A h \in DOMAIN Script[s] : ~(h < group)
    <3>1. \A s \in Scripts : Script[s] \in Seq(PatchGroups)
      BY DEF PatchesSound, PatchTypes
    <3> QED BY <1>1, <3>1
  <2>3. \A i \in Places : Chain[i] \in Scripts
    BY DEF PatchesSound, EachOnce
  <2> QED BY <2>1, <2>2, <2>3 DEF ChainSettled, GroupsSettled
<1>8. StopsSettled
  BY <1>1 DEF StopsSettled, PatchesSound, StopsTell
<1> QED BY <1>1, <1>3, <1>4, <1>5, <1>6, <1>7, <1>8 DEF IInv

\* The other steps change no file and no set: what is settled stays settled.
LEMMA FilesStay ==
  ASSUME IInv, UNCHANGED <<disk, left>>
  PROVE  /\ Origin' /\ Marked(disk)' /\ Handed(disk)' /\ (Doomed' <=> Doomed)
         /\ \A i \in Places : Settled(i)' <=> Settled(i)
<1>1. Origin'
  BY DEF IInv, Origin, Putters
<1>2. Marked(disk)'
  BY DEF IInv, Marked
<1>3. Handed(disk)'
  BY DEF IInv, Handed
<1>4. Doomed' <=> Doomed
  BY DEF Doomed
<1>5. \A i \in Places : Settled(i)' <=> Settled(i)
  BY DEF Settled
<1> QED BY <1>1, <1>2, <1>3, <1>4, <1>5

\* A group is saved: it is one of a script of this chain, and its edits went through.
LEMMA GroupRuns ==
  ASSUME PatchesSound, IInv, GroupSaves,
         NEW s, s = Chain[place], NEW edits, edits = Script[s][group].edits
  PROVE  /\ status = "building" /\ place \in Places /\ s \notin left
         /\ s \in Scripts /\ group \in DOMAIN Script[s]
         /\ Edited(edits).ok /\ disk' = Edited(edits).disk /\ group' = group + 1
         /\ place' = place /\ left' = left /\ status' = status
         /\ Len(edits) \in Nat /\ DOMAIN edits = 1..Len(edits)
         /\ \A k \in DOMAIN edits : edits[k] \in EditsOf(s) /\ edits[k] \in EditRows /\ edits[k] \in AllEdits
<1>0. TypesHold
  BY DEF IInv
<1>1. /\ status = "building" /\ place \in Places /\ s \notin left
      /\ s \in Scripts /\ group \in DOMAIN Script[s] /\ NextGroup = Script[s][group]
  <2>1. status = "building" /\ place <= Len(Chain) /\ group <= Len(Groups(place))
    BY DEF GroupSaves, Running
  <2>2. place \in Places
    BY <1>0, <2>1, ChainPlaces DEF TypesHold
  <2>3. s \notin left
    <3> SUFFICES ASSUME s \in left PROVE FALSE
      OBVIOUS
    <3>1. Groups(place) = <<>>
      BY DEF Groups
    <3>2. group \in Nat /\ group >= 1 /\ group <= 0
      BY <3>1, <2>1, <1>0 DEF TypesHold
    <3> QED BY <3>2
  <2>4. s \in Scripts
    BY <2>2 DEF PatchesSound, EachOnce
  <2>5. Groups(place) = Script[s]
    BY <2>3 DEF Groups
  <2>6. Script[s] \in Seq(PatchGroups)
    BY <2>4 DEF PatchesSound, PatchTypes
  <2>7. group \in DOMAIN Script[s]
    BY <2>1, <2>5, <2>6, <1>0 DEF TypesHold
  <2> QED BY <2>1, <2>2, <2>3, <2>4, <2>5, <2>7 DEF NextGroup
<1>2. /\ Edited(edits).ok /\ disk' = Edited(edits).disk /\ group' = group + 1
      /\ place' = place /\ left' = left /\ status' = status
  BY <1>1 DEF GroupSaves
<1>3. /\ Len(edits) \in Nat /\ DOMAIN edits = 1..Len(edits)
      /\ \A k \in DOMAIN edits : edits[k] \in EditsOf(s) /\ edits[k] \in EditRows /\ edits[k] \in AllEdits
  BY <1>1, EditTypes
<1> QED BY <1>1, <1>2, <1>3

\* What the group put for good is there, and it cut nothing that was there for good.
LEMMA GroupIsSaved ==
  ASSUME PatchesSound, IInv, GroupSaves
  PROVE  IInv'
<1> DEFINE s == Chain[place]
           edits == Script[s][group].edits
           d == Edited(edits).disk
<1>0. TypesHold /\ Origin /\ Marked(disk) /\ Handed(disk)
  BY DEF IInv
<1>1. /\ status = "building" /\ place \in Places /\ s \notin left
      /\ s \in Scripts /\ group \in DOMAIN Script[s]
  BY GroupRuns
<1>2. /\ Edited(edits).ok /\ disk' = d /\ group' = group + 1
      /\ place' = place /\ left' = left /\ status' = status
  BY GroupRuns
<1>3. /\ Len(edits) \in Nat /\ DOMAIN edits = 1..Len(edits)
      /\ \A k \in DOMAIN edits : edits[k] \in EditsOf(s) /\ edits[k] \in EditRows /\ edits[k] \in AllEdits
  BY GroupRuns
<1>4. FilesAt(edits, Len(edits)) /\ d = DiskAt(edits, Len(edits))
  <2>1. Len(edits) \in 0..Len(edits) /\ disk \in Disks
    BY <1>3, <1>0 DEF TypesHold
  <2>2. d = DiskAt(edits, Len(edits)) /\ Edited(edits) = Stages(edits)[Len(edits)]
    BY DEF Edited, DiskAt
  <2> HIDE DEF edits
  <2> QED BY <1>0, <1>2, <1>3, <2>1, <2>2, StageFiles
<1> HIDE DEF d
<1>5. /\ d \in Disks /\ Marked(d) /\ Handed(d)
      /\ \A f \in Files : \A t \in d[f] :
           t \in disk[f] \/ \E k \in DOMAIN edits : edits[k].file = f /\ t \in edits[k].puts
      /\ \A f \in Files : \A K \in SUBSET disk[f] :
           (\A k \in DOMAIN edits : edits[k].file = f => edits[k].cuts \cap K \subseteq edits[k].puts)
             => K \subseteq d[f]
  BY <1>4 DEF FilesAt
<1>6. TypesHold'
  BY <1>0, <1>1, <1>2, <1>5 DEF TypesHold
<1>7. Origin'
  <2> SUFFICES ASSUME NEW f \in Files, NEW t \in d[f]
               PROVE  t \in Base[f] \/ \E r \in Putters : PutsFor(r, f, t)
    BY <1>2 DEF Origin, Putters
  <2>1. CASE t \in disk[f]
    BY <2>1, <1>0 DEF Origin
  <2>2. CASE t \notin disk[f]
    <3>1. PICK k \in DOMAIN edits : edits[k].file = f /\ t \in edits[k].puts
      BY <1>5, <2>2
    <3>2. s \in Putters /\ PutsFor(s, f, t)
      BY <1>1, <1>3, <3>1 DEF Putters, PutsFor
    <3> QED BY <3>2
  <2> QED BY <2>1, <2>2
<1>8. Marked(disk)' /\ Handed(disk)'
  BY <1>2, <1>5 DEF Marked, Handed
<1>9. ASSUME ~Doomed' PROVE ChainSettled' /\ GroupsSettled' /\ StopsSettled'
  <2>0. ~Doomed
    BY <1>2, <1>9 DEF Doomed
  <2>1. ChainSettled /\ GroupsSettled /\ StopsSettled
    BY <2>0 DEF IInv
  <2>2. \A k \in DOMAIN edits : Kept(s, edits[k]) \subseteq d[edits[k].file]
    <3>1. disk \in Disks
      BY <1>0 DEF TypesHold
    <3> HIDE DEF edits
    <3>2. edits = Script[Chain[place]][group].edits
      BY DEF edits
    <3> QED BY <1>0, <1>1, <1>2, <2>0, <2>1, <3>1, <3>2, GroupSettles DEF d
  \* an edit of s cuts nothing that s or a script before it puts for good
  <2>3. ASSUME NEW i \in Places, i <= place, NEW e \in EditsOf(Chain[i]),
               Kept(Chain[i], e) \subseteq disk[e.file]
        PROVE  Kept(Chain[i], e) \subseteq d[e.file]
    <3>1. s \in From(Chain[i])
      <4>1. i \in 1..place
        BY <2>3, <1>1, ChainPlaces
      <4> QED BY <4>1, <1>1 DEF From
    <3>2. \A k \in DOMAIN edits : edits[k].file = e.file => edits[k].cuts \cap Kept(Chain[i], e) = {}
      BY <1>3, <3>1 DEF Kept, ReplacedAfter
    <3>3. e.file \in Files
      <4>1. Chain[i] \in Scripts
        BY DEF PatchesSound, EachOnce
      <4> QED BY <4>1, EditTypes, RowFields
    <3> HIDE DEF edits
    <3> QED BY <1>5, <2>3, <3>2, <3>3
  <2>4. \A i \in Places : i <= place /\ Settled(i) => Settled(i)'
    BY <1>2, <2>3 DEF Settled
  <2>5. ChainSettled'
    <3>1. \A i \in Places : i < place => i <= place
      BY <1>1, ChainPlaces
    <3> QED BY <1>2, <2>1, <2>4, <3>1 DEF ChainSettled
  <2>6. GroupsSettled'
    <3> SUFFICES ASSUME NEW h \in DOMAIN Script[s], h < group + 1, NEW k \in DOMAIN Script[s][h].edits
                 PROVE  Kept(s, Script[s][h].edits[k]) \subseteq d[Script[s][h].edits[k].file]
      BY <1>2 DEF GroupsSettled
    <3>1. h \in Nat /\ group \in Nat
      <4>1. Script[s] \in Seq(PatchGroups)
        BY <1>1 DEF PatchesSound, PatchTypes
      <4> QED BY <4>1, <1>0 DEF TypesHold
    <3>2. CASE h = group
      BY <3>2, <2>2
    <3>3. CASE h < group
      <4>1. Kept(s, Script[s][h].edits[k]) \subseteq disk[Script[s][h].edits[k].file]
        BY <1>1, <2>1, <3>3 DEF GroupsSettled
      <4>2. Script[s][h].edits[k] \in EditsOf(s) /\ place <= place
        BY <1>1, EditTypes, ChainPlaces
      <4> QED BY <1>1, <2>3, <4>1, <4>2
    <3> QED BY <3>1, <3>2, <3>3
  <2>7. StopsSettled'
    <3> SUFFICES ASSUME NEW i \in Places, NEW g \in DOMAIN Script[Chain[i]],
                        NEW m \in Script[Chain[i]][g].stop, m \in d["engine"], ~Underway(i, g)',
                        NEW j \in i..(ProcessEnd(i) - 1)
                 PROVE  Settled(j)'
      <4>1. ASSUME NEW i \in Places, NEW g \in DOMAIN Script[Chain[i]], NEW m \in Script[Chain[i]][g].stop,
                   m \in disk'["engine"], ~Underway(i, g)', NEW j \in i..(ProcessEnd(i) - 1)
            PROVE  Settled(j)'
        BY <1>2, <4>1
      <4> QED BY <4>1 DEF StopsSettled
    <3>0. g \in Nat /\ group \in Nat /\ i \in Nat /\ place \in Nat /\ ProcessEnd(i) \in Nat
      <4>1. Chain[i] \in Scripts
        BY DEF PatchesSound, EachOnce
      <4>2. Script[Chain[i]] \in Seq(PatchGroups)
        BY <4>1 DEF PatchesSound, PatchTypes
      <4>3. place \in Nat /\ group \in Nat
        BY <1>0, ChainPlaces DEF TypesHold
      <4>4. i \in Nat /\ ProcessEnd(i) \in Nat
        BY ChainPlaces, ProcessEnds
      <4>5. g \in Nat
        BY <4>2, <1>1
      <4> QED BY <4>3, <4>4, <4>5
    <3>1. j \in Places
      BY <3>0, ProcessEnds, ChainPlaces
    <3>2. \A x \in AllEdits : \A e \in EditsOf(Chain[j]) :
            x.file = e.file => x.cuts \cap Kept(Chain[j], e) \subseteq x.puts
      BY DEF PatchesSound, StopsTell
    <3>3. m \in disk["engine"]
      <4> SUFFICES ASSUME m \notin disk["engine"] PROVE FALSE
        OBVIOUS
      <4>0. "engine" \in Files
        BY DEF Files, Base
      <4>1. PICK k \in DOMAIN edits : edits[k].file = "engine" /\ m \in edits[k].puts
        BY <1>5, <4>0
      <4>2. s = Chain[i] /\ group = g
        BY <1>1, <4>1 DEF PatchesSound, StopsTell
      <4>3. place = i
        BY <1>1, <4>2 DEF PatchesSound, EachOnce
      <4>4. i < ProcessEnd(i)
        BY <3>0, ProcessEnds
      <4>5. Underway(i, g)'
        BY <1>2, <3>0, <4>2, <4>3, <4>4 DEF Underway
      <4> QED BY <4>5
    <3>4. ~Underway(i, g)
      BY <1>2, <3>0 DEF Underway
    <3>5. Settled(j)
      BY <2>1, <3>3, <3>4 DEF StopsSettled
    <3>6. Chain[j] \in Scripts
      BY <3>1 DEF PatchesSound, EachOnce
    <3>7. ASSUME NEW e \in EditsOf(Chain[j]), Kept(Chain[j], e) \subseteq disk[e.file]
          PROVE  Kept(Chain[j], e) \subseteq d[e.file]
      <4>1. e.file \in Files
        BY <3>6, EditTypes, RowFields
      <4>2. \A k \in DOMAIN edits : edits[k].file = e.file =>
              edits[k].cuts \cap Kept(Chain[j], e) \subseteq edits[k].puts
        BY <1>3, <3>2
      <4> HIDE DEF edits
      <4> QED BY <1>5, <3>7, <4>1, <4>2
    <3> QED BY <1>2, <3>5, <3>7 DEF Settled
  <2> QED BY <2>5, <2>6, <2>7
<1> QED BY <1>1, <1>2, <1>6, <1>7, <1>8, <1>9 DEF IInv

\* the first group has none before it
LEMMA NoneBefore ==
  ASSUME PatchesSound
  PROVE  \A i \in Places : \A h \in DOMAIN Script[Chain[i]] : h \in Nat /\ h >= 1 /\ ~(h < 1)
<1>1. \A i \in Places : Script[Chain[i]] \in Seq(PatchGroups)
  BY DEF PatchesSound, PatchTypes, EachOnce
<1>2. \A x \in Seq(PatchGroups) : DOMAIN x \subseteq Nat \ {0}
  OBVIOUS
<1> QED BY <1>1, <1>2

\* the places of one process
LEMMA ProcessPlaces ==
  ASSUME NEW i \in Places
  PROVE  /\ i \in Nat /\ ProcessEnd(i) \in Nat /\ i < ProcessEnd(i)
         /\ \A j \in i..(ProcessEnd(i) - 1) :
              j \in Places /\ j \in Nat /\ i <= j /\ j < ProcessEnd(i)
<1>1. i \in Nat /\ i \in 1..Len(Chain) /\ Len(Chain) \in Nat
  BY ChainPlaces
<1>2. ProcessEnd(i) \in (i + 1)..(Len(Chain) + 1)
  BY ProcessEnds
<1>3. ASSUME NEW j \in i..(ProcessEnd(i) - 1)
      PROVE  j \in 1..Len(Chain) /\ j \in Nat /\ i <= j /\ j < ProcessEnd(i)
  BY <1>1, <1>2
<1> QED BY <1>1, <1>2, <1>3, ChainPlaces

\* The chain goes on at p: the process it leaves with that is done.
LEMMA LeavesProcess ==
  ASSUME PatchesSound, IInv, StopsSettled, UNCHANGED <<disk, left>>,
         place \in Places, place < place', place' <= ProcessEnd(place), place' \in Nat,
         group' = 1, \A i \in Places : i < place' => Settled(i)
  PROVE  StopsSettled'
<1>1. ASSUME NEW i \in Places, NEW g \in DOMAIN Script[Chain[i]], NEW m \in Script[Chain[i]][g].stop,
             m \in disk'["engine"], ~Underway(i, g)', NEW j \in i..(ProcessEnd(i) - 1)
      PROVE  Settled(j)'
  <2>0. /\ i \in Nat /\ place \in Nat /\ ProcessEnd(i) \in Nat /\ j \in Nat /\ j \in Places
        /\ i < ProcessEnd(i) /\ i <= j /\ j < ProcessEnd(i) /\ g \in Nat /\ g >= 1
    BY ChainPlaces, ProcessPlaces, NoneBefore
  <2>1. CASE ~Underway(i, g)
    BY <1>1, <2>0, <2>1, FilesStay DEF StopsSettled
  <2>2. CASE Underway(i, g)
    <3>1. i <= place /\ place < ProcessEnd(i)
      BY <2>2 DEF Underway
    <3>2. ProcessEnd(place) = ProcessEnd(i)
      <4>1. place \in i..(ProcessEnd(i) - 1)
        BY <2>0, <3>1
      <4> QED BY <4>1, ProcessEnds
    <3>3. place' = ProcessEnd(i)
      <4>1. ~(i <= place' /\ place' < ProcessEnd(i) /\ (place' = i => g < 1))
        BY <1>1 DEF Underway
      <4> QED BY <4>1, <2>0, <3>1, <3>2
    <3>4. Settled(j)
      BY <2>0, <3>3
    <3> QED BY <2>0, <3>4, FilesStay
  <2> QED BY <2>1, <2>2
<1> QED BY <1>1 DEF StopsSettled

\* A script is over: all its groups are saved, or it is taken out.
LEMMA StepEnds ==
  ASSUME PatchesSound, IInv, ScriptEnds
  PROVE  IInv'
<1>1. /\ status = "building" /\ status' = status /\ place' = place + 1 /\ group' = 1
      /\ UNCHANGED <<disk, left>> /\ place \in Places
  <2>1. place <= Len(Chain) /\ place \in 1..(Len(Chain) + 1)
    BY DEF ScriptEnds, IInv, TypesHold
  <2> QED BY <2>1, ChainPlaces DEF ScriptEnds
<1>2. TypesHold'
  BY <1>1, ChainPlaces DEF IInv, TypesHold
<1>3. /\ Origin' /\ Marked(disk)' /\ Handed(disk)' /\ (Doomed' <=> Doomed)
      /\ \A i \in Places : Settled(i)' <=> Settled(i)
  BY <1>1, FilesStay
<1>4. ASSUME ~Doomed' PROVE ChainSettled' /\ GroupsSettled' /\ StopsSettled'
  <2>1. ChainSettled /\ GroupsSettled /\ StopsSettled
    BY <1>3, <1>4 DEF IInv
  <2>2. Settled(place)
    <3> SUFFICES ASSUME Chain[place] \notin left, NEW e \in EditsOf(Chain[place])
                 PROVE  Kept(Chain[place], e) \subseteq disk[e.file]
      BY DEF Settled
    <3>1. PICK h \in DOMAIN Script[Chain[place]] :
            \E k \in DOMAIN Script[Chain[place]][h].edits : e = Script[Chain[place]][h].edits[k]
      BY DEF EditsOf
    <3>2. h < group
      <4>1. Chain[place] \in Scripts
        BY <1>1 DEF PatchesSound, EachOnce
      <4>2. Script[Chain[place]] \in Seq(PatchGroups)
        BY <4>1 DEF PatchesSound, PatchTypes
      <4>3. group > Len(Script[Chain[place]])
        BY DEF ScriptEnds, Groups
      <4>4. h \in 1..Len(Script[Chain[place]]) /\ Len(Script[Chain[place]]) \in Nat
        BY <4>2
      <4>5. group \in Nat
        BY DEF IInv, TypesHold
      <4> QED BY <4>3, <4>4, <4>5
    <3> QED BY <1>1, <2>1, <3>1, <3>2 DEF GroupsSettled
  <2>3. \A i \in Places : i < place + 1 => Settled(i)
    <3> SUFFICES ASSUME NEW i \in Places, i < place + 1 PROVE Settled(i)
      OBVIOUS
    <3>1. i = place \/ i < place
      BY <1>1, ChainPlaces
    <3> QED BY <2>1, <2>2, <3>1 DEF ChainSettled
  <2>4. ChainSettled'
    BY <1>1, <1>3, <2>3 DEF ChainSettled
  <2>5. GroupsSettled'
    BY <1>1, NoneBefore DEF GroupsSettled
  <2>6. StopsSettled'
    <3>1. place \in Nat /\ ProcessEnd(place) \in Nat /\ place < ProcessEnd(place)
      BY <1>1, ProcessPlaces
    <3>2. place < place' /\ place' <= ProcessEnd(place) /\ place' \in Nat
      BY <1>1, <3>1
    <3>3. \A i \in Places : i < place' => Settled(i)
      BY <1>1, <2>3
    <3> QED BY <1>1, <2>1, <3>2, <3>3, LeavesProcess
  <2> QED BY <2>4, <2>5, <2>6
<1> QED BY <1>1, <1>2, <1>3, <1>4 DEF IInv

\* A process that stops early leaves nothing out: its mark tells.
LEMMA StepStops ==
  ASSUME PatchesSound, IInv, ProcessStops
  PROVE  IInv'
<1>0. /\ status = "building" /\ status' = status /\ place' = ProcessEnd(place) /\ group' = 1
      /\ UNCHANGED <<disk, left>> /\ place \in Places /\ Chain[place] \notin left
      /\ group \in Nat /\ group >= 1
  <2>1. place <= Len(Chain) /\ group <= Len(Groups(place)) /\ status = "building"
    BY DEF ProcessStops, Running
  <2>2. place \in Places /\ group \in Nat /\ group >= 1
    BY <2>1, ChainPlaces DEF IInv, TypesHold
  <2>3. Chain[place] \notin left
    <3> SUFFICES ASSUME Chain[place] \in left PROVE FALSE
      OBVIOUS
    <3>1. Groups(place) = <<>>
      BY DEF Groups
    <3> QED BY <3>1, <2>1, <2>2
  <2> QED BY <2>1, <2>2, <2>3 DEF ProcessStops
<1>1. group \in DOMAIN Script[Chain[place]] /\ NextGroup = Script[Chain[place]][group]
  <2>1. Groups(place) = Script[Chain[place]]
    BY <1>0 DEF Groups
  <2>2. Script[Chain[place]] \in Seq(PatchGroups)
    BY <1>0 DEF PatchesSound, PatchTypes, EachOnce
  <2>3. group <= Len(Script[Chain[place]])
    BY <2>1 DEF ProcessStops, Running
  <2> QED BY <1>0, <2>1, <2>2, <2>3 DEF NextGroup
<1>2. /\ ProcessEnd(place) \in (place + 1)..(Len(Chain) + 1)
      /\ place \in Nat /\ ProcessEnd(place) \in Nat /\ place < ProcessEnd(place)
  <2>1. place \in Nat /\ Len(Chain) \in Nat
    BY <1>0, ChainPlaces
  <2>2. ProcessEnd(place) \in (place + 1)..(Len(Chain) + 1)
    BY <1>0, ProcessEnds
  <2> QED BY <2>1, <2>2
<1>3. TypesHold'
  <2>1. place' \in 1..(Len(Chain) + 1)
    BY <1>0, <1>2, ChainPlaces
  <2> QED BY <1>0, <2>1 DEF IInv, TypesHold
<1>4. /\ Origin' /\ Marked(disk)' /\ Handed(disk)' /\ (Doomed' <=> Doomed)
      /\ \A i \in Places : Settled(i)' <=> Settled(i)
  BY <1>0, FilesStay
<1>5. ASSUME ~Doomed' PROVE ChainSettled' /\ GroupsSettled' /\ StopsSettled'
  <2>1. ChainSettled /\ GroupsSettled /\ StopsSettled
    BY <1>4, <1>5 DEF IInv
  <2>2. \A i \in Places : i < ProcessEnd(place) => Settled(i)
    <3> SUFFICES ASSUME NEW i \in Places, i < ProcessEnd(place) PROVE Settled(i)
      OBVIOUS
    <3>1. CASE i < place
      BY <2>1, <3>1 DEF ChainSettled
    <3>2. CASE ~(i < place)
      <4>1. i \in place..(ProcessEnd(place) - 1)
        BY <1>2, <3>2, ChainPlaces
      <4>2. PICK m \in Script[Chain[place]][group].stop : m \in disk["engine"]
        BY <1>1 DEF ProcessStops, AlreadyApplied
      <4>3. ~Underway(place, group)
        BY <1>0 DEF Underway
      <4> QED BY <1>0, <1>1, <2>1, <4>1, <4>2, <4>3 DEF StopsSettled
    <3> QED BY <3>1, <3>2
  <2>3. ChainSettled'
    BY <1>0, <1>4, <2>2 DEF ChainSettled
  <2>4. GroupsSettled'
    BY <1>0, NoneBefore DEF GroupsSettled
  <2>5. StopsSettled'
    BY <1>0, <1>2, <2>1, <2>2, LeavesProcess
  <2> QED BY <2>3, <2>4, <2>5
<1> QED BY <1>0, <1>3, <1>4, <1>5 DEF IInv

\* The tree is built again from the first script.
LEMMA StepCommits ==
  ASSUME PatchesSound, IInv, Commit
  PROVE  IInv'
<1>0. /\ status' = "building" /\ place' = 1 /\ group' = 1 /\ group = 1
      /\ UNCHANGED <<disk, left>> /\ Opens(place) /\ place > 1
  BY DEF Commit
<1>1. TypesHold'
  BY <1>0, ChainPlaces DEF IInv, TypesHold
<1>2. /\ Origin' /\ Marked(disk)' /\ Handed(disk)' /\ (Doomed' <=> Doomed)
      /\ \A i \in Places : Settled(i)' <=> Settled(i)
  BY <1>0, FilesStay
<1>3. ASSUME ~Doomed' PROVE ChainSettled' /\ GroupsSettled' /\ StopsSettled'
  <2>1. StopsSettled
    BY <1>2, <1>3 DEF IInv
  <2>2. ChainSettled'
    <3>1. \A i \in Places : ~(i < 1)
      BY ChainPlaces
    <3> QED BY <1>0, <3>1 DEF ChainSettled
  <2>3. GroupsSettled'
    BY <1>0, NoneBefore DEF GroupsSettled
  <2>4. ASSUME NEW i \in Places, NEW g \in DOMAIN Script[Chain[i]], NEW m \in Script[Chain[i]][g].stop,
               m \in disk'["engine"], NEW j \in i..(ProcessEnd(i) - 1)
        PROVE  Settled(j)'
    <3>0. /\ i \in Nat /\ place \in Nat /\ ProcessEnd(i) \in Nat /\ j \in Places
          /\ g \in Nat /\ g >= 1
      <4>1. place \in Nat
        BY ChainPlaces DEF IInv, TypesHold
      <4> QED BY <4>1, ProcessPlaces, NoneBefore
    \* no process is underway at the start of one
    <3>1. ~Underway(i, g)
      <4> SUFFICES ASSUME i <= place, place < ProcessEnd(i), place = i => g < 1 PROVE FALSE
        BY <1>0 DEF Underway
      <4>1. place \in (i + 1)..(ProcessEnd(i) - 1)
        BY <3>0
      <4> QED BY <1>0, <4>1, ProcessEnds
    <3>2. Settled(j)
      BY <1>0, <2>1, <2>4, <3>1 DEF StopsSettled
    <3> QED BY <1>2, <3>0, <3>2
  <2>5. StopsSettled'
    BY <2>4 DEF StopsSettled
  <2> QED BY <2>2, <2>3, <2>5
<1> QED BY <1>0, <1>1, <1>2, <1>3 DEF IInv

\* Nothing but the status changes.
LEMMA StepElse ==
  ASSUME PatchesSound, IInv, UNCHANGED <<disk, left, place, group>>,
         status' \in {status, "failed"} \/ ImageEnds
  PROVE  IInv'
<1>1. /\ Origin' /\ Marked(disk)' /\ Handed(disk)' /\ (Doomed' <=> Doomed)
      /\ \A i \in Places : Settled(i)' <=> Settled(i)
  BY FilesStay
<1>2. status' \in {status, "failed", "published"}
  BY DEF ImageEnds
<1>3. TypesHold'
  BY <1>2 DEF IInv, TypesHold
<1>4. ChainSettled' <=> ChainSettled
  BY <1>1 DEF ChainSettled
<1>5. GroupsSettled' <=> GroupsSettled
  BY DEF GroupsSettled
<1>6. \A i, g : Underway(i, g)' <=> Underway(i, g)
  BY DEF Underway
<1>7. StopsSettled => StopsSettled'
  <2> SUFFICES ASSUME StopsSettled,
                      NEW i \in Places, NEW g \in DOMAIN Script[Chain[i]], NEW m \in Script[Chain[i]][g].stop,
                      m \in disk["engine"], ~Underway(i, g), NEW j \in i..(ProcessEnd(i) - 1)
               PROVE  Settled(j)'
    BY <1>6 DEF StopsSettled
  <2>1. j \in Places
    BY ProcessEnds, ChainPlaces
  <2> QED BY <1>1, <2>1 DEF StopsSettled
<1>8. ASSUME status' = "published" PROVE ~Doomed /\ place > Len(Chain)
  <2>1. CASE status = "published"
    BY <2>1 DEF IInv
  <2>2. CASE status # "published"
    <3>1. ImageEnds /\ \A f \in DOMAIN Asserted : Asserted[f] \subseteq disk[f]
      BY <1>8, <2>2 DEF ImageEnds
    <3>2. \A f \in DOMAIN Asserted : f \in Files
      BY DEF Asserted, Files, Base
    <3>3. ASSUME NEW r \in left, NEW f \in DOMAIN Asserted, NEW t \in Asserted[f], OnlyFrom(r, f, t)
          PROVE  FALSE
      <4>1. t \in disk[f]
        BY <3>1
      <4>2. PICK q \in Putters : PutsFor(q, f, t)
        BY <3>2, <3>3, <4>1 DEF IInv, Origin, OnlyFrom
      <4>3. q \in Scripts \ {r}
        BY DEF Putters
      <4> QED BY <3>3, <4>2, <4>3 DEF OnlyFrom, PutsFor
    <3>4. ~Doomed
      BY <3>3 DEF Doomed, Vital
    <3> QED BY <3>1, <3>4 DEF ImageEnds
  <2> QED BY <2>1, <2>2
<1> QED BY <1>1, <1>3, <1>4, <1>5, <1>7, <1>8 DEF IInv

\* Whatever is taken out of the chain and however often the tree is built again,
\* the files tell at every moment what the scripts so far put for good.
THEOREM BuildInvariantHolds == PatchesSound => (Spec => []IInv)
<1> SUFFICES ASSUME PatchesSound PROVE Spec => []IInv
  OBVIOUS
<1>1. Init => IInv
  BY Started
<1>2. IInv /\ [Next]_vars => IInv'
  <2> SUFFICES ASSUME IInv, [Next]_vars PROVE IInv'
    OBVIOUS
  <2>1. CASE ProcessStops
    BY <2>1, StepStops
  <2>2. CASE GroupSaves
    BY <2>2, GroupIsSaved
  <2>3. CASE ScriptAborts
    <3>1. UNCHANGED <<disk, left, place, group>> /\ status' = "failed"
      BY <2>3 DEF ScriptAborts
    <3> QED BY <3>1, StepElse
  <2>4. CASE ScriptEnds
    BY <2>4, StepEnds
  <2>5. CASE ImageEnds
    <3>1. UNCHANGED <<disk, left, place, group>>
      BY <2>5 DEF ImageEnds
    <3> QED BY <3>1, <2>5, StepElse
  <2>6. CASE Commit
    BY <2>6, StepCommits
  <2>7. CASE UNCHANGED vars
    <3>1. UNCHANGED <<disk, left, place, group>> /\ status' = status
      BY <2>7 DEF vars
    <3> QED BY <3>1, StepElse
  <2> QED BY <2>1, <2>2, <2>3, <2>4, <2>5, <2>6, <2>7 DEF Next
<1> QED BY <1>1, <1>2, PTL DEF Spec

\* At the end of the chain every script is one of those so far.
LEMMA PublishedSettles ==
  ASSUME PatchesSound, IInv
  PROVE  PublishedIsWhole
<1> SUFFICES ASSUME status = "published", NEW s \in Scripts \ left, NEW e \in EditsOf(s)
             PROVE  Kept(s, e) \subseteq disk[e.file]
  BY DEF PublishedIsWhole
<1>1. PICK i \in Places : Chain[i] = s
  BY DEF PatchesSound, EachOnce
<1>2. i < place
  BY ChainPlaces DEF IInv, TypesHold
<1> QED BY <1>1, <1>2 DEF IInv, ChainSettled, Settled

\* An image is published only when the edits of all its scripts are in it, whichever
\* scripts the chain lacks and whatever tree it ran over: the anchor checks, the
\* checks that follow the silent replacements and the assertions at the end of
\* the RUN line leave no edit that was passed over in silence.
THEOREM PublishedWhole == PatchesSound => (Spec => []PublishedIsWhole)
<1> SUFFICES ASSUME PatchesSound PROVE Spec => []PublishedIsWhole
  OBVIOUS
<1>1. IInv => PublishedIsWhole
  BY PublishedSettles
<1> QED BY <1>1, BuildInvariantHolds, PTL

\* The engine sends 40 USDT exactly when the relay lets 40 through and the sizing
\* was written for 40: the three edits of growth_mode are in the image or none is.
THEOREM CeilingsTogether == PatchesSound /\ CeilingsOfOne => (Spec => []CeilingsAgree)
<1> SUFFICES ASSUME PatchesSound, CeilingsOfOne PROVE Spec => []CeilingsAgree
  OBVIOUS
<1> DEFINE Pairs == {<<"engine", "stake-40">>, <<"proxy", "cap-40">>, <<"sizing", "priority-allocator">>}
<1>1. ASSUME IInv, status = "published", NEW c \in Pairs
      PROVE  c[2] \in disk[c[1]] <=> "growth_mode" \in Putters
  <2>1. OnlyFrom("growth_mode", c[1], c[2])
    BY DEF CeilingsOfOne
  <2>2. PICK e \in EditsOf("growth_mode") : e.file = c[1] /\ c[2] \in Kept("growth_mode", e)
    BY DEF CeilingsOfOne
  <2>3. c[1] \in Files
    <3>1. c[1] \in {"engine", "proxy", "sizing"}
      <4>1. CASE c = <<"engine", "stake-40">>
        BY <4>1
      <4>2. CASE c = <<"proxy", "cap-40">>
        BY <4>2
      <4>3. CASE c = <<"sizing", "priority-allocator">>
        BY <4>3
      <4> QED BY <4>1, <4>2, <4>3
    <3>2. {"engine", "proxy", "sizing"} \subseteq Files
      BY DEF Files, Base
    <3> HIDE DEF Pairs
    <3> QED BY <3>1, <3>2
  <2>4. ASSUME "growth_mode" \in Putters PROVE c[2] \in disk[c[1]]
    <3>1. Kept("growth_mode", e) \subseteq disk[e.file]
      BY <1>1, <2>4, PublishedSettles DEF PublishedIsWhole, Putters
    <3> QED BY <2>2, <3>1
  <2>5. ASSUME c[2] \in disk[c[1]] PROVE "growth_mode" \in Putters
    <3>1. PICK q \in Putters : PutsFor(q, c[1], c[2])
      BY <1>1, <2>1, <2>3, <2>5 DEF IInv, Origin, OnlyFrom
    <3>2. q = "growth_mode"
      BY <2>1, <3>1 DEF OnlyFrom, PutsFor, Putters
    <3> QED BY <3>2
  <2> QED BY <2>4, <2>5
<1>2. IInv => CeilingsAgree
  <2> SUFFICES ASSUME IInv, status = "published"
               PROVE  /\ "stake-40" \in disk.engine <=> "cap-40" \in disk.proxy
                      /\ "stake-40" \in disk.engine <=> "priority-allocator" \in disk.sizing
    BY DEF CeilingsAgree
  <2>1. "stake-40" \in disk["engine"] <=> "growth_mode" \in Putters
    <3>1. <<"engine", "stake-40">> \in Pairs
      OBVIOUS
    <3> QED BY <1>1, <3>1
  <2>2. "cap-40" \in disk["proxy"] <=> "growth_mode" \in Putters
    <3>1. <<"proxy", "cap-40">> \in Pairs
      OBVIOUS
    <3> QED BY <1>1, <3>1
  <2>3. "priority-allocator" \in disk["sizing"] <=> "growth_mode" \in Putters
    <3>1. <<"sizing", "priority-allocator">> \in Pairs
      OBVIOUS
    <3> QED BY <1>1, <3>1
  <2> QED BY <2>1, <2>2, <2>3
<1> QED BY <1>2, BuildInvariantHolds, PTL

(***************************************************************************)
(* The thin stake that live_opportunity puts stays, although growth_mode   *)
(* would cut it: growth_mode's first group looks for a target that only    *)
(* momentum_ignition puts, that script goes through only with the ignition *)
(* banner, and no banner is left once adaptive_watch ran, without which    *)
(* live_opportunity does not find its anchor.                              *)
(***************************************************************************)
Banners == {"PRE_MOMENTUM-banner", "IGNITION-banner"}
Targets == {"target-1.4%", "target-1.5%"}
BannersGone == Banners \cap disk["engine"] = {}
ThinInv ==
  /\ "momentum_ignition" \in left => Targets \cap disk["engine"] = {}
  /\ "momentum_ignition" \notin left /\ (place \in {6, 7} \/ (place = 5 /\ group >= 2)) =>
       "IGNITION-banner" \in disk["engine"]
  /\ "adaptive_watch" \notin left /\ (place > 14 \/ (place = 14 /\ group >= 2)) => BannersGone
  /\ "live_opportunity" \notin left /\ place = 38 /\ group >= 2 => "adaptive_watch" \notin left
  /\ "thin-stake-7" \in disk["engine"] => BannersGone

\* The stages of a group that went through.
LEMMA StagesThrough ==
  ASSUME PatchesSound, disk \in Disks, Marked(disk), Handed(disk), NEW edits,
         Len(edits) \in Nat, DOMAIN edits = 1..Len(edits),
         \A k \in DOMAIN edits : edits[k] \in EditRows /\ edits[k] \in AllEdits, Edited(edits).ok
  PROVE  /\ DiskAt(edits, 0) = disk /\ DiskAt(edits, Len(edits)) = Edited(edits).disk
         /\ \A n \in 0..Len(edits) : DiskAt(edits, n) \in Disks /\ FilesAt(edits, n)
         /\ \A k \in DOMAIN edits : Through(DiskAt(edits, k - 1), DiskAt(edits, k), edits[k])
<1> DEFINE N == Len(edits)
           T == {n \in 0..N : Stages(edits)[N - n].ok}
<1>1. \A n \in 0..N :
        /\ Stages(edits)[n].ok => FilesAt(edits, n)
        /\ n # 0 /\ Stages(edits)[n].ok =>
             Stages(edits)[n - 1].ok /\ Through(DiskAt(edits, n - 1), DiskAt(edits, n), edits[n])
  BY StageFiles
<1>2. Stages(edits)[N].ok /\ DiskAt(edits, N) = Edited(edits).disk
  BY DEF Edited, DiskAt
<1>3. DiskAt(edits, 0) = disk
  BY StagesRun DEF DiskAt
<1>4. 0 \in T
  BY <1>2
<1>5. \A n \in 1..N : n - 1 \in T => n \in T
  <2> SUFFICES ASSUME NEW n \in 1..N, Stages(edits)[N - (n - 1)].ok PROVE Stages(edits)[N - n].ok
    OBVIOUS
  <2>1. N - (n - 1) \in 0..N /\ N - (n - 1) # 0 /\ (N - (n - 1)) - 1 = N - n
    OBVIOUS
  <2> QED BY <1>1, <2>1
<1> HIDE DEF T
<1>6. \A n \in 0..N : n \in T
  BY <1>4, <1>5, Upwards
<1>7. ASSUME NEW n \in 0..N PROVE Stages(edits)[n].ok
  <2>1. N - n \in 0..N /\ N - (N - n) = n
    OBVIOUS
  <2> QED BY <1>6, <2>1 DEF T
<1>8. \A n \in 0..N : FilesAt(edits, n) /\ DiskAt(edits, n) \in Disks
  BY <1>1, <1>7 DEF FilesAt
<1>9. \A k \in DOMAIN edits : Through(DiskAt(edits, k - 1), DiskAt(edits, k), edits[k])
  BY <1>1, <1>7
<1> QED BY <1>2, <1>3, <1>8, <1>9

\* What no edit of a group ends, its stages keep.
LEMMA StagesWithin ==
  ASSUME NEW edits, Len(edits) \in Nat, DOMAIN edits = 1..Len(edits), NEW S, DiskAt(edits, 0) \in S,
         \A k \in DOMAIN edits : DiskAt(edits, k - 1) \in S => DiskAt(edits, k) \in S
  PROVE  \A n \in 0..Len(edits) : DiskAt(edits, n) \in S
<1> DEFINE T == {n \in 0..Len(edits) : DiskAt(edits, n) \in S}
<1>1. 0 \in T /\ \A n \in 1..Len(edits) : n - 1 \in T => n \in T
  OBVIOUS
<1> HIDE DEF T
<1>2. \A n \in 0..Len(edits) : n \in T
  BY <1>1, Upwards
<1> QED BY <1>2 DEF T

\* An edit changes its own file only, from the texts that are there.
LEMMA EditOf ==
  ASSUME NEW d \in Disks, NEW d2, NEW x \in EditRows, Through(d, d2, x), NEW f \in Files
  PROVE  /\ d2 \in Disks
         /\ d2[f] # d[f] => x.file = f /\ x.at \subseteq d[f] /\ d2[f] = (d[f] \ x.cuts) \cup x.puts
         /\ x.file = f /\ x.at \subseteq d[f] /\ x.unless = {} => d2[f] = (d[f] \ x.cuts) \cup x.puts
         /\ x.file = f /\ x.must => (x.unless # {} /\ x.unless \subseteq d[f]) \/ x.at \subseteq d[f]
<1>1. CASE Passed(d, d2, x)
  BY <1>1 DEF Passed
<1>2. CASE Replaced(d, d2, x)
  <2>1. d2 = Written(d, x) /\ x.at \subseteq d[x.file]
    BY <1>2 DEF Replaced
  <2>2. /\ Written(d, x) \in Disks
        /\ Written(d, x)[x.file] = (d[x.file] \ x.cuts) \cup x.puts
        /\ \A g \in Files : g # x.file => Written(d, x)[g] = d[g]
    BY WrittenTexts
  <2> QED BY <2>1, <2>2
<1>3. CASE Missed(d, d2, x)
  BY <1>3 DEF Missed
<1> QED BY <1>1, <1>2, <1>3 DEF Through

\* Once both banners are gone no edit puts one.
LEMMA BannersStayGone ==
  ASSUME PatchesSound, ThinStakeIsLate, NEW d \in Disks, NEW d2, NEW x \in AllEdits, x \in EditRows,
         Through(d, d2, x), Banners \cap d["engine"] = {}
  PROVE  Banners \cap d2["engine"] = {}
<1>0. "engine" \in Files
  BY DEF Files, Base
<1>1. CASE d2["engine"] = d["engine"]
  BY <1>1
<1>2. CASE d2["engine"] # d["engine"]
  <2>1. /\ x.file = "engine" /\ x.at \subseteq d["engine"]
        /\ d2["engine"] = (d["engine"] \ x.cuts) \cup x.puts
    BY <1>0, <1>2, EditOf
  <2>2. "PRE_MOMENTUM-banner" \notin x.puts
    BY <2>1 DEF ThinStakeIsLate
  <2>3. "IGNITION-banner" \in x.puts => "PRE_MOMENTUM-banner" \in x.at
    BY <2>1 DEF ThinStakeIsLate, Needs
  <2> QED BY <2>1, <2>2, <2>3 DEF Banners
<1> QED BY <1>1, <1>2

\* The groups and places of the scripts the thin stake is about.
LEMMA ScriptsOfThinStake ==
  /\ Chain[5] = "momentum_ignition" /\ Chain[6] = "controlled_breakout"
  /\ Chain[7] = "growth_mode" /\ Chain[14] = "adaptive_watch" /\ Chain[38] = "live_opportunity"
  /\ Len(Chain) = 39
  /\ Script["momentum_ignition"] = momentum_ignition /\ Script["adaptive_watch"] = adaptive_watch
  /\ Script["growth_mode"] = growth_mode /\ Script["live_opportunity"] = live_opportunity
  /\ {"momentum_ignition", "controlled_breakout", "growth_mode", "adaptive_watch",
      "live_opportunity"} \subseteq Scripts
<1>1. /\ Chain[5] = "momentum_ignition" /\ Chain[6] = "controlled_breakout"
      /\ Chain[7] = "growth_mode" /\ Chain[14] = "adaptive_watch" /\ Chain[38] = "live_opportunity"
      /\ Len(Chain) = 39
  BY DEF Chain
<1>2. /\ Script["momentum_ignition"] = momentum_ignition /\ Script["adaptive_watch"] = adaptive_watch
      /\ Script["growth_mode"] = growth_mode /\ Script["live_opportunity"] = live_opportunity
  BY DEF Script
<1>3. {"momentum_ignition", "controlled_breakout", "growth_mode", "adaptive_watch",
       "live_opportunity"} \subseteq Scripts
  BY DEF Scripts, Script
<1> QED BY <1>1, <1>2, <1>3

\* The edits the thin stake is about: momentum_ignition looks for its banner last,
LEMMA IgnitionData ==
  /\ DOMAIN momentum_ignition = {1} /\ Len(momentum_ignition[1].edits) = 3
  /\ LET e == momentum_ignition[1].edits[3]
     IN  e.file = "engine" /\ e.must /\ e.unless = {"IGNITION-banner"} /\ e.at = {"never"}
<1>1. DOMAIN momentum_ignition = {1}
  BY DEF momentum_ignition
<1>2. Len(momentum_ignition[1].edits) = 3
  BY DEF momentum_ignition, Group
<1>3. momentum_ignition[1].edits[3] = Verify("engine", {"IGNITION-banner"})
  BY DEF momentum_ignition, Group
<1>4. LET e == Verify("engine", {"IGNITION-banner"})
      IN  e.file = "engine" /\ e.must /\ e.unless = {"IGNITION-banner"} /\ e.at = {"never"}
  BY DEF Verify, Edit
<1> QED BY <1>1, <1>2, <1>3, <1>4

\* adaptive_watch replaces both banners,
LEMMA WatchData ==
  /\ DOMAIN adaptive_watch = {1} /\ Len(adaptive_watch[1].edits) = 3
  /\ LET e == adaptive_watch[1].edits[2]
     IN  /\ e.file = "engine" /\ e.unless = {} /\ e.at = {"PRE_MOMENTUM-banner"}
         /\ e.puts = {"WATCH-banner"} /\ e.cuts = {"PRE_MOMENTUM-banner"}
  /\ LET e == adaptive_watch[1].edits[3]
     IN  /\ e.file = "engine" /\ e.unless = {} /\ e.at = {"IGNITION-banner"}
         /\ e.puts = {"WATCH-banner"} /\ e.cuts = {"IGNITION-banner"}
<1>1. DOMAIN adaptive_watch = {1}
  BY DEF adaptive_watch
<1>2. Len(adaptive_watch[1].edits) = 3
  BY DEF adaptive_watch, Group
<1>3. adaptive_watch[1].edits[2]
        = Silent("engine", {"PRE_MOMENTUM-banner"}, {"WATCH-banner"}, {"PRE_MOMENTUM-banner"})
  BY DEF adaptive_watch, Group
<1>4. adaptive_watch[1].edits[3]
        = Silent("engine", {"IGNITION-banner"}, {"WATCH-banner"}, {"IGNITION-banner"})
  BY DEF adaptive_watch, Group
<1>5. \A t : LET e == Silent("engine", {t}, {"WATCH-banner"}, {t})
             IN  /\ e.file = "engine" /\ e.unless = {} /\ e.at = {t}
                 /\ e.puts = {"WATCH-banner"} /\ e.cuts = {t}
  BY DEF Silent, Edit
<1> QED BY <1>1, <1>2, <1>3, <1>4, <1>5

\* growth_mode looks for a target first,
LEMMA GrowthData ==
  /\ Len(growth_mode[1].edits) = 3
  /\ LET e == growth_mode[1].edits[1]
     IN  e.file = "engine" /\ e.must /\ e.unless = {"target-1.5%"} /\ e.at = {"target-1.4%"}
<1>1. Len(growth_mode[1].edits) = 3
  BY DEF growth_mode, EngineOfGrowth, Group
<1>2. growth_mode[1].edits[1] = Insert("engine", "target-1.5%", {"target-1.4%"}, {}, {"target-1.4%"})
  BY DEF growth_mode, EngineOfGrowth, Group
<1>3. LET e == Insert("engine", "target-1.5%", {"target-1.4%"}, {}, {"target-1.4%"})
      IN  e.file = "engine" /\ e.must /\ e.unless = {"target-1.5%"} /\ e.at = {"target-1.4%"}
  BY DEF Insert, Edit
<1> QED BY <1>1, <1>2, <1>3

\* and live_opportunity for the watch.
LEMMA OpportunityData ==
  /\ Len(live_opportunity[1].edits) = 1
  /\ LET e == live_opportunity[1].edits[1]
     IN  e.file = "engine" /\ e.must /\ e.unless = {} /\ "watch-price" \in e.at
<1>1. Len(live_opportunity[1].edits) = 1
  BY DEF live_opportunity, EngineOfOpportunity, Group
<1>2. live_opportunity[1].edits[1]
        = Always("engine", {"direct-confirmation", "watch-price"}, {"confirmation-by-promotion"}, {})
  BY DEF live_opportunity, EngineOfOpportunity, Group
<1>3. LET e == Always("engine", {"direct-confirmation", "watch-price"}, {"confirmation-by-promotion"}, {})
      IN  e.file = "engine" /\ e.must /\ e.unless = {} /\ "watch-price" \in e.at
  BY DEF Always, Edit
<1> QED BY <1>1, <1>2, <1>3

\* A text of no tree: the files as copied do not hold it, and who would put it is left out.
LEMMA NeverThere ==
  ASSUME PatchesSound, IInv, NEW edits, NEW n, FilesAt(edits, n), NEW f \in Files, NEW t, Never(f, t),
         \A k \in DOMAIN edits : edits[k] \in AllEdits
  PROVE  t \notin DiskAt(edits, n)[f]
<1> SUFFICES ASSUME t \in DiskAt(edits, n)[f] PROVE FALSE
  OBVIOUS
<1>1. t \notin Base[f] /\ \A x \in AllEdits : x.file = f => t \notin x.puts
  BY DEF Never
<1>2. t \in disk[f] \/ \E k \in DOMAIN edits : edits[k].file = f /\ t \in edits[k].puts
  BY DEF FilesAt
<1>3. t \in disk[f]
  BY <1>1, <1>2
<1>4. PICK s \in Putters : PutsFor(s, f, t)
  BY <1>1, <1>3 DEF IInv, Origin
<1>5. EditsOf(s) \subseteq AllEdits
  BY EditTypes DEF Putters
<1> QED BY <1>1, <1>4, <1>5 DEF PutsFor

\* Nor does a tree hold what only a script that is left out puts.
LEMMA LeftOutNeverThere ==
  ASSUME IInv, NEW s \in left, NEW f \in Files, NEW t, OnlyFrom(s, f, t)
  PROVE  t \notin disk[f]
<1> SUFFICES ASSUME t \in disk[f] PROVE FALSE
  OBVIOUS
<1>1. PICK q \in Putters : PutsFor(q, f, t)
  BY DEF IInv, Origin, OnlyFrom
<1>2. q \in Scripts \ {s}
  BY DEF Putters
<1> QED BY <1>1, <1>2 DEF OnlyFrom, PutsFor

\* What a saved group went through.
LEMMA SavedStages ==
  ASSUME PatchesSound, IInv, GroupSaves, NEW edits, edits = Script[Chain[place]][group].edits
  PROVE  /\ DiskAt(edits, 0) = disk /\ DiskAt(edits, Len(edits)) = disk'
         /\ \A n \in 0..Len(edits) : DiskAt(edits, n) \in Disks /\ FilesAt(edits, n)
         /\ \A k \in DOMAIN edits : Through(DiskAt(edits, k - 1), DiskAt(edits, k), edits[k])
<1>1. /\ Edited(edits).ok /\ disk' = Edited(edits).disk
      /\ Len(edits) \in Nat /\ DOMAIN edits = 1..Len(edits)
      /\ \A k \in DOMAIN edits : edits[k] \in EditRows /\ edits[k] \in AllEdits
  BY GroupRuns
<1>2. disk \in Disks /\ Marked(disk) /\ Handed(disk)
  BY DEF IInv, TypesHold
<1> QED BY <1>1, <1>2, StagesThrough

\* A saved group puts no banner back.
LEMMA SavedBanners ==
  ASSUME PatchesSound, ThinStakeIsLate, IInv, GroupSaves, BannersGone
  PROVE  BannersGone'
<1> DEFINE edits == Script[Chain[place]][group].edits
           S == {d \in Disks : Banners \cap d["engine"] = {}}
<1>1. /\ DiskAt(edits, 0) = disk /\ DiskAt(edits, Len(edits)) = disk'
      /\ \A n \in 0..Len(edits) : DiskAt(edits, n) \in Disks
      /\ \A k \in DOMAIN edits : Through(DiskAt(edits, k - 1), DiskAt(edits, k), edits[k])
  BY SavedStages
<1>2. /\ Len(edits) \in Nat /\ DOMAIN edits = 1..Len(edits)
      /\ \A k \in DOMAIN edits : edits[k] \in EditRows /\ edits[k] \in AllEdits
  BY GroupRuns
<1> HIDE DEF edits
<1>3. DiskAt(edits, 0) \in S
  BY <1>1, <1>2 DEF BannersGone
<1>4. ASSUME NEW k \in DOMAIN edits, DiskAt(edits, k - 1) \in S PROVE DiskAt(edits, k) \in S
  <2>1. k \in 0..Len(edits)
    BY <1>2
  <2>2. Banners \cap DiskAt(edits, k)["engine"] = {}
    BY <1>1, <1>2, <1>4, BannersStayGone
  <2> QED BY <1>1, <2>1, <2>2
<1> HIDE DEF S
<1>5. \A n \in 0..Len(edits) : DiskAt(edits, n) \in S
  BY <1>2, <1>3, <1>4, StagesWithin
<1>6. Len(edits) \in 0..Len(edits)
  BY <1>2
<1> QED BY <1>1, <1>5, <1>6 DEF S, BannersGone

\* momentum_ignition goes through with the ignition banner only
LEMMA IgnitionIsVerified ==
  ASSUME PatchesSound, ThinStakeIsLate, IInv, GroupSaves, place = 5
  PROVE  "IGNITION-banner" \in disk'["engine"]
<1> DEFINE edits == Script[Chain[place]][group].edits
<1>1. Script[Chain[place]] = momentum_ignition /\ group \in DOMAIN momentum_ignition
  BY ScriptsOfThinStake, GroupRuns
<1>2. group = 1
  BY <1>1, IgnitionData
<1>3. edits = momentum_ignition[1].edits
  BY <1>1, <1>2
<1>4. /\ Len(edits) = 3
      /\ edits[3].file = "engine" /\ edits[3].must /\ edits[3].unless = {"IGNITION-banner"}
      /\ edits[3].at = {"never"}
  BY <1>3, IgnitionData
<1> HIDE DEF edits
<1>5. /\ DiskAt(edits, 3) = disk' /\ DiskAt(edits, 2) \in Disks /\ FilesAt(edits, 2)
      /\ Through(DiskAt(edits, 2), DiskAt(edits, 3), edits[3])
      /\ \A k \in DOMAIN edits : edits[k] \in AllEdits /\ edits[k] \in EditRows
      /\ 3 \in DOMAIN edits
  <2>1. DOMAIN edits = 1..Len(edits) /\ \A k \in DOMAIN edits : edits[k] \in AllEdits /\ edits[k] \in EditRows
    BY GroupRuns DEF edits
  <2>2. 3 \in DOMAIN edits /\ 2 \in 0..Len(edits) /\ 3 - 1 = 2
    BY <1>4, <2>1
  <2> QED BY <1>4, <2>1, <2>2, SavedStages DEF edits
<1>6. "engine" \in Files
  BY DEF Files, Base
<1>7. "never" \notin DiskAt(edits, 2)["engine"]
  BY <1>5, <1>6, NeverThere DEF ThinStakeIsLate
<1> DEFINE d2 == DiskAt(edits, 2)
           x3 == edits[3]
<1> HIDE DEF d2, x3
<1>8. /\ x3.must => (x3.unless # {} /\ x3.unless \subseteq d2["engine"]) \/ x3.at \subseteq d2["engine"]
      /\ disk'["engine"] # d2["engine"] => x3.at \subseteq d2["engine"]
  BY <1>4, <1>5, <1>6, EditOf DEF d2, x3
<1> QED BY <1>4, <1>7, <1>8 DEF d2, x3

\* adaptive_watch takes both banners out
LEMMA WatchTakesBanners ==
  ASSUME PatchesSound, ThinStakeIsLate, IInv, GroupSaves, place = 14
  PROVE  BannersGone'
<1> DEFINE edits == Script[Chain[place]][group].edits
<1>1. Script[Chain[place]] = adaptive_watch /\ group \in DOMAIN adaptive_watch
  BY ScriptsOfThinStake, GroupRuns
<1>2. group = 1
  BY <1>1, WatchData
<1>3. edits = adaptive_watch[1].edits
  BY <1>1, <1>2
<1>4. Len(edits) = 3
  BY <1>3, WatchData
<1> HIDE DEF edits
<1>5. /\ DiskAt(edits, 3) = disk' /\ DiskAt(edits, 1) \in Disks /\ DiskAt(edits, 2) \in Disks
      /\ Through(DiskAt(edits, 1), DiskAt(edits, 2), edits[2])
      /\ Through(DiskAt(edits, 2), DiskAt(edits, 3), edits[3])
      /\ edits[2] \in EditRows /\ edits[3] \in EditRows
  <2>1. DOMAIN edits = 1..Len(edits) /\ \A k \in DOMAIN edits : edits[k] \in EditRows
    BY GroupRuns DEF edits
  <2>2. /\ 2 \in DOMAIN edits /\ 3 \in DOMAIN edits /\ 1 \in 0..Len(edits) /\ 2 \in 0..Len(edits)
        /\ 3 - 1 = 2 /\ 2 - 1 = 1
    BY <1>4, <2>1
  <2> QED BY <1>4, <2>1, <2>2, SavedStages DEF edits
<1>6. "engine" \in Files
  BY DEF Files, Base
<1>7. /\ edits[2].file = "engine" /\ edits[2].unless = {} /\ edits[2].at = {"PRE_MOMENTUM-banner"}
      /\ edits[2].puts = {"WATCH-banner"} /\ edits[2].cuts = {"PRE_MOMENTUM-banner"}
      /\ edits[3].file = "engine" /\ edits[3].unless = {} /\ edits[3].at = {"IGNITION-banner"}
      /\ edits[3].puts = {"WATCH-banner"} /\ edits[3].cuts = {"IGNITION-banner"}
  BY <1>3, WatchData DEF edits
<1> DEFINE d1 == DiskAt(edits, 1)
           d2 == DiskAt(edits, 2)
           d3 == DiskAt(edits, 3)
           x2 == edits[2]
           x3 == edits[3]
<1> HIDE DEF d1, d2, d3, x2, x3
<1>8. "PRE_MOMENTUM-banner" \notin d2["engine"]
  <2>1. /\ d2["engine"] # d1["engine"] => d2["engine"] = (d1["engine"] \ x2.cuts) \cup x2.puts
        /\ x2.at \subseteq d1["engine"] => d2["engine"] = (d1["engine"] \ x2.cuts) \cup x2.puts
    BY <1>5, <1>6, <1>7, EditOf DEF d1, d2, x2
  <2> QED BY <1>7, <2>1 DEF x2
<1>9. Banners \cap d3["engine"] = {}
  <2>1. /\ d3["engine"] # d2["engine"] => d3["engine"] = (d2["engine"] \ x3.cuts) \cup x3.puts
        /\ x3.at \subseteq d2["engine"] => d3["engine"] = (d2["engine"] \ x3.cuts) \cup x3.puts
    BY <1>5, <1>6, <1>7, EditOf DEF d2, d3, x3
  <2> QED BY <1>7, <1>8, <2>1 DEF x3, Banners
<1> QED BY <1>5, <1>9 DEF d3, BannersGone

\* the first edit of growth_mode looks for a target, that of live_opportunity for the watch
LEMMA FirstEditFinds ==
  ASSUME PatchesSound, IInv, GroupSaves, group = 1
  PROVE  /\ place = 7 => Targets \cap disk["engine"] # {}
         /\ place = 38 => "watch-price" \in disk["engine"]
<1> DEFINE edits == Script[Chain[place]][group].edits
           x == edits[1]
<1>1. ASSUME Len(edits) >= 1, x.file = "engine", x.must
      PROVE  (x.unless # {} /\ x.unless \subseteq disk["engine"]) \/ x.at \subseteq disk["engine"]
  <2>1. /\ Len(edits) \in Nat /\ DOMAIN edits = 1..Len(edits)
        /\ \A k \in DOMAIN edits : edits[k] \in EditRows
    BY GroupRuns
  <2> HIDE DEF edits
  <2>2. 1 \in DOMAIN edits /\ 1 - 1 = 0 /\ 0 \in 0..Len(edits)
    BY <1>1, <2>1
  <2>3. /\ DiskAt(edits, 0) = disk /\ DiskAt(edits, 0) \in Disks
        /\ Through(DiskAt(edits, 0), DiskAt(edits, 1), x)
    BY <2>2, SavedStages DEF edits
  <2>4. "engine" \in Files
    BY DEF Files, Base
  <2> QED BY <1>1, <2>1, <2>2, <2>3, <2>4, EditOf
<1>2. CASE place = 7
  <2>1. edits = growth_mode[1].edits
    BY <1>2, ScriptsOfThinStake
  <2>2. /\ Len(edits) >= 1 /\ x.file = "engine" /\ x.must
        /\ x.unless = {"target-1.5%"} /\ x.at = {"target-1.4%"}
    BY <2>1, GrowthData
  <2> HIDE DEF edits, x
  <2> QED BY <1>1, <1>2, <2>2 DEF Targets
<1>3. CASE place = 38
  <2>1. edits = live_opportunity[1].edits
    BY <1>3, ScriptsOfThinStake
  <2>2. /\ Len(edits) >= 1 /\ x.file = "engine" /\ x.must
        /\ x.unless = {} /\ "watch-price" \in x.at
    BY <2>1, OpportunityData
  <2> HIDE DEF edits, x
  <2> QED BY <1>1, <1>3, <2>2
<1> QED BY <1>2, <1>3

\* A process that stops early is not one of the scripts the thin stake is about.
LEMMA EarlyProcess ==
  ASSUME PatchesSound, ThinStakeIsLate, IInv, ProcessStops
  PROVE  place \notin {5, 6, 14} /\ (place < 15 => place' = place + 1)
<1>1. place \in Places /\ NextGroup.stop # {} /\ place' = ProcessEnd(place)
  <2>1. place <= Len(Chain)
    BY DEF ProcessStops, Running
  <2>2. place \in Places
    BY <2>1, ChainPlaces DEF IInv, TypesHold
  <2> QED BY <2>2 DEF ProcessStops, AlreadyApplied
<1>2. place \in Nat /\ ProcessEnd(place) \in Nat /\ place < ProcessEnd(place)
  BY <1>1, ProcessPlaces
<1>3. ASSUME place \in {5, 6, 14} PROVE FALSE
  <2>1. NoStop(place)
    BY <1>3 DEF ThinStakeIsLate
  <2>2. NextGroup = Groups(place)[group] /\ group <= Len(Groups(place)) /\ group \in Nat /\ group >= 1
    BY DEF NextGroup, ProcessStops, Running, IInv, TypesHold
  <2>3. Chain[place] \notin left
    <3> SUFFICES ASSUME Chain[place] \in left PROVE FALSE
      OBVIOUS
    <3>1. Groups(place) = <<>>
      BY DEF Groups
    <3> QED BY <3>1, <2>2
  <2>4. Script[Chain[place]] \in Seq(PatchGroups) /\ Groups(place) = Script[Chain[place]]
    BY <1>1, <2>3 DEF PatchesSound, PatchTypes, EachOnce, Groups
  <2>5. group \in DOMAIN Script[Chain[place]]
    BY <2>2, <2>4
  <2> QED BY <1>1, <2>1, <2>2, <2>4, <2>5 DEF NoStop
<1>4. ASSUME place < 15 PROVE place' = place + 1
  <2>1. CASE place = 14
    BY <1>3, <2>1
  <2>2. CASE place # 14
    <3>1. place + 1 \in 1..15
      BY <1>2, <1>4, <2>2
    <3>2. Opens(place + 1)
      BY <3>1 DEF ThinStakeIsLate
    <3>3. \A k \in (place + 1)..(ProcessEnd(place) - 1) : ~Opens(k)
      BY <1>1, ProcessEnds
    <3>4. ~(place + 1 <= ProcessEnd(place) - 1)
      BY <1>2, <3>2, <3>3
    <3> QED BY <1>1, <1>2, <3>4
  <2> QED BY <2>1, <2>2
<1> QED BY <1>3, <1>4

\* no target without momentum_ignition
LEMMA SavedTargets ==
  ASSUME PatchesSound, ThinStakeIsLate, IInv, GroupSaves, "momentum_ignition" \in left,
         Targets \cap disk["engine"] = {}
  PROVE  Targets \cap disk'["engine"] = {}
<1> DEFINE edits == Script[Chain[place]][group].edits
           S == {d \in Disks : Targets \cap d["engine"] = {}}
<1>1. /\ DiskAt(edits, 0) = disk /\ DiskAt(edits, Len(edits)) = disk'
      /\ \A n \in 0..Len(edits) : DiskAt(edits, n) \in Disks
      /\ \A k \in DOMAIN edits : Through(DiskAt(edits, k - 1), DiskAt(edits, k), edits[k])
  BY SavedStages
<1>2. /\ Len(edits) \in Nat /\ DOMAIN edits = 1..Len(edits) /\ Chain[place] \in Scripts \ left
      /\ \A k \in DOMAIN edits :
           edits[k] \in EditRows /\ edits[k] \in AllEdits /\ edits[k] \in EditsOf(Chain[place])
  BY GroupRuns
<1> HIDE DEF edits
<1>3. DiskAt(edits, 0) \in S
  BY <1>1, <1>2
<1>4. ASSUME NEW k \in DOMAIN edits, DiskAt(edits, k - 1) \in S PROVE DiskAt(edits, k) \in S
  <2> DEFINE d1 == DiskAt(edits, k - 1)
             d2 == DiskAt(edits, k)
             x == edits[k]
  <2>1. k \in 0..Len(edits) /\ d2 \in Disks /\ d1 \in Disks /\ Through(d1, d2, x) /\ x \in EditRows
    BY <1>1, <1>2, <1>4
  <2>2. "engine" \in Files
    BY DEF Files, Base
  <2>3. x.file = "engine" => "target-1.4%" \notin x.puts
    BY <1>2 DEF ThinStakeIsLate, OnlyFrom
  <2>4. x.file = "engine" /\ "target-1.5%" \in x.puts => "target-1.4%" \in x.at
    BY <1>2 DEF ThinStakeIsLate, Needs
  <2>5. Targets \cap d1["engine"] = {}
    BY <1>4
  <2> HIDE DEF d1, d2, x
  <2>6. d2["engine"] # d1["engine"] =>
          x.file = "engine" /\ x.at \subseteq d1["engine"] /\ d2["engine"] = (d1["engine"] \ x.cuts) \cup x.puts
    BY <2>1, <2>2, EditOf
  <2>7. Targets \cap d2["engine"] = {}
    BY <2>3, <2>4, <2>5, <2>6 DEF Targets
  <2> QED BY <2>1, <2>7 DEF d2
<1> HIDE DEF S
<1>5. \A n \in 0..Len(edits) : DiskAt(edits, n) \in S
  BY <1>2, <1>3, <1>4, StagesWithin
<1>6. Len(edits) \in 0..Len(edits)
  BY <1>2
<1> QED BY <1>1, <1>5, <1>6 DEF S

\* A text that is there and that no edit of the group cuts stays.
LEMMA SavedKeeps ==
  ASSUME PatchesSound, IInv, GroupSaves, NEW f \in Files, NEW t \in disk[f],
         \A k \in DOMAIN Script[Chain[place]][group].edits :
           LET e == Script[Chain[place]][group].edits[k]
           IN  e.file = f => t \notin e.cuts \ e.puts
  PROVE  t \in disk'[f]
<1> DEFINE edits == Script[Chain[place]][group].edits
<1>1. Len(edits) \in Nat /\ DiskAt(edits, Len(edits)) = disk' /\ FilesAt(edits, Len(edits))
  <2>1. Len(edits) \in Nat /\ Len(edits) \in 0..Len(edits)
    BY GroupRuns
  <2> QED BY <2>1, SavedStages
<1>2. \A k \in DOMAIN edits : edits[k].file = f => edits[k].cuts \cap {t} \subseteq edits[k].puts
  OBVIOUS
<1> HIDE DEF edits
<1>3. {t} \in SUBSET disk[f]
  OBVIOUS
<1>4. {t} \subseteq DiskAt(edits, Len(edits))[f]
  BY <1>1, <1>2, <1>3 DEF FilesAt
<1> QED BY <1>1, <1>4

\* A text that was not there is put by an edit of the group.
LEMMA SavedPuts ==
  ASSUME PatchesSound, IInv, GroupSaves, NEW f \in Files, NEW t \in disk'[f], t \notin disk[f]
  PROVE  \E k \in DOMAIN Script[Chain[place]][group].edits :
           LET e == Script[Chain[place]][group].edits[k] IN e.file = f /\ t \in e.puts
<1> DEFINE edits == Script[Chain[place]][group].edits
<1>1. Len(edits) \in Nat /\ DiskAt(edits, Len(edits)) = disk' /\ FilesAt(edits, Len(edits))
  <2>1. Len(edits) \in Nat /\ Len(edits) \in 0..Len(edits)
    BY GroupRuns
  <2> QED BY <2>1, SavedStages
<1> HIDE DEF edits
<1>2. \E k \in DOMAIN edits : edits[k].file = f /\ t \in edits[k].puts
  BY <1>1 DEF FilesAt
<1> QED BY <1>2 DEF edits

\* The files as copied hold none of the texts.
LEMMA ThinStarts == ASSUME ThinStakeIsLate, Init PROVE ThinInv
<1>1. disk = Base /\ place = 1 /\ group = 1
  BY DEF Init
<1>2. /\ "target-1.4%" \notin Base["engine"] /\ "target-1.5%" \notin Base["engine"]
      /\ "thin-stake-7" \notin Base["engine"]
  BY DEF ThinStakeIsLate, OnlyFrom
<1> QED BY <1>1, <1>2 DEF ThinInv, Targets

\* A saved group keeps ThinInv.
LEMMA ThinSaved ==
  ASSUME PatchesSound, ThinStakeIsLate, IInv, ThinInv, GroupSaves
  PROVE  ThinInv'
<1>1. /\ place' = place /\ left' = left /\ group' = group + 1 /\ group \in Nat /\ group >= 1
      /\ place \in Places /\ Chain[place] \notin left /\ place \in Nat
      /\ Chain[place] \in Scripts /\ group \in DOMAIN Script[Chain[place]]
  BY GroupRuns, ChainPlaces DEF IInv, TypesHold
<1>2. \A k \in DOMAIN Script[Chain[place]][group].edits :
        Script[Chain[place]][group].edits[k] \in EditsOf(Chain[place])
  BY GroupRuns
<1>3. "engine" \in Files
  BY DEF Files, Base
<1>4. BannersGone => BannersGone'
  BY SavedBanners
<1>5. "momentum_ignition" \in left => Targets \cap disk'["engine"] = {}
  BY SavedTargets DEF ThinInv
<1>6. ASSUME "momentum_ignition" \notin left, place \in {5, 6, 7}
      PROVE  "IGNITION-banner" \in disk'["engine"]
  <2>1. CASE place = 5
    BY <2>1, IgnitionIsVerified
  <2>2. CASE place \in {6, 7}
    <3>1. "IGNITION-banner" \in disk["engine"]
      BY <1>6, <2>2 DEF ThinInv
    <3>2. Chain[place] \in {"controlled_breakout", "growth_mode"}
      BY <2>2, ScriptsOfThinStake
    <3>3. \A e \in EditsOf(Chain[place]) : "IGNITION-banner" \notin e.cuts
      BY <3>2 DEF ThinStakeIsLate
    <3> QED BY <1>2, <1>3, <3>1, <3>3, SavedKeeps
  <2> QED BY <1>6, <2>1, <2>2
<1>7. ASSUME "adaptive_watch" \notin left, place >= 14 PROVE BannersGone'
  <2>1. CASE place = 14
    BY <2>1, WatchTakesBanners
  <2>2. CASE place > 14
    BY <1>4, <1>7, <2>2 DEF ThinInv
  <2> QED BY <1>1, <1>7, <2>1, <2>2
<1>8. ASSUME "live_opportunity" \notin left, place = 38 PROVE "adaptive_watch" \notin left
  <2>1. CASE group = 1
    <3>1. "watch-price" \in disk["engine"]
      BY <1>8, <2>1, FirstEditFinds
    <3> QED BY <1>3, <3>1, LeftOutNeverThere DEF ThinStakeIsLate
  <2>2. CASE group # 1
    BY <1>1, <1>8, <2>2 DEF ThinInv
  <2> QED BY <2>1, <2>2
<1>9. ASSUME "thin-stake-7" \in disk'["engine"] PROVE BannersGone'
  <2>1. CASE "thin-stake-7" \in disk["engine"]
    BY <1>4, <2>1 DEF ThinInv
  <2>2. CASE "thin-stake-7" \notin disk["engine"]
    <3>1. PICK k \in DOMAIN Script[Chain[place]][group].edits :
            /\ Script[Chain[place]][group].edits[k].file = "engine"
            /\ "thin-stake-7" \in Script[Chain[place]][group].edits[k].puts
      BY <1>3, <1>9, <2>2, SavedPuts
    <3>2. Chain[place] = "live_opportunity"
      BY <1>1, <1>2, <3>1 DEF ThinStakeIsLate, OnlyFrom
    <3>3. place = 38
      <4>1. 38 \in Places
        BY ScriptsOfThinStake DEF Places
      <4> QED BY <1>1, <3>2, <4>1, ScriptsOfThinStake DEF PatchesSound, EachOnce
    <3>4. group # 1
      BY <3>1, <3>2, ScriptsOfThinStake DEF ThinStakeIsLate
    <3>5. "live_opportunity" \notin left /\ group >= 2
      BY <1>1, <3>2, <3>4
    <3>6. BannersGone
      BY <3>3, <3>5 DEF ThinInv
    <3> QED BY <1>4, <3>6
  <2> QED BY <2>1, <2>2
<1> QED BY <1>1, <1>5, <1>6, <1>7, <1>8, <1>9 DEF ThinInv

\* The steps that change no file.
LEMMA ThinElse ==
  ASSUME PatchesSound, ThinStakeIsLate, IInv, ThinInv, UNCHANGED <<disk, left>>,
         \/ UNCHANGED <<place, group>>
         \/ place' = 1 /\ group' = 1
         \/ ProcessStops \/ ScriptEnds
  PROVE  ThinInv'
<1>0. BannersGone' <=> BannersGone
  BY DEF BannersGone
<1>1. CASE UNCHANGED <<place, group>>
  BY <1>0, <1>1 DEF ThinInv
<1>2. CASE place' = 1 /\ group' = 1
  BY <1>0, <1>2 DEF ThinInv
<1>3. CASE ProcessStops \/ ScriptEnds
  <2>1. /\ place \in Nat /\ place' \in Nat /\ group' = 1 /\ place < place'
        /\ place < 15 => place' = place + 1
    <3>1. CASE ProcessStops
      <4>1. place <= Len(Chain)
        BY <3>1 DEF ProcessStops, Running
      <4>2. place \in Places
        BY <4>1, ChainPlaces DEF IInv, TypesHold
      <4> QED BY <3>1, <4>2, ProcessPlaces, EarlyProcess DEF ProcessStops
    <3>2. CASE ScriptEnds
      <4>1. place \in Nat
        BY ChainPlaces DEF IInv, TypesHold
      <4> QED BY <3>2, <4>1 DEF ScriptEnds
    <3> QED BY <1>3, <3>1, <3>2
  \* a script of the chain ends after its only group
  <2>2. ASSUME place \in {5, 14}, Chain[place] \notin left PROVE group >= 2
    <3>1. ScriptEnds
      BY <1>3, <2>2, EarlyProcess
    <3>2. group > Len(Script[Chain[place]])
      BY <2>2, <3>1 DEF ScriptEnds, Groups
    <3>3. Chain[place] \in Scripts
      BY <2>2, ScriptsOfThinStake
    <3>4. DOMAIN Script[Chain[place]] = {1}
      BY <2>2, ScriptsOfThinStake, IgnitionData, WatchData
    <3>5. Len(Script[Chain[place]]) >= 1 /\ Len(Script[Chain[place]]) \in Nat
      <4>1. Script[Chain[place]] \in Seq(PatchGroups)
        BY <3>3 DEF PatchesSound, PatchTypes
      <4>2. DOMAIN Script[Chain[place]] = 1..Len(Script[Chain[place]])
             /\ Len(Script[Chain[place]]) \in Nat
        BY <4>1
      <4>3. 1 \in 1..Len(Script[Chain[place]])
        BY <3>4, <4>2
      <4> QED BY <4>2, <4>3
    <3>6. group \in Nat
      BY DEF IInv, TypesHold
    <3> QED BY <3>2, <3>5, <3>6
  <2>3. ASSUME "momentum_ignition" \notin left, place' \in {6, 7} PROVE "IGNITION-banner" \in disk["engine"]
    <3>1. place \in {5, 6}
      BY <2>1, <2>3
    <3>2. CASE place = 5
      BY <2>2, <2>3, <3>2, ScriptsOfThinStake DEF ThinInv
    <3>3. CASE place = 6
      BY <2>3, <3>3 DEF ThinInv
    <3> QED BY <3>1, <3>2, <3>3
  <2>4. ASSUME "adaptive_watch" \notin left, place' > 14 PROVE BannersGone
    <3>1. place >= 14
      BY <2>1, <2>4
    <3>2. CASE place = 14
      BY <2>2, <2>4, <3>2, ScriptsOfThinStake DEF ThinInv
    <3>3. CASE place > 14
      BY <2>4, <3>3 DEF ThinInv
    <3> QED BY <2>1, <3>1, <3>2, <3>3
  <2> QED BY <1>0, <2>1, <2>3, <2>4 DEF ThinInv
<1> QED BY <1>1, <1>2, <1>3

\* Every step keeps ThinInv.
LEMMA ThinStays ==
  ASSUME PatchesSound, ThinStakeIsLate, IInv, ThinInv, [Next]_vars
  PROVE  ThinInv'
<1>1. CASE GroupSaves
  BY <1>1, ThinSaved
<1>2. CASE ProcessStops
  <2>1. UNCHANGED <<disk, left>>
    BY <1>2 DEF ProcessStops
  <2> QED BY <1>2, <2>1, ThinElse
<1>3. CASE ScriptEnds
  <2>1. UNCHANGED <<disk, left>>
    BY <1>3 DEF ScriptEnds
  <2> QED BY <1>3, <2>1, ThinElse
<1>4. CASE ScriptAborts \/ ImageEnds \/ UNCHANGED vars
  <2>1. UNCHANGED <<disk, left>> /\ UNCHANGED <<place, group>>
    BY <1>4 DEF ScriptAborts, ImageEnds, vars
  <2> QED BY <2>1, ThinElse
<1>5. CASE Commit
  <2>1. UNCHANGED <<disk, left>> /\ place' = 1 /\ group' = 1
    BY <1>5 DEF Commit
  <2> QED BY <2>1, ThinElse
<1> QED BY <1>1, <1>2, <1>3, <1>4, <1>5 DEF Next

\* A step that would cut a refusal is none that goes through.
LEMMA RefusalsKept ==
  ASSUME PatchesSound, ThinStakeIsLate, IInv, ThinInv, [Next]_vars,
         NEW f \in DOMAIN Refusals, NEW t \in Refusals[f] \cap disk[f]
  PROVE  t \in disk'[f]
<1>1. CASE disk' = disk
  BY <1>1
<1>2. CASE GroupSaves
  <2> DEFINE edits == Script[Chain[place]][group].edits
  <2>1. /\ place \in Places /\ Chain[place] \in Scripts /\ Chain[place] \notin left
        /\ group \in DOMAIN Script[Chain[place]]
        /\ \A k \in DOMAIN edits : edits[k] \in EditsOf(Chain[place])
    BY <1>2, GroupRuns
  <2>2. f \in Files
    BY DEF Refusals, Files, Base
  <2>3. ASSUME NEW k \in DOMAIN edits, edits[k].file = f, t \in edits[k].cuts \ edits[k].puts
        PROVE  FALSE
    <3>1. f = "engine" /\ t = "thin-stake-7" /\ Chain[place] = "growth_mode"
      BY <2>1, <2>3 DEF ThinStakeIsLate
    <3>2. group = 1
      BY <2>1, <2>3, <3>1, ScriptsOfThinStake DEF ThinStakeIsLate
    <3>3. place = 7
      <4>1. 7 \in Places
        BY ScriptsOfThinStake DEF Places
      <4> QED BY <2>1, <3>1, <4>1, ScriptsOfThinStake DEF PatchesSound, EachOnce
    <3>4. Targets \cap disk["engine"] # {}
      BY <1>2, <3>2, <3>3, FirstEditFinds
    <3>5. "IGNITION-banner" \in disk["engine"]
      BY <3>3, <3>4 DEF ThinInv
    <3>6. BannersGone
      BY <3>1 DEF ThinInv
    <3> QED BY <3>5, <3>6 DEF BannersGone, Banners
  <2> QED BY <1>2, <2>2, <2>3, SavedKeeps
<1> QED BY <1>1, <1>2 DEF Next, ProcessStops, ScriptAborts, ScriptEnds, ImageEnds, Commit, vars

\* No script and no second build takes a gate, a cap or the thin stake out of the
\* files once it is in them.
THEOREM RefusalsNeverCut == PatchesSound /\ ThinStakeIsLate => (Spec => RefusalsStay)
<1> SUFFICES ASSUME PatchesSound, ThinStakeIsLate PROVE Spec => RefusalsStay
  OBVIOUS
<1> DEFINE Stays == \A f \in DOMAIN Refusals : Refusals[f] \cap disk[f] \subseteq disk'[f]
<1>1. Init => ThinInv
  BY ThinStarts
<1>2. IInv /\ ThinInv /\ [Next]_vars => ThinInv'
  BY ThinStays
<1>3. IInv /\ ThinInv /\ [Next]_vars => [Stays]_vars
  BY RefusalsKept
<1>4. Spec => []IInv
  BY BuildInvariantHolds
<1>5. Spec => []ThinInv
  BY <1>1, <1>2, <1>4, PTL DEF Spec
<1>6. Spec => [][Stays]_vars
  BY <1>3, <1>4, <1>5, PTL DEF Spec
<1> QED BY <1>6 DEF RefusalsStay
=============================================================================
