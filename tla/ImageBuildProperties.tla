------------------------ MODULE ImageBuildProperties ------------------------
(***************************************************************************)
(* What a published image of the patched files promises, and what the      *)
(* scripts have to be for it, whichever of them are taken out.             *)
(***************************************************************************)
EXTENDS ImageBuild

EditsOf(s) == UNION {{g.edits[j] : j \in DOMAIN g.edits} :
                       g \in {Script[s][i] : i \in DOMAIN Script[s]}}
AllEdits == UNION {EditsOf(s) : s \in Scripts}
Places == 1..Len(Chain)
\* s and the scripts after it in the chain
From(s) == {Chain[j] : j \in {k \in Places : \E i \in 1..k : Chain[i] = s}}
\* the texts of a file that s itself or a script after it replaces
ReplacedAfter(s, file) ==
  UNION {e.cuts : e \in {d \in UNION {EditsOf(r) : r \in From(s)} : d.file = file}}
\* the texts an edit puts for good
Kept(s, e) == e.puts \ ReplacedAfter(s, e.file)

\* Whichever script is taken out of the chain, and over whichever earlier tree it
\* runs, an image that is published holds every text its remaining scripts put
\* and no later script replaces: none of them was skipped without the build failing.
PublishedIsWhole ==
  status = "published" =>
    \A s \in Scripts \ left : \A e \in EditsOf(s) : Kept(s, e) \subseteq disk[e.file]

\* The three stake ceilings, kept in three files, move together: a published
\* engine sends up to 40 USDT exactly when the relay lets 40 through and the
\* sizing is the allocator that was written for 40.
CeilingsAgree ==
  status = "published" =>
    /\ "stake-40" \in disk.engine <=> "cap-40" \in disk.proxy
    /\ "stake-40" \in disk.engine <=> "priority-allocator" \in disk.sizing

\* the texts that refuse or shrink a live entry
Refusals == [engine |-> {"quality-gate", "portfolio-gate", "daily-loss-cap",
                         "sniper-pre-ingest", "direct-confirmation",
                         "lane-confirmation", "structure-flow", "thin-stake-7"},
             proxy  |-> {"live-reward-to-risk", "unicode-symbols"},
             gate   |-> {"high-score-rank", "breadth-rule"}]
\* No later script, and no second run of an earlier one, takes a refusal out of
\* the files once it is in them.
RefusalsStay ==
  [][\A f \in DOMAIN Refusals : Refusals[f] \cap disk[f] \subseteq disk'[f]]_vars

(***************************************************************************)
(* What the scripts have to be.                                            *)
(***************************************************************************)
\* only s puts the text
OnlyFrom(s, f, t) ==
  t \notin Base[f] /\ \A r \in Scripts \ {s} : \A e \in EditsOf(r) : e.file = f => t \notin e.puts
Never(f, t) == t \notin Base[f] /\ \A e \in AllEdits : e.file = f => t \notin e.puts
\* an image is not published without s
Vital(s) == \E f \in DOMAIN Asserted : \E t \in Asserted[f] : OnlyFrom(s, f, t)

Texts == SUBSET STRING
EditRows == [file : Files, unless : Texts, at : Texts, puts : Texts, cuts : Texts, must : BOOLEAN]
PatchGroups == [stop : Texts, edits : Seq(EditRows)]
PatchTypes ==
  /\ \A s \in Scripts : Script[s] \in Seq(PatchGroups)
  /\ Base \in [Files -> Texts]
EachOnce ==
  /\ {Chain[i] : i \in Places} = Scripts
  /\ \A i, j \in Places : Chain[i] = Chain[j] => i = j
\* Where the mark of an edit is, all it puts for good is: whoever puts the mark
\* puts that, and whoever cuts that cuts the mark.
MarksTell ==
  \A s \in Scripts : \A e \in EditsOf(s) : e.unless # {} =>
    /\ ~(e.unless \subseteq Base[e.file]) \/ Kept(s, e) = {}
    /\ \A x \in AllEdits : x.file = e.file =>
         /\ x.puts \cap e.unless # {} => Kept(s, e) \subseteq x.puts
         /\ ~(x.cuts \cap Kept(s, e) \subseteq x.puts) => (x.cuts \ x.puts) \cap e.unless # {}
\* A mark that ends the process comes from the group it stands before, and what
\* the rest of the process puts for good nobody cuts.
StopsTell ==
  \A i \in Places : \A g \in DOMAIN Script[Chain[i]] : \A m \in Script[Chain[i]][g].stop :
    /\ m \notin Base["engine"]
    /\ \A s \in Scripts : \A h \in DOMAIN Script[s] : \A k \in DOMAIN Script[s][h].edits :
         Script[s][h].edits[k].file = "engine" /\ m \in Script[s][h].edits[k].puts
           => s = Chain[i] /\ h = g
    /\ \A j \in i..(ProcessEnd(i) - 1) : \A e \in EditsOf(Chain[j]) :
         \A x \in AllEdits : x.file = e.file => x.cuts \cap Kept(Chain[j], e) \subseteq x.puts
\* The edit c of the same group fails unless the texts are there.
Verified(texts, file, c) ==
  c.file = file /\ c.must /\ texts \subseteq c.unless /\ \E t \in c.at : Never(file, t)
\* An earlier script r, without which nothing is published, leaves the anchor of
\* e or finds what e puts: who cuts the anchor puts that.
HandsOver(r, d, s, e) ==
  /\ d.file = e.file /\ r # s /\ s \in From(r) /\ Vital(r)
  /\ d.unless # {} /\ d.unless \subseteq Kept(r, d) /\ ~(d.unless \subseteq Base[d.file])
  /\ \A x \in AllEdits : x.file = e.file =>
       /\ x.puts \cap d.unless # {} => e.at \subseteq x.puts
       /\ x.cuts \cap e.at # {} => Kept(s, e) \subseteq x.puts
       /\ x.cuts \cap Kept(s, e) \subseteq x.puts
\* An edit that is passed over in silence puts nothing for good, always finds its
\* anchor, or is looked for by the same group.
Sure(s, g, k) ==
  LET e == Script[s][g].edits[k] IN
    \/ e.must \/ Kept(s, e) = {} \/ e.at = {}
    \/ \E v \in DOMAIN Script[s][g].edits :
         v > k /\ Verified(Kept(s, e), e.file, Script[s][g].edits[v])
    \/ \E r \in Scripts : \E d \in EditsOf(r) : HandsOver(r, d, s, e)
PatchesSound ==
  /\ PatchTypes /\ EachOnce /\ MarksTell /\ StopsTell
  /\ \A s \in Scripts : \A g \in DOMAIN Script[s] :
       \A k \in DOMAIN Script[s][g].edits : Sure(s, g, k)

\* The three ceilings come from one script, which puts each of them for good.
CeilingsOfOne ==
  \A c \in {<<"engine", "stake-40">>, <<"proxy", "cap-40">>, <<"sizing", "priority-allocator">>} :
    /\ OnlyFrom("growth_mode", c[1], c[2])
    /\ \E e \in EditsOf("growth_mode") : e.file = c[1] /\ c[2] \in Kept("growth_mode", e)

\* Of the refusals only the thin stake is ever cut, in the first group of
\* growth_mode, which looks for a target that momentum_ignition puts; and that
\* script goes through only with the ignition banner, which adaptive_watch takes
\* out before live_opportunity puts the thin stake.
Needs(t, a) == \A e \in AllEdits : e.file = "engine" /\ t \in e.puts => a \in e.at
NoStop(i) == \A g \in DOMAIN Script[Chain[i]] : Script[Chain[i]][g].stop = {}
ThinStakeIsLate ==
  /\ \A s \in Scripts : \A e \in EditsOf(s) : e.file \in DOMAIN Refusals =>
       \A t \in Refusals[e.file] \cap (e.cuts \ e.puts) :
         e.file = "engine" /\ t = "thin-stake-7" /\ s = "growth_mode"
  /\ \A g \in DOMAIN growth_mode : \A k \in DOMAIN growth_mode[g].edits :
       growth_mode[g].edits[k].file = "engine" => g = 1
  /\ OnlyFrom("live_opportunity", "engine", "thin-stake-7")
  /\ \A k \in DOMAIN live_opportunity[1].edits : "thin-stake-7" \notin live_opportunity[1].edits[k].puts
  /\ OnlyFrom("momentum_ignition", "engine", "target-1.4%")
  /\ OnlyFrom("adaptive_watch", "engine", "watch-price")
  /\ Needs("target-1.5%", "target-1.4%") /\ Needs("IGNITION-banner", "PRE_MOMENTUM-banner")
  /\ \A e \in AllEdits : e.file = "engine" => "PRE_MOMENTUM-banner" \notin e.puts
  /\ \A s \in {"controlled_breakout", "growth_mode"} : \A e \in EditsOf(s) : "IGNITION-banner" \notin e.cuts
  /\ {"target-1.5%", "IGNITION-banner"} \cap Base["engine"] = {} /\ Never("engine", "never")
  /\ (\A i \in 1..15 : Opens(i)) /\ \A i \in {5, 6, 14} : NoStop(i)
=============================================================================
