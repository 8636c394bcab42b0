----------------------------- MODULE Consensus ------------------------------
(***************************************************************************)
(* build_consensus (review/consensus.py): one item per issue, represented  *)
(* by its most severe, then most confident finding, and gated by a         *)
(* weighted confidence.  The weights are decimal fractions, so a weighted  *)
(* confidence is an exact fraction here; the code's floating point product *)
(* differs from it by rounding only.  The order of the items is layout.    *)
(***************************************************************************)
EXTENDS Findings

(* In tenths.                                                              *)
DimensionWeight == [security |-> 13, correctness |-> 12, architecture |-> 10, devops |-> 10,
                    performance |-> 9, testing |-> 9, accessibility |-> 8, documentation |-> 7]

(* In twentieths.                                                          *)
SourceMultiplier == [deterministic |-> 20, hybrid |-> 19, llm |-> 17]

GateRank == [suppress |-> 0, collapse |-> 1, post |-> 2]
Gates == DOMAIN GateRank

Serious == {"critical", "high"}

(* Adjustments are fractions [num, den], per category, absent ones 1.      *)
NoAdjustments == [c \in {} |-> [num |-> 1, den |-> 1]]
Multiplier(adj, c) == IF c \in DOMAIN adj THEN adj[c] ELSE [num |-> 1, den |-> 1]

-----------------------------------------------------------------------------
Keys(fs) == {DedupeKey(fs[i]) : i \in DOMAIN fs}
Group(fs, k) == {i \in DOMAIN fs : DedupeKey(fs[i]) = k}

(* Mutant of Stronger: confidence before severity.                         *)
StrongerByConfidence(f, g) ==
  \/ f.conf > g.conf
  \/ f.conf = g.conf /\ SeverityWeight[f.sev] > SeverityWeight[g.sev]

(* The key of max: severity weight first, then confidence.                 *)
Stronger(f, g) ==
  \/ SeverityWeight[f.sev] > SeverityWeight[g.sev]
  \/ SeverityWeight[f.sev] = SeverityWeight[g.sev] /\ f.conf > g.conf

(* max returns the first of several maxima.                                *)
IsRep(fs, k, i) ==
  /\ i \in Group(fs, k)
  /\ \A j \in Group(fs, k) : ~Stronger(fs[j], fs[i]) /\ (j < i => Stronger(fs[i], fs[j]))

Rep(fs, k) == fs[CHOOSE i \in Group(fs, k) : IsRep(fs, k, i)]

(* Mutant of Agreement: the agents of all findings count.                  *)
AgreementOfAll(fs, k) == Cardinality({fs[i].agent : i \in DOMAIN fs})

Agreement(fs, k) == Cardinality({fs[i].agent : i \in Group(fs, k)})

(* Mutant of Weighted: agents share the confidence.                        *)
WeightedShared(f, agreement, mult) ==
  [num |-> f.conf * DimensionWeight[f.dim] * SourceMultiplier[f.src] * (20 \div agreement) * mult.num,
   den |-> 400000 * mult.den]

(* Confidence times dimension, source, agreement and feedback multipliers. *)
Weighted(f, agreement, mult) ==
  [num |-> f.conf * DimensionWeight[f.dim] * SourceMultiplier[f.src] * (19 + agreement) * mult.num,
   den |-> 400000 * mult.den]

(* w >= twentieths/20; the cap of w at 1 decides no gate.                  *)
AtLeast(w, twentieths) == 20 * w.num >= twentieths * w.den

(* Mutant of Gate: one bar for all severities.                             *)
GateAlike(sev, w) ==
  IF AtLeast(w, 15) THEN "post" ELSE IF AtLeast(w, 8) THEN "collapse" ELSE "suppress"

(* _gate_for: serious issues post at a lower bar.                          *)
Gate(sev, w) ==
  IF AtLeast(w, 15) \/ (sev \in Serious /\ AtLeast(w, 10)) THEN "post"
  ELSE IF AtLeast(w, 8) THEN "collapse" ELSE "suppress"

Item(fs, adj, k) ==
  LET f == Rep(fs, k)
      w == Weighted(f, Agreement(fs, k), Multiplier(adj, f.cat))
  IN  [finding |-> f, weighted |-> w, agreement |-> Agreement(fs, k), gate |-> Gate(f.sev, w)]

Items(fs, adj) == {Item(fs, adj, k) : k \in Keys(fs)}

Posted(fs, adj) == {i \in Items(fs, adj) : i.gate = "post"}

Blocking(fs, adj) == \E i \in Posted(fs, adj) : i.finding.sev \in Serious
=============================================================================
