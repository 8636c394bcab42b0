------------------------------ MODULE Verdict -------------------------------
(***************************************************************************)
(* The verdict of a review while its findings accumulate and its           *)
(* repository's feedback is learned from.  Agents append to                *)
(* ReviewState.findings (review/state.py); consensus and scorecard are     *)
(* functions of that list, so what one more finding or one more click does *)
(* to the verdict is a statement about a step.                             *)
(***************************************************************************)
EXTENDS Consensus, Scorecard, GoldenPath

CONSTANTS
  Candidate,     \* findings the agents may report
  Rated,         \* bound: categories developers give feedback on
  MaxFindings,   \* bound: findings of one review
  Repeated,      \* bound: findings a longer review repeats
  MaxRepeats     \* bound: findings of that longer review

(* What the agents never do: the model's confidence is cut at 0.9          *)
(* (agents/base.py), every rule's is at most that of the secret detector,  *)
(* 0.97 for a critical finding (agents/security.py), none reports a hybrid.*)
Secret(f) == f.dim = "security" /\ f.cat = "hardcoded-secret" /\ f.src = "deterministic"

ASSUME VerdictAssumption ==
  /\ MaxFindings \in Nat /\ MaxRepeats \in Nat /\ IsFiniteSet(AgentName)
  /\ Rated \subseteq Category
  /\ Candidate \subseteq Finding /\ Repeated \subseteq Candidate
  /\ \A f \in Candidate :
       /\ f.src # "hybrid"
       /\ f.conf <= IF f.src = "llm" THEN 90 ELSE 97
       /\ Secret(f) => f.sev = "critical" /\ f.conf = 97

VARIABLE findings   \* ReviewState.findings

vars == <<findings, feedback>>

TypeOK ==
  /\ findings \in Seq(Candidate)
  /\ FeedbackTypeOK

Init == findings = <<>> /\ FeedbackInit

(* One agent adds a finding.                                               *)
Report(f) ==
  /\ \/ Len(findings) < MaxFindings
     \/ /\ Len(findings) < MaxRepeats
        /\ \E g \in Repeated : \A i \in DOMAIN findings : findings[i] = g
  /\ findings' = Append(findings, f)
  /\ UNCHANGED feedback

(* A developer reacts to a finding of category c.                          *)
Submit(c, action) == RecordFeedback(c, action) /\ UNCHANGED findings

Next ==
  \/ \E f \in Candidate : Report(f)
  \/ \E c \in Rated, action \in FeedbackAction : Submit(c, action)

Spec == Init /\ [][Next]_vars

-----------------------------------------------------------------------------
Verdict(k) == Item(findings, Adjustments, k)
Unadjusted(k) == Item(findings, NoAdjustments, k)

(* Merging duplicates never hides a severity: every finding is represented *)
(* by an item of its issue that is at least as severe (consensus.py:114).  *)
SeverityKept ==
  \A i \in DOMAIN findings :
    SeverityWeight[findings[i].sev]
      <= SeverityWeight[Verdict(DedupeKey(findings[i])).finding.sev]

(* A leaked secret blocks the merge, whatever the model claims about the   *)
(* same line and however often the team rejected such findings: 0.97 times *)
(* 1.3 times the learner's floor of 0.4 is still above the bar of 0.5      *)
(* (security.py:150, learner.py:14, consensus.py:87).                      *)
SecretsBlock ==
  \A i \in DOMAIN findings :
    Secret(findings[i]) =>
      Verdict(DedupeKey(findings[i])).gate = "post" /\ Blocking(findings, Adjustments)

(* Feedback only ever quiets: no learned adjustment moves an issue to a    *)
(* louder gate than it has without feedback (learner.py:29).               *)
FeedbackOnlyQuiets ==
  \A k \in Keys(findings) : GateRank[Verdict(k).gate] <= GateRank[Unadjusted(k).gate]

ClickSteers(c, action) ==
  \A k \in Keys(findings) :
    LET before == Verdict(k).gate
        after  == Verdict(k)'.gate
    IN  /\ k[2] # c => Verdict(k)' = Verdict(k)
        /\ c \in DOMAIN Adjustments /\ action = "accepted" => GateRank[before] <= GateRank[after]
        /\ c \in DOMAIN Adjustments /\ action = "rejected" => GateRank[after] <= GateRank[before]

(* A click moves the verdicts of its own category only; once the category  *)
(* has adapted, accepting quiets nothing and rejecting promotes nothing    *)
(* (learner.py:22-30).                                                     *)
ClicksSteer ==
  [][\A c \in Category, action \in FeedbackAction :
       findings' = findings /\ feedback' = [feedback EXCEPT ![c][action] = @ + 1]
         => ClickSteers(c, action)]_vars

SameIssue(f, g) == f.dim = g.dim /\ f.cat = g.cat /\ f.place = g.place

OthersUntouched ==
  feedback' = feedback =>
    \A i \in DOMAIN findings :
      ~SameIssue(findings[i], findings'[Len(findings')]) =>
        Verdict(DedupeKey(findings[i]))' = Verdict(DedupeKey(findings[i]))

(* A new finding changes the verdict on its own issue only (the grouping   *)
(* of consensus.py:107-119).                                               *)
EvidenceIsLocal == [][findings' # findings => OthersUntouched]_vars

RivalDemotes ==
  \A k \in Keys(findings) :
    GateRank[Verdict(k).gate]' < GateRank[Verdict(k).gate] /\ feedback' = feedback =>
      LET f == findings'[Len(findings')]
      IN  Verdict(k).finding' = f /\ Stronger(f, Verdict(k).finding)

(* More evidence quiets an issue only by replacing its representative with *)
(* a strictly more severe, or equally severe and more confident finding    *)
(* (consensus.py:113-120); agreement alone never does.                     *)
DemotionNeedsRival == [][RivalDemotes]_vars

(* What each dimension weighs in the overall score, through its own row    *)
(* and through the two derived ones, in tenths of a percent.               *)
Share == [security |-> 280, correctness |-> 180, architecture |-> 272, performance |-> 120,
          documentation |-> 122, testing |-> 152, devops |-> 152, accessibility |-> 30]

Price(f) == (Cost(f) * Share[f.dim]) \div 10

(* A row that counts findings of dim is at zero: testing and devops have   *)
(* no row of their own.                                                    *)
Exhausted(fs, dim) ==
  \/ dim \notin {"testing", "devops"} /\ Score(fs, dim) = 0
  \/ dim \in {"architecture", "documentation", "testing", "devops"} /\ Maintainability(fs) = 0
  \/ dim \in {"architecture", "testing", "devops"} /\ TechDebt(fs) = 0

(* The rows a finding of dimension dim leaves alone.                       *)
Unrelated(dim) ==
  ({"security", "architecture", "performance", "documentation"} \ {dim}) \cup
  CASE dim \in {"architecture", "testing", "devops"} -> {}
    [] dim = "documentation" -> {"tech_debt"}
    [] OTHER -> {"maintainability", "tech_debt"}

CostsPoints ==
  \A f \in Candidate : findings' = Append(findings, f) =>
    LET before == Scores(findings)
        after  == Scores(findings')
        drop   == (before.overall - after.overall) * Tenth
    IN  /\ \A row \in DOMAIN before : after[row] <= before[row]
        /\ \A row \in Unrelated(f.dim) : after[row] = before[row]
        /\ drop <= Price(f) + Tenth
        /\ drop >= Price(f) - Tenth \/ Exhausted(findings', f.dim)

(* One more finding raises no row of the scorecard and moves no row of     *)
(* another dimension.  The overall score falls by the finding's price, to  *)
(* within the tenth of a point that rounding gives and takes; it falls by  *)
(* less only when a row that counts the finding is exhausted, however many *)
(* findings came before (scoring.py:36-69).                                *)
EveryFindingCosts == [][CostsPoints]_vars

-----------------------------------------------------------------------------
(* What the docs say of the verdict, checked in runs of their own.         *)

Rules(fs) == SelectSeq(fs, LAMBDA f : f.src # "llm")

(* "the LLM only adds capped-confidence suggestions and can never suppress *)
(* a real finding" (SECURITY-CHECKLIST.md:46): no rule's finding has a     *)
(* quieter gate than it has without the model's findings.                  *)
ModelNeverSuppresses ==
  \A k \in Keys(Rules(findings)) :
    GateRank[Verdict(k).gate] >= GateRank[Item(Rules(findings), Adjustments, k).gate]

=============================================================================
