----------------------------- MODULE AgentReview ------------------------------
(***************************************************************************)
(* The review graph with the agents of the registry: their rules, the      *)
(* parser of the model's answers and the memory's insights of AgentRules   *)
(* for the Scans, Answers and Insights of ReviewGraph.                     *)
(***************************************************************************)
EXTENDS ReviewGraph, AgentRules

CONSTANT RawAnswers   \* per agent: the lists of findings the model may answer

Context == [blast : Seq(Path), regression : Seq([path : Path, bugs : Nat \ {0}]),
            cycles : Seq(Seq(Path))]

(* What run_review is given.  Of the graph's cycles and risky files, the   *)
(* memory's context has those the diff touches; without a memory, none.    *)
IsInput(in) ==
  /\ IsDiff(in.diff)
  /\ in.context \in Context /\ in.llm \in BOOLEAN
  /\ \A r \in DOMAIN in.context.regression : in.context.regression[r].path \in Paths(in.diff)
  /\ \A c \in DOMAIN in.context.cycles : ToSet(in.context.cycles[c]) \cap Paths(in.diff) # {}

ASSUME AgentReviewAssumption ==
  /\ Place \subseteq (Path \cup {NoPath}) \X Nat
  /\ \A in \in Inputs : IsInput(Given[in])
  /\ \A a \in Agent : RawAnswers[a] \subseteq Seq(AnswerItem)
  /\ Scans = [x \in Agent \X Inputs |-> RulesOf(x[1], Given[x[2]].diff, Given[x[2]].context)]
  /\ Answers = [x \in Agent \X Inputs |->
                  {ParseAnswer(x[1], Given[x[2]].diff, items) : items \in RawAnswers[x[1]]}]
  /\ Insights = [in \in Inputs |-> InsightsOf(Given[in].context)]

-----------------------------------------------------------------------------
Diff == Given[input].diff

HasSecret(line) == line.text \cap ToSet(SecretTypes) # {}

(* A secret on an added line of any file blocks the merge, whatever else   *)
(* the diff has, whichever agents triage selects and however much of the   *)
(* review fails: only the failure of the security agent itself lets it     *)
(* pass (security.py:139-173, consensus.py, publisher.py:115-121).         *)
SecretBlocksReview ==
  Done /\ (\E f \in DOMAIN Diff : \E l \in DOMAIN Diff[f].added : HasSecret(Diff[f].added[l]))
    => event = "REQUEST_CHANGES" \/ node["security"] = "failed"

(* A finding is about the diff: the file it names is one the pull request  *)
(* touches, and one of the rules that names a line names a line the pull   *)
(* request adds, so that it can be posted there.  "The model cannot invent *)
(* or redirect findings" (base.py:5-6), and neither can the memory, whose  *)
(* cycles and histories reach beyond the diff.                             *)
FindingsAreAboutDiff ==
  \A i \in DOMAIN findings :
    LET path == findings[i].place[1]
        line == findings[i].place[2]
    IN path # NoPath =>
         \E f \in DOMAIN Diff :
           /\ Diff[f].path = path
           /\ findings[i].src = "llm" \/ line = NoLine \/ \E l \in DOMAIN Diff[f].added : Diff[f].added[l].n = line

(* The rules that ask nothing of the kind of a file: two of the line rules *)
(* and the loops of performance.py:31-121, the long changes and the cycles *)
(* of architecture.py:89-149.                                              *)
AnyKindRules ==
  {"select-star", "unbounded-readall", "n-plus-one-query", "large-change-surface",
   "circular-dependency"}

(* What triage saves (triage.py:121-148): no rule made for a kind of file  *)
(* is left out of a review that has such a file.  Of every agent left out, *)
(* all that is lost is what a rule for files of any kind would report, of  *)
(* documentation, markup or configuration, and the DevOps agent's findings *)
(* on a Dockerfile of the suffix, which that agent knows (devops.py:28-30) *)
(* and triage does not (triage.py:52-59).                                  *)
RoutingKeepsSpecialists ==
  \A a \in Agent \ Selected(Files) : \A i \in DOMAIN Scans[a, input] :
    \/ Scans[a, input][i].cat \in AnyKindRules
    \/ a = "devops" /\ \E f \in DOMAIN Diff : Diff[f].suffix = "dockerfile"
=============================================================================
