----------------------------- MODULE ReviewGraph -----------------------------
(***************************************************************************)
(* One run of run_review (review/graph.py): triage selects the agents, the *)
(* graph runs them in parallel, each scans the diff with its rules and     *)
(* then asks the model through the shared router and budget (agents/       *)
(* base.py), their findings are joined, the repository's memory adds its   *)
(* own, and the consensus decides the event the publisher posts.           *)
(*                                                                         *)
(* The agents are coroutines: an agent's steps end where it awaits a       *)
(* provider.  LangGraph applies the results of parallel nodes in an order  *)
(* of its own, here in the order in which they return; nothing reads them  *)
(* before the join.                                                        *)
(***************************************************************************)
EXTENDS LLMRouter, Consensus, Triage

CONSTANTS
  Inputs,     \* reviews run_review may be asked for
  Given,      \* per input: its diff, the context the memory has for it, and
              \* whether to use the model
  Scans,      \* per agent and input: what its rules report
  Answers,    \* per agent and input: what an answer of the model may parse to
  Insights    \* per input: what the memory reports

FilesOf(diff) == {diff[f] : f \in DOMAIN diff}

RuleOf(f, a) == f \in Finding /\ f.agent = a /\ f.dim = DimensionOf[a] /\ f.src = "deterministic"
ModelOf(f, a) == f \in Finding /\ f.agent = a /\ f.dim = DimensionOf[a] /\ f.src = "llm" /\ f.conf <= 90
Secret(f) == f.dim = "security" /\ f.cat = "hardcoded-secret" /\ f.src = "deterministic"

(* Agents report in their own dimension; the model's confidence is cut at  *)
(* 0.9, the secret detector's is 0.97 and no rule's exceeds it.            *)
ASSUME ReviewAssumption ==
  /\ Agent \subseteq Reviewers
  /\ \A in \in Inputs : Given[in].llm \in BOOLEAN /\ Selected(FilesOf(Given[in].diff)) \subseteq Agent
  /\ \A a \in Agent, in \in Inputs :
       /\ Scans[a, in] \in Seq(Finding) /\ Answers[a, in] \subseteq Seq(Finding)
       /\ \A i \in DOMAIN Scans[a, in] :
            LET f == Scans[a, in][i]
            IN RuleOf(f, a) /\ f.conf <= 97 /\ (Secret(f) => f.sev = "critical" /\ f.conf = 97)
       /\ \A s \in Answers[a, in] : \A i \in DOMAIN s : ModelOf(s[i], a)
  /\ \A in \in Inputs :
       /\ Insights[in] \in Seq(Finding)
       /\ \A i \in DOMAIN Insights[in] : Insights[in][i].agent = "memory" /\ Insights[in][i].src = "deterministic"

VARIABLES
  input,      \* the review asked for
  node,       \* per agent: state of its node of the graph
  scan,       \* per agent: findings of its rules
  report,     \* per agent: findings its node returned
  findings,   \* ReviewState.findings, and run_review's findings at the end
  event       \* event of the review request; "none" until run_review returns

nodeVars == <<input, node, scan, report, findings, event>>
reviewVars == <<routerVars, nodeVars>>

UseLLM == Given[input].llm
Files == FilesOf(Given[input].diff)

NodeState == {"skipped", "ready", "awaiting", "returned", "failed"}

ReviewTypeOK ==
  /\ RouterTypeOK
  /\ input \in Inputs
  /\ node \in [Agent -> NodeState]
  /\ scan \in [Agent -> Seq(Finding)] /\ report \in [Agent -> Seq(Finding)]
  /\ findings \in Seq(Finding)
  /\ event \in {"none", "APPROVE", "REQUEST_CHANGES", "COMMENT"}

(* Agents triage did not select have no node.                              *)
ReviewInit ==
  /\ RouterInit
  /\ input \in Inputs
  /\ node = [a \in Agent |-> IF a \in Selected(Files) THEN "ready" ELSE "skipped"]
  /\ scan = [a \in Agent |-> <<>>] /\ report = [a \in Agent |-> <<>>]
  /\ findings = <<>>
  /\ event = "none"

-----------------------------------------------------------------------------
(* The node returns {"findings": fs}, which the reducer appends.           *)
Return(a, fs) ==
  /\ node' = [node EXCEPT ![a] = "returned"]
  /\ report' = [report EXCEPT ![a] = fs]
  /\ findings' = findings \o fs

(* An exception leaves the agent: {"errors": [...]} and no findings.       *)
Raise(a) == node' = [node EXCEPT ![a] = "failed"] /\ UNCHANGED <<report, findings>>

Await(a) == node' = [node EXCEPT ![a] = "awaiting"] /\ UNCHANGED <<report, findings>>

(* Mutant of Enrich: without an answer the rules' findings go too.         *)
EnrichOrNothing(a, rules) ==
  \/ call'[a] = "calling" /\ Await(a)
  \/ call'[a] \in {"over_budget", "failed"} /\ Return(a, <<>>)
  \/ call'[a] = "answered" /\ \E model \in Answers[a, input] : Return(a, rules \o model)
  \/ call'[a] = "answered" /\ Raise(a)

(* Mutant of Enrich: a refused or failed call is awaited on.               *)
EnrichOrWait(a, rules) ==
  \/ call'[a] # "answered" /\ Await(a)
  \/ call'[a] = "answered" /\ \E model \in Answers[a, input] : Return(a, rules \o model)
  \/ call'[a] = "answered" /\ Raise(a)

(* run_llm_enrichment once the router call took its step: await it, give   *)
(* the rules' findings alone when it raised, add what the answer parses    *)
(* to.  An answer the JSON decoder gives up on with anything but a         *)
(* JSONDecodeError raises in the agent.                                    *)
Enrich(a, rules) ==
  \/ call'[a] = "calling" /\ Await(a)
  \/ call'[a] \in {"over_budget", "failed"} /\ Return(a, rules)
  \/ call'[a] = "answered" /\ \E model \in Answers[a, input] : Return(a, rules \o model)
  \/ call'[a] = "answered" /\ Raise(a)

(* The node starts: the rules run, then the model is asked if there is one.*)
Run(a) ==
  /\ node[a] = "ready"
  /\ scan' = [scan EXCEPT ![a] = Scans[a, input]]
  /\ \/ UseLLM /\ Complete(a) /\ Enrich(a, Scans[a, input])
     \/ ~UseLLM /\ Return(a, Scans[a, input]) /\ UNCHANGED routerVars
  /\ UNCHANGED <<input, event>>

(* A rule or the diff itself raises in the agent.                          *)
RunFails(a) ==
  /\ node[a] = "ready"
  /\ Raise(a)
  /\ UNCHANGED <<scan, input, event, routerVars>>

(* Mutant of Resume: an agent without an answer asks the router again.     *)
ResumeOrRetry(a) ==
  /\ node[a] = "awaiting"
  /\ \/ CallEnds(a) /\ Enrich(a, scan[a])
     \/ call[a] = "calling" /\ TryNext(a) /\ Await(a) /\ UNCHANGED <<used, byAgent, crashed>>
  /\ UNCHANGED <<scan, input, event>>

(* The provider call of an agent ends.                                     *)
Resume(a) ==
  /\ node[a] = "awaiting"
  /\ CallEnds(a) /\ Enrich(a, scan[a])
  /\ UNCHANGED <<scan, input, event>>

(* Mutant of Event: a review without a posted issue is clean.              *)
EventUnlessBlocking(files, fs) ==
  IF Eligible(files) THEN "APPROVE"
  ELSE IF Blocking(fs, NoAdjustments) THEN "REQUEST_CHANGES" ELSE "COMMENT"

(* auto_approved, and build_review_request's event.  process_pull_request  *)
(* passes no adjustments.                                                  *)
Event(files, fs) ==
  IF Eligible(files) /\ ~Blocking(fs, NoAdjustments) /\ Posted(fs, NoAdjustments) = {}
  THEN "APPROVE"
  ELSE IF Blocking(fs, NoAdjustments) THEN "REQUEST_CHANGES" ELSE "COMMENT"

(* The join, the memory's insights, the verdict.  Later steps change none  *)
(* of it.                                                                  *)
Conclude ==
  /\ event = "none"
  /\ \A a \in Agent : node[a] \in {"skipped", "returned", "failed"}
  /\ findings' = findings \o Insights[input]
  /\ event' = Event(Files, findings')
  /\ UNCHANGED <<input, node, scan, report, routerVars>>

ReviewNext ==
  \/ \E a \in Agent : Run(a) \/ RunFails(a) \/ Resume(a)
  \/ Conclude

ReviewSpec == ReviewInit /\ [][ReviewNext]_reviewVars

(* The event loop runs every coroutine that is ready, and every provider   *)
(* call ends, at the latest by its timeout.                                *)
ReviewFairSpec ==
  /\ ReviewSpec
  /\ \A a \in Agent : WF_reviewVars(Run(a) \/ RunFails(a) \/ Resume(a))
  /\ WF_reviewVars(Conclude)

-----------------------------------------------------------------------------
Done == event # "none"

(* s occurs in fs in one piece.                                            *)
InOnePiece(fs, s) ==
  \E o \in 0..Len(fs) : o + Len(s) <= Len(fs) /\ \A i \in DOMAIN s : fs[o + i] = s[i]

(* Nothing the rules found is lost silently: when a review is done, every  *)
(* selected agent is recorded as failed, or all its rules' findings are in *)
(* the review, whatever the budget, the providers and the model did        *)
(* (graph.py:66-84, base.py:148-175).                                      *)
NothingLostSilently ==
  Done => \A a \in Selected(Files) :
            node[a] = "failed" \/ (node[a] = "returned" /\ InOnePiece(findings, scan[a]))

(* The order in which parallel agents return decides nothing: the verdict  *)
(* on an issue is the verdict on what the one agent of its dimension       *)
(* reported, followed by the memory's insights (graph.py:167-182).         *)
OrderDecidesNothing ==
  Done => \A k \in Keys(findings) : \A a \in Agent :
    DimensionOf[a] = k[1] =>
      LET own == report[a] \o Insights[input]
      IN k \in Keys(own) /\ Item(findings, NoAdjustments, k) = Item(own, NoAdjustments, k)

(* An approved diff has no code in it, and no agent reported anything that *)
(* would be posted if its report were the whole review: joining reports    *)
(* merges no issue away (triage.py:153-155, graph.py:188-194).             *)
ApprovalIsHarmless ==
  event = "APPROVE" =>
    /\ \A f \in Files : ~IsCode(f)
    /\ \A a \in Agent : Posted(report[a], NoAdjustments) = {}

(* Every review ends, whatever fails.                                      *)
ReviewEnds == <>Done

-----------------------------------------------------------------------------
(* "only for eligible trivial PRs with a fully clean review" (graph.py:    *)
(* 188): no agent of an approved review failed.                            *)
ApprovalIsClean == event = "APPROVE" => \A a \in Agent : node[a] # "failed"
=============================================================================
