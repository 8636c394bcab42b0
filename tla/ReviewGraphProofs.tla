-------------------------- MODULE ReviewGraphProofs --------------------------
(***************************************************************************)
(* The review graph, for any set of agents, reviews, diffs, answers,       *)
(* budget and providers.                                                   *)
(*   - The router first, for every chain and every budget.  A call in      *)
(*     flight was prechecked against the charge of its start (Prechecked), *)
(*     so whatever the answer bills beyond the limit was charged to others *)
(*     meanwhile.                                                          *)
(*   - A review's steps are steps of the router or leave it alone, so what *)
(*     holds of one router holds of every review.                          *)
(*   - GInv: whatever ends an agent's model call, its rules' findings are  *)
(*     in the list from the moment its node returns.                       *)
(*   - AInv adds that the list is the agents' reports in some order and    *)
(*     nothing else: what the rules of AgentRules and the model may report *)
(*     is then known of every finding, and the same reports in another     *)
(*     order weigh the same.                                               *)
(***************************************************************************)
EXTENDS AgentReview, SumFacts

-----------------------------------------------------------------------------
(* The router.                                                             *)

Prechecked ==
  \A a \in Agent : call[a] = "calling" =>
    base[a] <= used /\ base[a] + reserved[a] <= Limit

RInv == RouterTypeOK /\ Prechecked /\ FailureExhaustsChain

LEMMA RouterInitInv == RouterInit => RInv
BY RouterAssumption DEF RouterInit, RInv, RouterTypeOK, Prechecked, FailureExhaustsChain, CallState

(* What one round of the loop leaves behind.                               *)
LEMMA TryNextKeeps ==
  ASSUME RInv, NEW a \in Agent, NextOrFail(a), UNCHANGED <<used, byAgent, crashed>>
  PROVE  RInv'
<1> USE RouterAssumption DEF RInv, RouterTypeOK, CallState
<1>1. CASE tried[a] < Providers
  <2>1. PICK cost \in 1..MaxCost :
          /\ call' = [call EXCEPT ![a] = IF Fits(cost) THEN "calling" ELSE "over_budget"]
          /\ tried' = [tried EXCEPT ![a] = @ + 1]
          /\ reserved' = [reserved EXCEPT ![a] = IF Fits(cost) THEN cost ELSE 0]
          /\ base' = [base EXCEPT ![a] = used]
    BY <1>1 DEF NextOrFail, TryNext
  <2>2. RouterTypeOK'
    BY <1>1, <2>1
  <2>3. Prechecked'
    BY <2>1 DEF Prechecked, Fits
  <2>4. FailureExhaustsChain'
    BY <2>1 DEF FailureExhaustsChain
  <2> QED
    BY <2>2, <2>3, <2>4
<1>2. CASE ~(tried[a] < Providers)
  <2>1. Fail(a) /\ tried[a] = Providers
    BY <1>2 DEF NextOrFail
  <2> QED
    BY <2>1 DEF Fail, Prechecked, FailureExhaustsChain
<1> QED
  BY <1>1, <1>2

LEMMA RouterStepInv == RInv /\ [RouterNext]_routerVars => RInv'
<1> SUFFICES ASSUME RInv, [RouterNext]_routerVars PROVE RInv'
  OBVIOUS
<1>1. CASE UNCHANGED routerVars
  BY <1>1 DEF RInv, RouterTypeOK, Prechecked, FailureExhaustsChain, routerVars
<1>2. ASSUME NEW a \in Agent, Complete(a) PROVE RInv'
  BY <1>2, TryNextKeeps DEF Complete
<1>3. ASSUME NEW a \in Agent, Answered(a) PROVE RInv'
  <2>1. PICK usage \in 0..(reserved[a] + Slack) :
          /\ used' = used + usage
          /\ byAgent' = [byAgent EXCEPT ![a] = @ + usage]
    BY <1>3 DEF Answered
  <2> USE RouterAssumption DEF RInv, RouterTypeOK, CallState
  <2>2. usage \in Nat
    OBVIOUS
  <2>3. RouterTypeOK'
    BY <1>3, <2>1, <2>2 DEF Answered
  <2>4. Prechecked'
    BY <1>3, <2>1, <2>2 DEF Answered, Prechecked
  <2>5. FailureExhaustsChain'
    BY <1>3 DEF Answered, FailureExhaustsChain
  <2> QED
    BY <2>3, <2>4, <2>5
<1>4. ASSUME NEW a \in Agent, ProviderFails(a) PROVE RInv'
  BY <1>4, TryNextKeeps DEF ProviderFails
<1>5. ASSUME NEW a \in Agent, ProviderBreaks(a) PROVE RInv'
  BY <1>5 DEF ProviderBreaks, Fail, RInv, RouterTypeOK, CallState, Prechecked, FailureExhaustsChain
<1> QED
  BY <1>1, <1>2, <1>3, <1>4, <1>5 DEF RouterNext, CallEnds

LEMMA RouterInvHolds == RouterSpec => []RInv
BY RouterInitInv, RouterStepInv, PTL DEF RouterSpec

(* A failed call has tried the whole chain, unless a provider broke.       *)
THEOREM FallbackIsComplete == RouterSpec => []FailureExhaustsChain
<1>1. RInv => FailureExhaustsChain
  BY DEF RInv
<1> QED
  BY RouterInvHolds, <1>1, PTL

(* An answer exceeds the limit by no more than what was charged to others  *)
(* while it was under way, and the provider's slack.                       *)
THEOREM OverspendNeedsOverlap == RouterSpec => OverspendIsOverlap
<1>1. RInv /\ [RouterNext]_routerVars => [ChargeOverlaps]_routerVars
  <2> SUFFICES ASSUME RInv, [RouterNext]_routerVars, NEW a \in Agent,
                      call[a] = "calling", call'[a] = "answered"
               PROVE  used' <= Limit + Slack + (used - base[a])
    BY DEF ChargeOverlaps
  <2>1. Answered(a)
    BY DEF RInv, RouterTypeOK, CallState, RouterNext, Complete, CallEnds, Answered, ProviderFails,
           ProviderBreaks, NextOrFail, TryNext, Fail, routerVars
  <2>2. PICK usage \in 0..(reserved[a] + Slack) : used' = used + usage
    BY <2>1 DEF Answered
  <2>3. base[a] + reserved[a] <= Limit
    BY DEF RInv, Prechecked
  <2> QED
    BY <2>2, <2>3, RouterAssumption DEF RInv, RouterTypeOK
<1> QED
  BY RouterInvHolds, <1>1, PTL DEF RouterSpec, OverspendIsOverlap

RefusalStays == \A a \in Agent : call[a] = "over_budget" => call'[a] = "over_budget"

(* No fallback is tried for an agent the budget refused.                   *)
THEOREM RefusalIsFinal == RouterSpec => BudgetIsFinal
<1>1. RInv /\ [RouterNext]_routerVars => [RefusalStays]_routerVars
  BY DEF RInv, RouterTypeOK, CallState, RouterNext, Complete, CallEnds, Answered, ProviderFails,
         ProviderBreaks, NextOrFail, TryNext, Fail, routerVars, RefusalStays
<1> QED
  BY RouterInvHolds, <1>1, PTL DEF RouterSpec, BudgetIsFinal, RefusalStays

-----------------------------------------------------------------------------
(* The router within the review.                                           *)

LEMMA ReviewStepIsRouterStep == [ReviewNext]_reviewVars => [RouterNext]_routerVars
<1> SUFFICES ASSUME [ReviewNext]_reviewVars PROVE [RouterNext]_routerVars
  OBVIOUS
<1>1. ASSUME NEW a \in Agent, Run(a) PROVE [RouterNext]_routerVars
  BY <1>1 DEF Run, RouterNext
<1>2. ASSUME NEW a \in Agent, Resume(a) PROVE [RouterNext]_routerVars
  BY <1>2 DEF Resume, RouterNext
<1>3. ASSUME NEW a \in Agent, RunFails(a) PROVE [RouterNext]_routerVars
  BY <1>3 DEF RunFails
<1>4. CASE Conclude
  BY <1>4 DEF Conclude
<1>5. CASE UNCHANGED reviewVars
  BY <1>5 DEF reviewVars
<1> QED
  BY <1>1, <1>2, <1>3, <1>4, <1>5 DEF ReviewNext

(* A review uses its router as LLMRouter specifies.                        *)
LEMMA ReviewImplementsRouter == ReviewSpec => RouterSpec
<1>1. ReviewInit => RouterInit
  BY DEF ReviewInit
<1> QED
  BY <1>1, ReviewStepIsRouterStep, PTL DEF ReviewSpec, RouterSpec

(* So the budget of a review is exceeded only by what overlapping calls    *)
(* were charged, and a refused agent stays refused.                        *)
THEOREM ReviewKeepsBudget == ReviewSpec => OverspendIsOverlap /\ BudgetIsFinal
BY ReviewImplementsRouter, OverspendNeedsOverlap, RefusalIsFinal

-----------------------------------------------------------------------------
(* Findings in one piece.                                                  *)

LEMMA ConcatFacts ==
  ASSUME NEW fs \in Seq(Finding), NEW gs \in Seq(Finding)
  PROVE  /\ fs \o gs \in Seq(Finding) /\ Len(fs \o gs) = Len(fs) + Len(gs)
         /\ Len(fs) \in Nat /\ Len(gs) \in Nat
         /\ DOMAIN fs = 1..Len(fs) /\ DOMAIN gs = 1..Len(gs)
         /\ \A i \in 1..Len(fs) : (fs \o gs)[i] = fs[i]
         /\ \A i \in 1..Len(gs) : (fs \o gs)[Len(fs) + i] = gs[i]
OBVIOUS

LEMMA ConcatParts ==
  ASSUME NEW S, NEW fs \in Seq(S), NEW gs \in Seq(S), NEW i \in DOMAIN (fs \o gs)
  PROVE  \/ i \in DOMAIN fs /\ (fs \o gs)[i] = fs[i]
         \/ i - Len(fs) \in DOMAIN gs /\ (fs \o gs)[i] = gs[i - Len(fs)]
OBVIOUS

LEMMA ContainsGrows ==
  ASSUME NEW fs \in Seq(Finding), NEW gs \in Seq(Finding), NEW s \in Seq(Finding), InOnePiece(fs, s)
  PROVE  InOnePiece(fs \o gs, s)
<1>1. PICK o \in 0..Len(fs) : o + Len(s) <= Len(fs) /\ \A i \in DOMAIN s : fs[o + i] = s[i]
  BY DEF InOnePiece
<1>2. Len(s) \in Nat /\ DOMAIN s = 1..Len(s)
  OBVIOUS
<1>3. \A i \in DOMAIN s : o + i \in 1..Len(fs)
  BY <1>1, <1>2, ConcatFacts
<1>4. o \in 0..Len(fs \o gs) /\ o + Len(s) <= Len(fs \o gs)
  BY <1>1, <1>2, ConcatFacts
<1>5. \A i \in DOMAIN s : (fs \o gs)[o + i] = s[i]
  BY <1>1, <1>3, ConcatFacts
<1> QED
  BY <1>4, <1>5 DEF InOnePiece

LEMMA ContainsLast ==
  ASSUME NEW fs \in Seq(Finding), NEW s \in Seq(Finding)
  PROVE  InOnePiece(fs \o s, s)
<1>1. Len(fs) \in 0..Len(fs \o s) /\ Len(fs) + Len(s) <= Len(fs \o s)
  BY ConcatFacts
<1>2. \A i \in DOMAIN s : (fs \o s)[Len(fs) + i] = s[i]
  BY ConcatFacts
<1> QED
  BY <1>1, <1>2 DEF InOnePiece

LEMMA ContainsFirst ==
  ASSUME NEW fs \in Seq(Finding), NEW s \in Seq(Finding), NEW t \in Seq(Finding)
  PROVE  InOnePiece(fs \o (s \o t), s)
<1>1. fs \o (s \o t) = (fs \o s) \o t /\ fs \o s \in Seq(Finding)
  OBVIOUS
<1>2. InOnePiece(fs \o s, s)
  BY ContainsLast
<1> QED
  BY <1>1, <1>2, ContainsGrows

-----------------------------------------------------------------------------
(* Nothing is lost.                                                        *)

NodesOK ==
  /\ \A a \in Selected(Files) : node[a] # "skipped"
  /\ Done => \A a \in Agent : node[a] \in {"skipped", "returned", "failed"}

RulesReported == \A a \in Agent : node[a] = "returned" => InOnePiece(findings, scan[a])

GInv == RInv /\ ReviewTypeOK /\ NodesOK /\ RulesReported

LEMMA ReviewInitInv == ReviewInit => GInv
<1> SUFFICES ASSUME ReviewInit PROVE GInv
  OBVIOUS
<1>1. RInv
  BY RouterInitInv DEF ReviewInit
<1>2. ReviewTypeOK
  BY <1>1 DEF ReviewInit, ReviewTypeOK, NodeState, RInv
<1>3. NodesOK
  BY ReviewAssumption DEF ReviewInit, NodesOK, Done, Files
<1>4. RulesReported
  BY DEF ReviewInit, RulesReported
<1> QED
  BY <1>1, <1>2, <1>3, <1>4 DEF GInv

(* What a node's step leaves behind: it returns its rules' findings first, *)
(* or it fails, or it waits.                                               *)
LEMMA EnrichIs ==
  ASSUME input \in Inputs, NEW a \in Agent, NEW rules \in Seq(Finding), Enrich(a, rules)
  PROVE  \/ Await(a) \/ Raise(a) \/ Return(a, rules)
         \/ \E model \in Seq(Finding) : Return(a, rules \o model)
BY ReviewAssumption DEF Enrich

LEMMA NodeStepKeeps ==
  ASSUME GInv, RInv', NEW a \in Agent, node[a] \in {"ready", "awaiting"},
         NEW rules \in Seq(Finding), scan' = [scan EXCEPT ![a] = rules],
         UNCHANGED <<input, event>>,
         \/ Await(a) \/ Raise(a) \/ Return(a, rules)
         \/ \E model \in Seq(Finding) : Return(a, rules \o model)
  PROVE  GInv'
<1>0. /\ findings \in Seq(Finding) /\ scan \in [Agent -> Seq(Finding)]
      /\ node \in [Agent -> NodeState] /\ report \in [Agent -> Seq(Finding)] /\ input \in Inputs
      /\ event \in {"none", "APPROVE", "REQUEST_CHANGES", "COMMENT"}
  BY DEF GInv, ReviewTypeOK
<1>1. scan' \in [Agent -> Seq(Finding)] /\ scan'[a] = rules /\ \A b \in Agent \ {a} : scan'[b] = scan[b]
  BY <1>0
<1>2. ~Done
  BY DEF GInv, NodesOK
<1>3. Selected(Files) \subseteq Agent /\ Files' = Files
  BY <1>0, ReviewAssumption DEF Files
<1>4. ASSUME NEW fs \in Seq(Finding), Return(a, fs), InOnePiece(findings \o fs, rules) PROVE GInv'
  <2>1. findings' = findings \o fs /\ findings' \in Seq(Finding)
    BY <1>0, <1>4 DEF Return
  <2>2. node' = [node EXCEPT ![a] = "returned"] /\ report' = [report EXCEPT ![a] = fs]
    BY <1>4 DEF Return
  <2>3. ReviewTypeOK'
    BY <1>0, <1>1, <2>1, <2>2 DEF ReviewTypeOK, NodeState, RInv
  <2>4. NodesOK'
    BY <1>0, <1>2, <1>3, <2>2 DEF NodesOK, Done, GInv
  <2>5. RulesReported'
    <3> SUFFICES ASSUME NEW b \in Agent, node'[b] = "returned"
                 PROVE  InOnePiece(findings', scan'[b])
      BY DEF RulesReported
    <3>1. CASE b = a
      BY <1>1, <1>4, <2>1, <3>1
    <3>2. CASE b # a
      <4>1. node[b] = "returned"
        BY <1>0, <2>2, <3>2
      <4>2. InOnePiece(findings, scan[b]) /\ scan[b] \in Seq(Finding)
        BY <1>0, <4>1 DEF GInv, RulesReported
      <4> QED
        BY <1>0, <1>1, <1>4, <2>1, <3>2, <4>2, ContainsGrows
    <3> QED
      BY <3>1, <3>2
  <2> QED
    BY <2>3, <2>4, <2>5 DEF GInv
<1>5. ASSUME NEW s \in {"awaiting", "failed"}, node' = [node EXCEPT ![a] = s],
             UNCHANGED <<report, findings>>
      PROVE  GInv'
  <2>1. ReviewTypeOK'
    BY <1>0, <1>1, <1>5 DEF ReviewTypeOK, NodeState, RInv
  <2>2. NodesOK'
    BY <1>0, <1>2, <1>3, <1>5 DEF NodesOK, Done, GInv
  <2>3. RulesReported'
    BY <1>0, <1>1, <1>5 DEF RulesReported, GInv
  <2> QED
    BY <2>1, <2>2, <2>3 DEF GInv
<1>6. CASE Await(a)
  BY <1>5, <1>6 DEF Await
<1>7. CASE Raise(a)
  BY <1>5, <1>7 DEF Raise
<1>8. CASE Return(a, rules)
  BY <1>0, <1>4, <1>8, ContainsLast
<1>9. ASSUME NEW model \in Seq(Finding), Return(a, rules \o model) PROVE GInv'
  <2>1. rules \o model \in Seq(Finding) /\ InOnePiece(findings \o (rules \o model), rules)
    BY <1>0, ContainsFirst
  <2> QED
    BY <1>4, <1>9, <2>1
<1> QED
  BY <1>6, <1>7, <1>8, <1>9

LEMMA ReviewStepInv == GInv /\ [ReviewNext]_reviewVars => GInv'
<1> SUFFICES ASSUME GInv, [ReviewNext]_reviewVars PROVE GInv'
  OBVIOUS
<1>0. RInv'
  BY ReviewStepIsRouterStep, RouterStepInv DEF GInv
<1>1. scan \in [Agent -> Seq(Finding)] /\ input \in Inputs
  BY DEF GInv, ReviewTypeOK
<1>2. ASSUME NEW a \in Agent, Run(a) PROVE GInv'
  <2> DEFINE rules == Scans[a, input]
  <2>1. /\ scan' = [scan EXCEPT ![a] = rules]
        /\ Enrich(a, rules) \/ Return(a, rules)
    BY <1>2 DEF Run
  <2>2. rules \in Seq(Finding)
    BY <1>1, ReviewAssumption
  <2>3. node[a] \in {"ready", "awaiting"} /\ UNCHANGED <<input, event>>
    BY <1>2 DEF Run
  <2>4. \/ Await(a) \/ Raise(a) \/ Return(a, rules)
        \/ \E model \in Seq(Finding) : Return(a, rules \o model)
    BY <1>1, <2>1, <2>2, EnrichIs
  <2> QED
    BY <1>0, <2>1, <2>2, <2>3, <2>4, NodeStepKeeps
<1>3. ASSUME NEW a \in Agent, RunFails(a) PROVE GInv'
  <2>1. scan' = [scan EXCEPT ![a] = scan[a]] /\ scan[a] \in Seq(Finding)
    BY <1>1, <1>3 DEF RunFails
  <2>2. node[a] \in {"ready", "awaiting"} /\ UNCHANGED <<input, event>> /\ Raise(a)
    BY <1>3 DEF RunFails
  <2> QED
    BY <1>0, <2>1, <2>2, NodeStepKeeps
<1>4. ASSUME NEW a \in Agent, Resume(a) PROVE GInv'
  <2>1. scan' = [scan EXCEPT ![a] = scan[a]] /\ scan[a] \in Seq(Finding)
    BY <1>1, <1>4 DEF Resume
  <2>2. node[a] \in {"ready", "awaiting"} /\ UNCHANGED <<input, event>> /\ Enrich(a, scan[a])
    BY <1>4 DEF Resume
  <2>3. \/ Await(a) \/ Raise(a) \/ Return(a, scan[a])
        \/ \E model \in Seq(Finding) : Return(a, scan[a] \o model)
    BY <1>1, <2>1, <2>2, EnrichIs
  <2> QED
    BY <1>0, <2>1, <2>2, <2>3, NodeStepKeeps
<1>5. CASE Conclude
  <2> DEFINE insights == Insights[input]
  <2>1. findings' = findings \o insights /\ event' = Event(Files, findings')
    BY <1>5 DEF Conclude
  <2>2. findings \in Seq(Finding) /\ insights \in Seq(Finding) /\ findings' \in Seq(Finding)
    <3>1. findings \in Seq(Finding)
      BY DEF GInv, ReviewTypeOK
    <3>2. insights \in Seq(Finding)
      BY <1>1, ReviewAssumption
    <3> QED
      BY <2>1, <3>1, <3>2
  <2>3. event' \in {"APPROVE", "REQUEST_CHANGES", "COMMENT"}
    BY <2>1 DEF Event
  <2>4. UNCHANGED <<input, node, scan, report>>
    BY <1>5 DEF Conclude
  <2>5. ReviewTypeOK'
    BY <1>0, <2>2, <2>3, <2>4 DEF GInv, ReviewTypeOK, RInv
  <2>6. NodesOK'
    BY <1>5, <2>4 DEF GInv, NodesOK, Conclude, Files
  <2>7. RulesReported'
    BY <1>1, <2>1, <2>2, <2>4, ContainsGrows DEF GInv, RulesReported
  <2> QED
    BY <1>0, <2>5, <2>6, <2>7 DEF GInv
<1>6. CASE UNCHANGED reviewVars
  BY <1>0, <1>6 DEF reviewVars, nodeVars, GInv, ReviewTypeOK, RInv, NodesOK, Done, RulesReported, Files
<1> QED
  BY <1>2, <1>3, <1>4, <1>5, <1>6 DEF ReviewNext

LEMMA ReviewInvHolds == ReviewSpec => []GInv
BY ReviewInitInv, ReviewStepInv, PTL DEF ReviewSpec

(* The review's state is well typed.                                       *)
THEOREM ReviewTypes == ReviewSpec => []ReviewTypeOK
<1>1. GInv => ReviewTypeOK
  BY DEF GInv
<1> QED
  BY ReviewInvHolds, <1>1, PTL

(* A finished review has every rule's findings, or says whose it lacks.    *)
THEOREM NothingIsLost == ReviewSpec => []NothingLostSilently
<1>1. GInv => NothingLostSilently
  <2> SUFFICES ASSUME GInv, Done, NEW a \in Selected(Files), node[a] # "failed"
               PROVE  node[a] = "returned" /\ InOnePiece(findings, scan[a])
    BY DEF NothingLostSilently
  <2>1. a \in Agent
    BY ReviewAssumption DEF GInv, ReviewTypeOK, Files
  <2> QED
    BY <2>1 DEF GInv, NodesOK, RulesReported
<1> QED
  BY ReviewInvHolds, <1>1, PTL

-----------------------------------------------------------------------------
(* Lists: what fails of a list fails at a first place.                     *)

(* g holds what FlattenSeq has put together after each of the first n      *)
(* parts of d.                                                             *)
FlattensTo(d, n, g) == g = [i \in 1..n |-> IF i = 1 THEN d[1] ELSE g[i - 1] \o d[i]]

LEMMA FlattenStep ==
  ASSUME NEW d, NEW n \in Nat, NEW g, FlattensTo(d, n, g)
  PROVE  \E h : FlattensTo(d, n + 1, h)
<1> DEFINE h == [i \in 1..(n + 1) |->
                   IF i = n + 1 THEN (IF i = 1 THEN d[1] ELSE g[n] \o d[i]) ELSE g[i]]
<1>1. \A i \in 1..n : h[i] = g[i]
  OBVIOUS
<1>2. \A i \in 1..(n + 1) : h[i] = IF i = 1 THEN d[1] ELSE h[i - 1] \o d[i]
  <2> SUFFICES ASSUME NEW i \in 1..(n + 1)
               PROVE  h[i] = IF i = 1 THEN d[1] ELSE h[i - 1] \o d[i]
    OBVIOUS
  <2>1. CASE i = n + 1
    BY <1>1, <2>1
  <2>2. CASE i # n + 1
    <3>1. i \in 1..n /\ (i # 1 => i - 1 \in 1..n)
      BY <2>2
    <3>2. g[i] = IF i = 1 THEN d[1] ELSE g[i - 1] \o d[i]
      BY <3>1 DEF FlattensTo
    <3> QED
      BY <1>1, <3>1, <3>2
  <2> QED
    BY <2>1, <2>2
<1>3. h = [i \in 1..(n + 1) |-> h[i]]
  OBVIOUS
<1> HIDE DEF h
<1>4. FlattensTo(d, n + 1, h)
  BY <1>2, <1>3 DEF FlattensTo
<1> QED
  BY <1>4

LEMMA FlattenExists ==
  ASSUME NEW d, NEW n \in Nat
  PROVE  \E g : FlattensTo(d, n, g)
<1> DEFINE Bad == {m \in Nat : ~\E g : FlattensTo(d, m, g)}
<1>1. SUFFICES ASSUME Bad # {} PROVE FALSE
  OBVIOUS
<1>2. PICK m \in Bad : \A k \in Bad : m <= k
  BY <1>1, LeastExists
<1>3. m # 0
  <2>1. FlattensTo(d, 0, [i \in {} |-> 0])
    <3>1. 1..0 = {}
      OBVIOUS
    <3> QED
      BY <3>1 DEF FlattensTo
  <2> QED
    BY <2>1
<1>4. m - 1 \in Nat /\ m - 1 \notin Bad
  BY <1>2, <1>3
<1>5. PICK g : FlattensTo(d, m - 1, g)
  BY <1>4
<1>6. (m - 1) + 1 = m
  OBVIOUS
<1>7. \E h : FlattensTo(d, m, h)
  BY <1>4, <1>5, <1>6, FlattenStep
<1> QED
  BY <1>7

LEMMA FlattenIs ==
  ASSUME NEW S, NEW d \in Seq(Seq(S)), d # <<>>
  PROVE  \E g : FlattensTo(d, Len(d), g) /\ FlattenSeq(d) = g[Len(d)]
<1>1. Len(d) \in Nat /\ Len(d) # 0
  OBVIOUS
<1> DEFINE F == CHOOSE f : f = [i \in 1..Len(d) |-> IF i = 1 THEN d[i] ELSE f[i - 1] \o d[i]]
<1>2. PICK g : FlattensTo(d, Len(d), g)
  BY <1>1, FlattenExists
<1>3. \A f : FlattensTo(d, Len(d), f)
               <=> f = [i \in 1..Len(d) |-> IF i = 1 THEN d[i] ELSE f[i - 1] \o d[i]]
  BY DEF FlattensTo
<1>4. F = [i \in 1..Len(d) |-> IF i = 1 THEN d[i] ELSE F[i - 1] \o d[i]]
  BY <1>2, <1>3
<1>5. FlattenSeq(d) = F[Len(d)]
  BY <1>1 DEF FlattenSeq
<1> QED
  BY <1>3, <1>4, <1>5

LEMMA ConcatElements ==
  ASSUME NEW S, NEW s \in Seq(S), NEW t \in Seq(S)
  PROVE  ToSet(s \o t) = ToSet(s) \cup ToSet(t)
<1>1. /\ DOMAIN s = 1..Len(s) /\ DOMAIN t = 1..Len(t) /\ DOMAIN (s \o t) = 1..(Len(s) + Len(t))
      /\ Len(s) \in Nat /\ Len(t) \in Nat
      /\ \A i \in 1..Len(s) : (s \o t)[i] = s[i]
      /\ \A i \in 1..Len(t) : (s \o t)[Len(s) + i] = t[i]
  OBVIOUS
<1>2. \A i \in 1..(Len(s) + Len(t)) : i \in 1..Len(s) \/ \E j \in 1..Len(t) : i = Len(s) + j
  <2> SUFFICES ASSUME NEW i \in 1..(Len(s) + Len(t)), i \notin 1..Len(s)
               PROVE  \E j \in 1..Len(t) : i = Len(s) + j
    OBVIOUS
  <2>1. i - Len(s) \in 1..Len(t) /\ i = Len(s) + (i - Len(s))
    BY <1>1
  <2> QED
    BY <2>1
<1>3. \A i \in 1..Len(s) : i \in DOMAIN (s \o t)
  BY <1>1
<1>4. \A i \in 1..Len(t) : Len(s) + i \in DOMAIN (s \o t)
  BY <1>1
<1>5. ToSet(s \o t) \subseteq ToSet(s) \cup ToSet(t)
  BY <1>1, <1>2 DEF ToSet
<1>6. ToSet(s) \cup ToSet(t) \subseteq ToSet(s \o t)
  BY <1>1, <1>3, <1>4 DEF ToSet
<1> QED
  BY <1>5, <1>6

(* Nothing is added and nothing dropped: the elements of a flattened list  *)
(* are those of its parts.                                                 *)
LEMMA FlattenElements ==
  ASSUME NEW S, NEW d \in Seq(Seq(S))
  PROVE  /\ FlattenSeq(d) \in Seq(S)
         /\ ToSet(FlattenSeq(d)) = UNION {ToSet(d[i]) : i \in DOMAIN d}
<1>1. CASE d = <<>>
  <2>1. FlattenSeq(d) = <<>> /\ DOMAIN d = {}
    BY <1>1 DEF FlattenSeq
  <2> QED
    BY <2>1 DEF ToSet
<1>2. CASE d # <<>>
  <2>1. PICK g : FlattensTo(d, Len(d), g) /\ FlattenSeq(d) = g[Len(d)]
    BY <1>2, FlattenIs
  <2>2. Len(d) \in Nat /\ Len(d) # 0 /\ DOMAIN d = 1..Len(d) /\ \A i \in 1..Len(d) : d[i] \in Seq(S)
    BY <1>2
  <2> DEFINE Good(n) == /\ g[n] \in Seq(S)
                        /\ ToSet(g[n]) = UNION {ToSet(d[i]) : i \in 1..n}
             Bad == {n \in 1..Len(d) : ~Good(n)}
  <2>3. SUFFICES Bad = {}
    <3>1. Len(d) \in 1..Len(d)
      BY <2>2
    <3>2. Good(Len(d))
      <4> HIDE DEF Good
      <4> QED
        BY <2>3, <3>1
    <3> QED
      BY <2>1, <2>2, <3>2
  <2> SUFFICES ASSUME Bad # {} PROVE FALSE
    OBVIOUS
  <2>4. PICK m \in Bad : \A k \in Bad : m <= k
    <3>1. Bad \subseteq Nat
      OBVIOUS
    <3> HIDE DEF Bad
    <3> QED
      BY <3>1, LeastExists
  <2>5. m \in 1..Len(d) /\ ~Good(m)
    OBVIOUS
  <2>6. g[m] = IF m = 1 THEN d[1] ELSE g[m - 1] \o d[m]
    BY <2>1, <2>5 DEF FlattensTo
  <2>7. CASE m = 1
    <3>1. 1..m = {1}
      BY <2>7
    <3> QED
      BY <2>2, <2>5, <2>6, <2>7, <3>1
  <2>8. CASE m # 1
    <3>1. m - 1 \in 1..Len(d) /\ ~(m <= m - 1)
      BY <2>2, <2>5, <2>8
    <3>2. Good(m - 1)
      BY <2>4, <3>1
    <3>3. 1..m = 1..(m - 1) \cup {m}
      BY <2>5, <2>8
    <3>4. UNION {ToSet(d[i]) : i \in 1..m} = (UNION {ToSet(d[i]) : i \in 1..(m - 1)}) \cup ToSet(d[m])
      BY <3>3
    <3>5. g[m - 1] \in Seq(S) /\ d[m] \in Seq(S)
      BY <2>2, <2>5, <3>2
    <3>6. ToSet(g[m - 1] \o d[m]) = ToSet(g[m - 1]) \cup ToSet(d[m])
      BY <3>5, ConcatElements
    <3>7. Good(m)
      <4> HIDE DEF Bad
      <4>1. g[m] = g[m - 1] \o d[m]
        BY <2>6, <2>8
      <4>2. g[m] \in Seq(S)
        BY <3>5, <4>1
      <4>3. ToSet(g[m]) = UNION {ToSet(d[i]) : i \in 1..m}
        BY <3>2, <3>4, <3>6, <4>1
      <4> QED
        BY <4>2, <4>3
    <3> QED
      BY <2>5, <3>7
  <2> QED
    BY <2>7, <2>8
<1> QED
  BY <1>1, <1>2

-----------------------------------------------------------------------------
(* The verdict on an issue of a list of findings.                          *)

LEMMA WeightIsNat == \A s \in Severity : SeverityWeight[s] \in 0..12
BY DEF Severity, SeverityWeight

(* One number for the order of Stronger.                                   *)
Rank(f) == SeverityWeight[f.sev] * 101 + f.conf

LEMMA RankOrders ==
  ASSUME NEW f \in Finding, NEW g \in Finding
  PROVE  Rank(f) \in Nat /\ Rank(f) <= 1312 /\ (Stronger(f, g) <=> Rank(f) > Rank(g))
<1>1. /\ SeverityWeight[f.sev] \in 0..12 /\ SeverityWeight[g.sev] \in 0..12
      /\ f.conf \in 0..100 /\ g.conf \in 0..100
  BY WeightIsNat DEF Finding
<1>2. PICK s \in 0..12, t \in 0..12, c \in 0..100, d \in 0..100 :
        s = SeverityWeight[f.sev] /\ t = SeverityWeight[g.sev] /\ c = f.conf /\ d = g.conf
  BY <1>1
<1>3. Rank(f) = s * 101 + c /\ Rank(g) = t * 101 + d
  BY <1>2 DEF Rank
<1>4. Stronger(f, g) <=> s > t \/ (s = t /\ c > d)
  BY <1>2 DEF Stronger
<1>5. s * 101 + c \in Nat /\ s * 101 + c <= 1312 /\ (s > t \/ (s = t /\ c > d) <=> s * 101 + c > t * 101 + d)
  OBVIOUS
<1> QED
  BY <1>3, <1>4, <1>5

(* Of numbered things with bounded ranks, one is the first of the highest. *)
LEMMA FirstHighest ==
  ASSUME NEW G \in SUBSET Nat, G # {}, NEW bound \in Nat, NEW r \in [G -> Nat],
         \A i \in G : r[i] <= bound
  PROVE  \E i \in G : \A j \in G : r[j] <= r[i] /\ (j < i => r[j] < r[i])
<1> DEFINE T == {bound - r[i] : i \in G}
<1>1. \A i \in G : r[i] \in Nat /\ bound - r[i] \in Nat
  OBVIOUS
<1>2. T \subseteq Nat /\ T # {}
  BY <1>1
<1>3. PICK t \in T : \A u \in T : t <= u
  <2> HIDE DEF T
  <2> QED
    BY <1>2, LeastExists
<1> DEFINE B == {i \in G : bound - r[i] = t}
<1>4. B \subseteq Nat /\ B # {}
  BY <1>3
<1>5. PICK i \in B : \A j \in B : i <= j
  <2> HIDE DEF B
  <2> QED
    BY <1>4, LeastExists
<1>6. ASSUME NEW j \in G
      PROVE  r[j] <= r[i] /\ (j < i => r[j] < r[i])
  <2>1. t = bound - r[i] /\ t <= bound - r[j]
    BY <1>3, <1>5
  <2>2. i \in Nat /\ j \in Nat /\ r[i] \in Nat /\ r[j] \in Nat
    BY <1>1, <1>5
  <2>3. r[j] <= r[i]
    BY <2>1, <2>2
  <2>4. r[j] = r[i] => i <= j
    BY <1>5, <2>1
  <2> QED
    BY <2>2, <2>3, <2>4
<1> QED
  BY <1>5, <1>6

LEMMA RepExists ==
  ASSUME NEW fs \in Seq(Finding), NEW k \in Keys(fs)
  PROVE  \E i \in DOMAIN fs : IsRep(fs, k, i)
<1>1. PICK G : G = Group(fs, k)
  OBVIOUS
<1>2. G # {} /\ G \in SUBSET Nat /\ G \subseteq DOMAIN fs /\ \A i \in G : fs[i] \in Finding
  BY <1>1 DEF Group, Keys
<1>3. PICK r : r = [i \in G |-> Rank(fs[i])]
  OBVIOUS
<1>4. ASSUME NEW i \in G, NEW j \in G
      PROVE  r[i] \in Nat /\ r[j] \in Nat /\ r[i] <= 1312 /\ (Stronger(fs[i], fs[j]) <=> r[i] > r[j])
  BY <1>2, <1>3, RankOrders
<1>5. r \in [G -> Nat] /\ \A i \in G : r[i] <= 1312
  <2>1. \A i \in G : r[i] \in Nat /\ r[i] <= 1312
    BY <1>4
  <2> QED
    BY <1>3, <2>1
<1>6. PICK i \in G : \A j \in G : r[j] <= r[i] /\ (j < i => r[j] < r[i])
  <2>1. PICK bound \in Nat : bound = 1312
    OBVIOUS
  <2>2. r \in [G -> Nat] /\ \A i \in G : r[i] <= bound
    BY <1>5, <2>1
  <2> QED
    BY <1>2, <2>2, FirstHighest
<1>7. ASSUME NEW j \in G
      PROVE  ~Stronger(fs[j], fs[i]) /\ (j < i => Stronger(fs[i], fs[j]))
  <2>1. r[j] <= r[i] /\ (j < i => r[j] < r[i])
    BY <1>6
  <2>2. r[i] \in Nat /\ r[j] \in Nat
    BY <1>4
  <2>3. ~(r[j] > r[i]) /\ (j < i => r[i] > r[j])
    BY <2>1, <2>2
  <2> QED
    BY <1>4, <2>3
<1> QED
  BY <1>1, <1>2, <1>6, <1>7 DEF IsRep

LEMMA RepIs ==
  ASSUME NEW fs \in Seq(Finding), NEW k, NEW i, IsRep(fs, k, i)
  PROVE  Rep(fs, k) = fs[i]
<1> DEFINE c == CHOOSE j \in Group(fs, k) : IsRep(fs, k, j)
<1>1. i \in Group(fs, k)
  BY DEF IsRep
<1>2. IsRep(fs, k, c) /\ c \in Group(fs, k)
  BY <1>1
<1>3. i \in 1..Len(fs) /\ c \in 1..Len(fs)
  <2> HIDE DEF c
  <2> QED
    BY <1>1, <1>2 DEF Group
<1>4. c = i
  <2> HIDE DEF c
  <2> QED
    BY <1>1, <1>2, <1>3 DEF IsRep
<1> QED
  BY <1>4 DEF Rep

(* Where own lies within fs, in order and with every finding of the issue, *)
(* the verdict on the issue is that on own alone.                          *)
LEMMA SameVerdict ==
  ASSUME NEW fs \in Seq(Finding), NEW own \in Seq(Finding), NEW k \in Keys(fs),
         NEW h \in [DOMAIN own -> DOMAIN fs],
         \A i, j \in DOMAIN own : i < j => h[i] < h[j],
         \A i \in DOMAIN own : fs[h[i]] = own[i],
         \A j \in Group(fs, k) : \E i \in DOMAIN own : j = h[i]
  PROVE  k \in Keys(own) /\ Item(fs, NoAdjustments, k) = Item(own, NoAdjustments, k)
<1>0. DOMAIN own \subseteq Nat /\ DOMAIN fs \subseteq Nat
  OBVIOUS
<1>1. \A i \in DOMAIN own : i \in Group(own, k) <=> h[i] \in Group(fs, k)
  BY DEF Group
<1>2. k \in Keys(own)
  <2>1. PICK j \in DOMAIN fs : DedupeKey(fs[j]) = k
    BY DEF Keys
  <2>2. PICK i \in DOMAIN own : j = h[i]
    BY <2>1 DEF Group
  <2> QED
    BY <2>1, <2>2 DEF Keys
<1>3. PICK i \in DOMAIN own : IsRep(own, k, i)
  BY <1>2, RepExists
<1>4. i \in Group(own, k) /\ h[i] \in Group(fs, k) /\ fs[h[i]] = own[i] /\ h[i] \in DOMAIN fs
  BY <1>1, <1>3 DEF IsRep
<1>5. ASSUME NEW j \in Group(fs, k)
      PROVE  ~Stronger(fs[j], fs[h[i]]) /\ (j < h[i] => Stronger(fs[h[i]], fs[j]))
  <2>1. PICK m \in DOMAIN own : j = h[m]
    BY <1>5
  <2>2. m \in Group(own, k) /\ fs[j] = own[m]
    BY <1>1, <1>5, <2>1
  <2>3. ~Stronger(own[m], own[i]) /\ (m < i => Stronger(own[i], own[m]))
    BY <1>3, <2>2 DEF IsRep
  <2>4. j < h[i] => m < i
    <3> SUFFICES ASSUME j < h[i], ~(m < i) PROVE FALSE
      OBVIOUS
    <3>1. i < m \/ i = m
      BY <1>0, <1>3, <2>1
    <3>2. h[i] < j \/ h[i] = j
      BY <1>3, <2>1, <3>1
    <3> QED
      BY <1>0, <1>4, <2>1, <3>2
  <2> QED
    BY <1>4, <2>2, <2>3, <2>4
<1>6. IsRep(fs, k, h[i])
  BY <1>4, <1>5 DEF IsRep
<1>7. Rep(fs, k) = Rep(own, k)
  BY <1>3, <1>4, <1>6, RepIs
<1>8. {fs[j].agent : j \in Group(fs, k)} = {own[j].agent : j \in Group(own, k)}
  <2>1. \A j \in Group(fs, k) : \E m \in Group(own, k) : fs[j] = own[m]
    BY <1>1
  <2>2. \A m \in Group(own, k) : h[m] \in Group(fs, k) /\ fs[h[m]] = own[m]
    BY <1>1 DEF Group
  <2> QED
    BY <2>1, <2>2
<1>9. Agreement(fs, k) = Agreement(own, k)
  BY <1>8 DEF Agreement
<1> QED
  BY <1>2, <1>7, <1>9 DEF Item

-----------------------------------------------------------------------------
(* The findings of a review are its agents' reports, one after the other,  *)
(* then the memory's insights.                                             *)

LEMMA OneAgentPerDimension ==
  \A a, b \in Reviewers : DimensionOf[a] = DimensionOf[b] => a = b
BY DEF Reviewers, DimensionOf

(* What agent a may report.                                                *)
Reports(a, in) == {Scans[a, in]} \cup {Scans[a, in] \o model : model \in Answers[a, in]}

LEMMA ReportsFacts ==
  ASSUME NEW a \in Agent, NEW in \in Inputs, NEW s \in Reports(a, in)
  PROVE  /\ s \in Seq(Finding)
         /\ \A i \in DOMAIN s : RuleOf(s[i], a) \/ ModelOf(s[i], a)
<1>1. PICK scan_a : scan_a = Scans[a, in]
  OBVIOUS
<1>2. scan_a \in Seq(Finding) /\ \A i \in DOMAIN scan_a : RuleOf(scan_a[i], a)
  BY <1>1, ReviewAssumption
<1>3. ASSUME NEW model \in Answers[a, in], s = scan_a \o model
      PROVE  /\ s \in Seq(Finding)
             /\ \A i \in DOMAIN s : RuleOf(s[i], a) \/ ModelOf(s[i], a)
  <2>1. model \in Seq(Finding) /\ \A i \in DOMAIN model : ModelOf(model[i], a)
    BY <1>3, ReviewAssumption
  <2>2. ASSUME NEW i \in DOMAIN s PROVE RuleOf(s[i], a) \/ ModelOf(s[i], a)
    <3>1. \/ i \in DOMAIN scan_a /\ s[i] = scan_a[i]
          \/ i - Len(scan_a) \in DOMAIN model /\ s[i] = model[i - Len(scan_a)]
      BY <1>2, <1>3, <2>1, ConcatParts
    <3> QED
      BY <1>2, <2>1, <3>1
  <2>3. s \in Seq(Finding)
    BY <1>2, <1>3, <2>1, ConcatFacts
  <2> QED
    BY <2>2, <2>3
<1> QED
  BY <1>1, <1>2, <1>3 DEF Reports

(* The list s takes the places after o of fs, and has all that fs has in   *)
(* the dimension d.                                                        *)
Piece(fs, s, d, o) ==
  /\ o \in Nat /\ o + Len(s) <= Len(fs)
  /\ \A i \in 1..Len(s) : fs[o + i] = s[i]
  /\ \A j \in 1..Len(fs) : fs[j].dim = d => o < j /\ j <= o + Len(s)

Joins(fs, rep) ==
  /\ \A a \in Agent : \E o \in Nat : Piece(fs, rep[a], DimensionOf[a], o)
  /\ \A j \in 1..Len(fs) : \E a \in Agent : fs[j].dim = DimensionOf[a] /\ fs[j] \in ToSet(rep[a])

(* The next agent's report is joined to those before it.                   *)
LEMMA JoinGrows ==
  ASSUME NEW fs \in Seq(Finding), NEW rep \in [Agent -> Seq(Finding)], Joins(fs, rep),
         NEW a \in Agent, rep[a] = <<>>, NEW s \in Seq(Finding),
         \A i \in DOMAIN s : s[i].dim = DimensionOf[a]
  PROVE  Joins(fs \o s, [rep EXCEPT ![a] = s])
<1>1. PICK r : r = [rep EXCEPT ![a] = s]
  OBVIOUS
<1>2. r[a] = s /\ \A b \in Agent : b # a => r[b] = rep[b] /\ DimensionOf[b] # DimensionOf[a]
  BY <1>1, OneAgentPerDimension, ReviewAssumption
<1>3. PICK t \in Seq(Finding) : t = fs \o s
  BY ConcatFacts
<1>4. /\ Len(t) = Len(fs) + Len(s) /\ Len(fs) \in Nat /\ Len(s) \in Nat
      /\ \A i \in 1..Len(fs) : t[i] = fs[i]
      /\ \A i \in 1..Len(s) : t[Len(fs) + i] = s[i]
  BY <1>3
<1>5. ASSUME NEW j \in 1..Len(t), j \notin 1..Len(fs)
      PROVE  Len(fs) < j /\ t[j].dim = DimensionOf[a] /\ t[j] \in ToSet(s)
  <2>1. PICK i : i = j - Len(fs)
    OBVIOUS
  <2>2. i \in DOMAIN s /\ t[j] = s[i]
    BY <1>3, <1>5, <2>1, ConcatParts
  <2> QED
    BY <1>4, <1>5, <2>2 DEF ToSet
<1>7. ASSUME NEW b \in Agent PROVE \E o \in Nat : Piece(t, r[b], DimensionOf[b], o)
  <2>1. PICK o \in Nat : Piece(fs, rep[b], DimensionOf[b], o)
    BY DEF Joins
  <2>2. Len(rep[b]) \in Nat
    OBVIOUS
  <2>3. CASE b = a
    <3>1. \A j \in 1..Len(fs) : fs[j].dim # DimensionOf[a]
      <4> SUFFICES ASSUME NEW j \in 1..Len(fs), fs[j].dim = DimensionOf[a] PROVE FALSE
        OBVIOUS
      <4>1. o < j /\ j <= o + Len(rep[a]) /\ Len(rep[a]) = 0
        BY <2>1, <2>3 DEF Piece
      <4> QED
        BY <4>1
    <3>2. \A j \in 1..Len(t) : t[j].dim = DimensionOf[a] => Len(fs) < j /\ j <= Len(fs) + Len(s)
      BY <1>4, <1>5, <3>1
    <3>3. Piece(t, s, DimensionOf[a], Len(fs))
      BY <1>4, <3>2 DEF Piece
    <3> QED
      BY <1>2, <1>4, <2>3, <3>3
  <2>4. CASE b # a
    <3>1. o + Len(rep[b]) <= Len(fs) /\ \A i \in 1..Len(rep[b]) : fs[o + i] = rep[b][i]
      BY <2>1 DEF Piece
    <3>2. \A i \in 1..Len(rep[b]) : o + i \in 1..Len(fs) /\ t[o + i] = rep[b][i]
      BY <1>4, <2>2, <3>1
    <3>3. o + Len(rep[b]) <= Len(t)
      BY <1>4, <2>2, <3>1
    <3>4. \A j \in 1..Len(t) : t[j].dim = DimensionOf[b] => j \in 1..Len(fs) /\ fs[j].dim = DimensionOf[b]
      BY <1>2, <1>4, <1>5, <2>4
    <3>5. \A j \in 1..Len(t) : t[j].dim = DimensionOf[b] => o < j /\ j <= o + Len(rep[b])
      BY <2>1, <3>4 DEF Piece
    <3>6. Piece(t, rep[b], DimensionOf[b], o)
      BY <3>2, <3>3, <3>5 DEF Piece
    <3> QED
      BY <1>2, <2>4, <3>6
  <2> QED
    BY <2>3, <2>4
<1>8. ASSUME NEW j \in 1..Len(t) PROVE \E b \in Agent : t[j].dim = DimensionOf[b] /\ t[j] \in ToSet(r[b])
  <2>1. CASE j \in 1..Len(fs)
    <3>1. PICK b \in Agent : fs[j].dim = DimensionOf[b] /\ fs[j] \in ToSet(rep[b])
      BY <2>1 DEF Joins
    <3>2. b # a
      BY <3>1 DEF ToSet
    <3> QED
      BY <1>2, <1>4, <2>1, <3>1, <3>2
  <2>2. CASE j \notin 1..Len(fs)
    BY <1>2, <1>5, <2>2
  <2> QED
    BY <2>1, <2>2
<1> QED
  BY <1>1, <1>3, <1>7, <1>8 DEF Joins

-----------------------------------------------------------------------------
(* What every reachable state of a review has.                             *)

Reported == IF Done THEN SubSeq(findings, 1, Len(findings) - Len(Insights[input])) ELSE findings

OwnRules == \A a \in Agent : node[a] \in {"awaiting", "returned"} => scan[a] = Scans[a, input]

OwnReport ==
  \A a \in Agent : IF node[a] = "returned" THEN report[a] \in Reports(a, input) ELSE report[a] = <<>>

Joined == Joins(Reported, report)

Concluded == Done => findings = Reported \o Insights[input] /\ event = Event(Files, findings)

AInv == GInv /\ OwnRules /\ OwnReport /\ Joined /\ Concluded

LEMMA AgentInitInv == ReviewInit => AInv
<1> SUFFICES ASSUME ReviewInit PROVE AInv
  OBVIOUS
<1>1. GInv
  BY ReviewInitInv
<1>2. ~Done /\ Reported = <<>>
  BY DEF ReviewInit, Done, Reported
<1>3. \A a \in Agent : node[a] \in {"ready", "skipped"} /\ report[a] = <<>>
  BY DEF ReviewInit
<1>4. OwnRules /\ OwnReport
  BY <1>3 DEF OwnRules, OwnReport
<1>5. Joins(<<>>, report)
  <2>1. ASSUME NEW a \in Agent PROVE Piece(<<>>, report[a], DimensionOf[a], 0)
    <3>1. report[a] = <<>>
      BY <1>3
    <3> QED
      BY <3>1 DEF Piece
  <2> QED
    BY <2>1 DEF Joins
<1> QED
  BY <1>1, <1>2, <1>4, <1>5 DEF AInv, Joined, Concluded

(* A step of agent a's node, x being what its rules found.                 *)
LEMMA AgentStepKeeps ==
  ASSUME AInv, GInv', NEW a \in Agent, node[a] \in {"ready", "awaiting"},
         NEW x, scan' = [scan EXCEPT ![a] = x], UNCHANGED <<input, event>>,
         \/ Raise(a)
         \/ x = Scans[a, input] /\ (Await(a) \/ \E s \in Reports(a, input) : Return(a, s))
  PROVE  AInv'
<1>0. /\ findings \in Seq(Finding) /\ node \in [Agent -> NodeState]
      /\ report \in [Agent -> Seq(Finding)] /\ input \in Inputs
      /\ DOMAIN scan = Agent
  BY DEF AInv, GInv, ReviewTypeOK
<1>1. ~Done /\ ~Done' /\ Reported = findings /\ Reported' = findings'
  BY DEF AInv, GInv, NodesOK, Done, Reported
<1>2. report[a] = <<>>
  BY DEF AInv, OwnReport
<1>3. scan'[a] = x /\ \A b \in Agent \ {a} : scan'[b] = scan[b]
  BY <1>0
<1>4. Concluded'
  BY <1>1 DEF Concluded
<1>5. ASSUME NEW v \in {"awaiting", "failed"}, node' = [node EXCEPT ![a] = v],
             UNCHANGED <<report, findings>>, v = "awaiting" => x = Scans[a, input]
      PROVE  AInv'
  <2>1. node'[a] = v /\ \A b \in Agent \ {a} : node'[b] = node[b]
    BY <1>0, <1>5
  <2>2. OwnRules'
    BY <1>3, <1>5, <2>1 DEF AInv, OwnRules
  <2>3. OwnReport'
    BY <1>2, <1>5, <2>1 DEF AInv, OwnReport
  <2>4. Joined'
    BY <1>1, <1>5 DEF AInv, Joined
  <2> QED
    BY <1>4, <2>2, <2>3, <2>4 DEF AInv
<1>6. ASSUME NEW s \in Reports(a, input), Return(a, s), x = Scans[a, input] PROVE AInv'
  <2>1. /\ node' = [node EXCEPT ![a] = "returned"] /\ report' = [report EXCEPT ![a] = s]
        /\ findings' = findings \o s
    BY <1>6 DEF Return
  <2>2. node'[a] = "returned" /\ report'[a] = s
    BY <1>0, <2>1
  <2>3. \A b \in Agent \ {a} : node'[b] = node[b] /\ report'[b] = report[b]
    BY <1>0, <2>1
  <2>4. OwnRules'
    BY <1>3, <1>6, <2>2, <2>3 DEF AInv, OwnRules
  <2>5. OwnReport'
    BY <1>6, <2>2, <2>3 DEF AInv, OwnReport
  <2>6. s \in Seq(Finding) /\ \A i \in DOMAIN s : s[i].dim = DimensionOf[a]
    <3>1. s \in Seq(Finding) /\ \A i \in DOMAIN s : RuleOf(s[i], a) \/ ModelOf(s[i], a)
      BY <1>0, ReportsFacts
    <3>2. ASSUME NEW i \in DOMAIN s PROVE s[i].dim = DimensionOf[a]
      BY <3>1 DEF RuleOf, ModelOf
    <3> QED
      BY <3>1, <3>2
  <2>7. Joins(findings, report)
    BY <1>1 DEF AInv, Joined
  <2>8. Joined'
    BY <1>0, <1>1, <1>2, <2>1, <2>6, <2>7, JoinGrows DEF Joined
  <2> QED
    BY <1>4, <2>4, <2>5, <2>8 DEF AInv
<1>7. CASE Raise(a)
  BY <1>5, <1>7 DEF Raise
<1>8. CASE Await(a) /\ x = Scans[a, input]
  BY <1>5, <1>8 DEF Await
<1> QED
  BY <1>6, <1>7, <1>8

LEMMA EnrichReports ==
  ASSUME NEW a \in Agent, NEW x, x = Scans[a, input], Enrich(a, x)
  PROVE  Await(a) \/ Raise(a) \/ \E s \in Reports(a, input) : Return(a, s)
<1>1. x \in Reports(a, input) /\ \A model \in Answers[a, input] : x \o model \in Reports(a, input)
  BY DEF Reports
<1> QED
  BY <1>1 DEF Enrich

LEMMA FirstPart ==
  ASSUME NEW fs \in Seq(Finding), NEW gs \in Seq(Finding)
  PROVE  SubSeq(fs \o gs, 1, Len(fs \o gs) - Len(gs)) = fs
OBVIOUS

LEMMA AgentStepInv == AInv /\ [ReviewNext]_reviewVars => AInv'
<1> SUFFICES ASSUME AInv, [ReviewNext]_reviewVars PROVE AInv'
  OBVIOUS
<1>0. GInv /\ GInv'
  BY ReviewStepInv DEF AInv
<1>1. DOMAIN scan = Agent /\ input \in Inputs /\ scan \in [Agent -> Seq(Finding)]
  BY <1>0 DEF GInv, ReviewTypeOK
<1>2. ASSUME NEW a \in Agent, Run(a) PROVE AInv'
  <2>1. PICK x : x = Scans[a, input]
    OBVIOUS
  <2>2. /\ node[a] = "ready" /\ scan' = [scan EXCEPT ![a] = x] /\ UNCHANGED <<input, event>>
        /\ Enrich(a, x) \/ Return(a, x)
    BY <1>2, <2>1 DEF Run
  <2>3. x \in Reports(a, input)
    BY <2>1 DEF Reports
  <2>4. Await(a) \/ Raise(a) \/ \E s \in Reports(a, input) : Return(a, s)
    BY <2>1, <2>2, <2>3, EnrichReports
  <2> QED
    BY <1>0, <2>1, <2>2, <2>4, AgentStepKeeps
<1>3. ASSUME NEW a \in Agent, RunFails(a) PROVE AInv'
  <2>1. PICK x : x = scan[a]
    OBVIOUS
  <2>2. scan' = [scan EXCEPT ![a] = x] /\ node[a] = "ready" /\ UNCHANGED <<input, event>> /\ Raise(a)
    BY <1>1, <1>3, <2>1 DEF RunFails
  <2> QED
    BY <1>0, <2>2, AgentStepKeeps
<1>4. ASSUME NEW a \in Agent, Resume(a) PROVE AInv'
  <2>1. PICK x : x = Scans[a, input]
    OBVIOUS
  <2>2. node[a] = "awaiting" /\ UNCHANGED <<scan, input, event>> /\ Enrich(a, scan[a])
    BY <1>4 DEF Resume
  <2>3. scan[a] = x
    BY <2>1, <2>2 DEF AInv, OwnRules
  <2>4. scan' = [scan EXCEPT ![a] = x]
    BY <1>1, <2>2, <2>3
  <2>5. Await(a) \/ Raise(a) \/ \E s \in Reports(a, input) : Return(a, s)
    BY <2>1, <2>2, <2>3, EnrichReports
  <2> QED
    BY <1>0, <2>1, <2>2, <2>4, <2>5, AgentStepKeeps
<1>5. CASE Conclude
  <2>1. PICK ins : ins = Insights[input]
    OBVIOUS
  <2>2. /\ ~Done /\ findings' = findings \o ins /\ event' = Event(Files, findings')
        /\ UNCHANGED <<input, node, scan, report>>
    BY <1>5, <2>1 DEF Conclude, Done
  <2>3. Done'
    BY <2>2 DEF Event, Done
  <2>4. findings \in Seq(Finding) /\ ins \in Seq(Finding)
    BY <1>0, <1>1, <2>1, ReviewAssumption DEF GInv, ReviewTypeOK
  <2>5. Insights[input]' = ins /\ Files' = Files
    BY <2>1, <2>2 DEF Files
  <2>6. Reported' = findings /\ Reported = findings
    BY <2>2, <2>3, <2>4, <2>5, FirstPart DEF Reported
  <2>7. OwnRules' /\ OwnReport'
    BY <2>2 DEF AInv, OwnRules, OwnReport
  <2>8. Joined'
    BY <2>2, <2>6 DEF AInv, Joined
  <2>9. Concluded'
    BY <2>2, <2>5, <2>6 DEF Concluded
  <2> QED
    BY <1>0, <2>7, <2>8, <2>9 DEF AInv
<1>6. CASE UNCHANGED reviewVars
  <2>1. UNCHANGED <<input, node, scan, report, findings, event>>
    BY <1>6 DEF reviewVars, nodeVars
  <2>2. Reported' = Reported /\ Done' = Done /\ Files' = Files
    BY <2>1 DEF Reported, Done, Files
  <2> QED
    BY <1>0, <2>1, <2>2 DEF AInv, OwnRules, OwnReport, Joined, Concluded
<1> QED
  BY <1>2, <1>3, <1>4, <1>5, <1>6 DEF ReviewNext

LEMMA AgentInvHolds == ReviewSpec => []AInv
BY AgentInitInv, AgentStepInv, PTL DEF ReviewSpec

-----------------------------------------------------------------------------
(* The order of the reports decides nothing.                               *)

LEMMA JoinVerdict ==
  ASSUME NEW fs \in Seq(Finding), NEW rep \in [Agent -> Seq(Finding)], Joins(fs, rep),
         NEW ins \in Seq(Finding), NEW a \in Agent,
         NEW k \in Keys(fs \o ins), DimensionOf[a] = k[1]
  PROVE  /\ k \in Keys(rep[a] \o ins)
         /\ Item(fs \o ins, NoAdjustments, k) = Item(rep[a] \o ins, NoAdjustments, k)
<1>1. PICK s \in Seq(Finding) : s = rep[a]
  OBVIOUS
<1>2. PICK o \in Nat : Piece(fs, s, DimensionOf[a], o)
  BY <1>1 DEF Joins
<1>3. PICK all \in Seq(Finding), own \in Seq(Finding) : all = fs \o ins /\ own = s \o ins
  BY ConcatFacts
<1>4. PICK F \in Nat, N \in Nat, I \in Nat : F = Len(fs) /\ N = Len(s) /\ I = Len(ins)
  OBVIOUS
<1>5. /\ DOMAIN fs = 1..F /\ DOMAIN s = 1..N /\ DOMAIN ins = 1..I
      /\ DOMAIN all = 1..(F + I) /\ DOMAIN own = 1..(N + I)
      /\ \A i \in 1..F : all[i] = fs[i]
      /\ \A i \in 1..I : all[F + i] = ins[i] /\ own[N + i] = ins[i]
      /\ \A i \in 1..N : own[i] = s[i]
  BY <1>3, <1>4, ConcatFacts
<1>6. /\ o + N <= F
      /\ \A i \in 1..N : fs[o + i] = s[i]
      /\ \A j \in 1..F : fs[j].dim = DimensionOf[a] => o < j /\ j <= o + N
  BY <1>2, <1>4 DEF Piece
<1>7. PICK h : h = [i \in 1..(N + I) |-> IF i <= N THEN o + i ELSE F + (i - N)]
  OBVIOUS
<1>8. \A i \in 1..(N + I) : h[i] \in 1..(F + I)
  BY <1>4, <1>6, <1>7
<1>9. h \in [DOMAIN own -> DOMAIN all]
  BY <1>5, <1>7, <1>8
<1>10. \A i, j \in DOMAIN own : i < j => h[i] < h[j]
  BY <1>4, <1>5, <1>6, <1>7
<1>11. ASSUME NEW i \in DOMAIN own PROVE all[h[i]] = own[i]
  <2>1. CASE i <= N
    <3>1. i \in 1..N /\ h[i] = o + i /\ o + i \in 1..F
      BY <1>4, <1>5, <1>6, <1>7, <2>1
    <3> QED
      BY <1>5, <1>6, <3>1
  <2>2. CASE ~(i <= N)
    <3>1. PICK m \in 1..I : m = i - N
      BY <1>4, <1>5, <2>2
    <3>2. h[i] = F + m /\ i = N + m
      BY <1>4, <1>5, <1>7, <2>2, <3>1
    <3> QED
      BY <1>5, <3>2
  <2> QED
    BY <2>1, <2>2
<1>12. ASSUME NEW j \in Group(all, k) PROVE \E i \in DOMAIN own : j = h[i]
  <2>1. j \in 1..(F + I) /\ all[j].dim = DimensionOf[a]
    BY <1>5 DEF Group, DedupeKey
  <2>2. CASE j <= F
    <3>1. o < j /\ j <= o + N
      BY <1>4, <1>5, <1>6, <2>1, <2>2
    <3>2. j - o \in 1..N /\ j - o \in DOMAIN own
      BY <1>4, <1>5, <2>1, <3>1
    <3>3. h[j - o] = j
      BY <1>4, <1>5, <1>7, <2>1, <3>2
    <3> QED
      BY <3>2, <3>3
  <2>3. CASE ~(j <= F)
    <3>1. PICK m \in 1..I : m = j - F
      BY <1>4, <2>1, <2>3
    <3>2. N + m \in DOMAIN own /\ ~(N + m <= N) /\ (N + m) - N = m /\ F + m = j
      BY <1>4, <1>5, <2>1, <3>1
    <3>3. h[N + m] = j
      BY <1>5, <1>7, <3>2
    <3> QED
      BY <3>2, <3>3
  <2> QED
    BY <2>2, <2>3
<1>13. k \in Keys(own) /\ Item(all, NoAdjustments, k) = Item(own, NoAdjustments, k)
  <2>1. k \in Keys(all)
    BY <1>3
  <2> QED
    BY <2>1, <1>9, <1>10, <1>11, <1>12, SameVerdict
<1> QED
  BY <1>1, <1>3, <1>13

LEMMA AgentTypes ==
  ASSUME AInv
  PROVE  /\ Reported \in Seq(Finding) /\ Insights[input] \in Seq(Finding)
         /\ report \in [Agent -> Seq(Finding)] /\ input \in Inputs
         /\ findings \in Seq(Finding)
<1>1. /\ findings \in Seq(Finding) /\ report \in [Agent -> Seq(Finding)] /\ input \in Inputs
  BY DEF AInv, GInv, ReviewTypeOK
<1>2. Insights[input] \in Seq(Finding)
  BY <1>1, ReviewAssumption
<1>3. PICK ins \in Seq(Finding) : ins = Insights[input]
  BY <1>2
<1>4. Reported \in Seq(Finding)
  <2>1. CASE ~Done
    BY <1>1, <2>1 DEF Reported
  <2>2. CASE Done
    <3>1. findings = SubSeq(findings, 1, Len(findings) - Len(ins)) \o ins
      BY <1>3, <2>2 DEF AInv, Concluded, Reported
    <3>2. Len(findings) - Len(ins) \in Int /\ Len(findings) - Len(ins) <= Len(findings)
      BY <1>1
    <3>3. SubSeq(findings, 1, Len(findings) - Len(ins)) \in Seq(Finding)
      BY <1>1, <3>2
    <3> QED
      BY <1>3, <2>2, <3>3 DEF Reported
  <2> QED
    BY <2>1, <2>2
<1> QED
  BY <1>1, <1>2, <1>4

LEMMA VerdictOfOwn ==
  ASSUME AInv, Done, NEW k \in Keys(findings), NEW a \in Agent, DimensionOf[a] = k[1]
  PROVE  /\ k \in Keys(report[a] \o Insights[input])
         /\ Item(findings, NoAdjustments, k) = Item(report[a] \o Insights[input], NoAdjustments, k)
<1>1. findings = Reported \o Insights[input] /\ Joins(Reported, report)
  BY DEF AInv, Concluded, Joined
<1>2. PICK fs \in Seq(Finding), ins \in Seq(Finding) : fs = Reported /\ ins = Insights[input]
  BY AgentTypes
<1>3. PICK rep \in [Agent -> Seq(Finding)] : rep = report
  BY AgentTypes
<1>4. k \in Keys(rep[a] \o ins) /\ Item(fs \o ins, NoAdjustments, k) = Item(rep[a] \o ins, NoAdjustments, k)
  <2>1. Joins(fs, rep) /\ k \in Keys(fs \o ins)
    BY <1>1, <1>2, <1>3
  <2> QED
    BY <2>1, JoinVerdict
<1> QED
  BY <1>1, <1>2, <1>3, <1>4

(* For any agents, rules and answers: an issue gets the verdict its own    *)
(* agent's report and the insights alone would give it.                    *)
THEOREM OrderIsIrrelevant == ReviewSpec => []OrderDecidesNothing
<1>1. AInv => OrderDecidesNothing
  BY VerdictOfOwn DEF OrderDecidesNothing
<1> QED
  BY AgentInvHolds, <1>1, PTL

-----------------------------------------------------------------------------
(* What the rules report.                                                  *)

(* A loop over s that collects a list per element.                         *)
LEMMA FlattenMap ==
  ASSUME NEW R, NEW s \in Seq(R), NEW S, NEW g \in [DOMAIN s -> Seq(S)]
  PROVE  /\ FlattenSeq(g) \in Seq(S)
         /\ \A i \in DOMAIN s : \A x \in ToSet(g[i]) : x \in ToSet(FlattenSeq(g))
         /\ \A x \in ToSet(FlattenSeq(g)) : \E i \in DOMAIN s : x \in ToSet(g[i])
         /\ FlattenSeq(g) # <<>> => \E i \in DOMAIN s : g[i] # <<>>
<1>1. g \in Seq(Seq(S)) /\ DOMAIN g = DOMAIN s
  OBVIOUS
<1>2. /\ FlattenSeq(g) \in Seq(S)
      /\ ToSet(FlattenSeq(g)) = UNION {ToSet(g[i]) : i \in DOMAIN g}
  BY <1>1, FlattenElements
<1>3. \A x \in ToSet(FlattenSeq(g)) : \E i \in DOMAIN s : x \in ToSet(g[i])
  BY <1>1, <1>2
<1>4. ASSUME FlattenSeq(g) # <<>> PROVE \E i \in DOMAIN s : g[i] # <<>>
  <2>1. PICK x : x \in ToSet(FlattenSeq(g))
    <3>1. 1 \in DOMAIN FlattenSeq(g)
      BY <1>2, <1>4
    <3> QED
      BY <3>1 DEF ToSet
  <2>2. PICK i \in DOMAIN s : x \in ToSet(g[i])
    BY <1>3, <2>1
  <2>3. g[i] # <<>>
    BY <2>2 DEF ToSet
  <2> QED
    BY <2>3
<1> QED
  BY <1>1, <1>2, <1>3, <1>4

LEMMA MaybeIs ==
  ASSUME NEW S, NEW found \in BOOLEAN, NEW x, found => x \in S
  PROVE  /\ Maybe(found, x) \in Seq(S)
         /\ Maybe(found, x) # <<>> => found
BY DEF Maybe, ToSet

(* Where a finding of a rule may be: at a file of the diff, and at none of *)
(* its lines or at one of those added.                                     *)
PlacesOf(file) == {<<file.path, NoLine>>} \cup {<<file.path, file.added[l].n>> : l \in DOMAIN file.added}

RuleCategory ==
  {"dangerous-eval", "shell-injection", "insecure-deserialization", "sql-injection", "weak-hash",
   "tls-verification-disabled", "xss-innerhtml", "debug-enabled", "wildcard-import", "broad-except",
   "global-mutable-state", "select-star", "blocking-io-in-async", "unbounded-readall",
   "docker-unpinned-base", "docker-curl-pipe-sh", "open-ingress", "privileged-container",
   "img-missing-alt", "non-semantic-interactive", "positive-tabindex", "hardcoded-secret",
   "large-change-surface", "circular-dependency", "n-plus-one-query", "missing-docstring",
   "missing-tests"}

RuleFinding(diff) ==
  [agent : Reviewers, dim : Dimension, cat : RuleCategory, sev : Severity, conf : Nat,
   src : {"deterministic"}, place : UNION {PlacesOf(file) : file \in ToSet(diff)}]

LEMMA ReportIs ==
  ASSUME NEW diff, NEW file \in ToSet(diff), NEW line, <<file.path, line>> \in PlacesOf(file),
         NEW a \in Reviewers, NEW cat \in RuleCategory, NEW sev \in Severity, NEW conf \in Nat
  PROVE  Report(a, cat, sev, conf, file.path, line) \in RuleFinding(diff)
<1>1. DimensionOf[a] \in Dimension
  BY DEF Reviewers, DimensionOf, Dimension
<1>2. <<file.path, line>> \in UNION {PlacesOf(f) : f \in ToSet(diff)}
  OBVIOUS
<1> QED
  BY <1>1, <1>2 DEF Report, RuleFinding

LEMMA FileFacts ==
  ASSUME NEW diff \in Seq(FileDiff), NEW file \in ToSet(diff)
  PROVE  /\ file.added \in Seq(AddedLine) /\ file.lang \in STRING
         /\ \A l \in DOMAIN file.added : <<file.path, file.added[l].n>> \in PlacesOf(file)
         /\ <<file.path, NoLine>> \in PlacesOf(file)
<1>1. file \in FileDiff
  BY DEF ToSet
<1> QED
  BY <1>1 DEF FileDiff, PlacesOf

RuleType == [cat : RuleCategory, sev : Severity, langs : SUBSET Language]

LEMMA AgentRulesTyped ==
  /\ SecurityRules \in Seq(RuleType) /\ ArchitectureRules \in Seq(RuleType)
  /\ PerformanceRules \in Seq(RuleType) /\ DockerRules \in Seq(RuleType)
  /\ InfraRules \in Seq(RuleType) /\ AccessibilityRules \in Seq(RuleType)
<1>1. ASSUME NEW c \in RuleCategory, NEW s \in Severity, NEW ls \in SUBSET Language
      PROVE  Rule(c, s, ls) \in RuleType
  BY DEF Rule, RuleType
<1>2. {"low", "medium", "high", "critical"} \subseteq Severity
  BY DEF Severity, SeverityWeight
<1>3. Python \subseteq Language /\ Script \subseteq Language
  BY DEF Python, Script, Language, Backend, Frontend, Infra
<1>4. SecurityRules \in Seq(RuleType)
  BY <1>1, <1>2, <1>3 DEF SecurityRules, RuleCategory
<1>5. ArchitectureRules \in Seq(RuleType) /\ PerformanceRules \in Seq(RuleType)
  BY <1>1, <1>2, <1>3 DEF ArchitectureRules, PerformanceRules, RuleCategory
<1>6. DockerRules \in Seq(RuleType) /\ InfraRules \in Seq(RuleType)
  BY <1>1, <1>2, <1>3 DEF DockerRules, InfraRules, RuleCategory
<1>7. AccessibilityRules \in Seq(RuleType)
  BY <1>1, <1>2, <1>3 DEF AccessibilityRules, RuleCategory
<1> QED
  BY <1>4, <1>5, <1>6, <1>7

LEMMA ScanRulesIs ==
  ASSUME NEW diff \in Seq(FileDiff), NEW rules \in Seq(RuleType), NEW a \in Reviewers
  PROVE  /\ ScanRules(diff, rules, a) \in Seq(RuleFinding(diff))
         /\ ScanRules(diff, rules, a) # <<>> =>
              \E f \in DOMAIN diff : \E r \in DOMAIN rules : diff[f].lang \in rules[r].langs
         /\ \A x \in ToSet(ScanRules(diff, rules, a)) :
              \E f \in DOMAIN diff, r \in DOMAIN rules :
                diff[f].lang \in rules[r].langs /\ x.cat = rules[r].cat
<1> DEFINE OnRule(file, line, r) ==
             Maybe(file.lang \in rules[r].langs /\ rules[r].cat \in line.text,
                   Report(a, rules[r].cat, rules[r].sev, 90, file.path, line.n))
           OnLine(file, line) == FlattenSeq([r \in DOMAIN rules |-> OnRule(file, line, r)])
           OnFile(file) == FlattenSeq([l \in DOMAIN file.added |-> OnLine(file, file.added[l])])
           Some(file) == \E r \in DOMAIN rules : file.lang \in rules[r].langs
           Matched(file, x) == \E r \in DOMAIN rules :
                                 file.lang \in rules[r].langs /\ x.cat = rules[r].cat
<1>1. ASSUME NEW file \in ToSet(diff), NEW l \in DOMAIN file.added
      PROVE  /\ OnLine(file, file.added[l]) \in Seq(RuleFinding(diff))
             /\ OnLine(file, file.added[l]) # <<>> => Some(file)
             /\ \A x \in ToSet(OnLine(file, file.added[l])) : Matched(file, x)
  <2>1. PICK line : line = file.added[l]
    OBVIOUS
  <2>2. <<file.path, line.n>> \in PlacesOf(file)
    BY <2>1, FileFacts
  <2>3. ASSUME NEW r \in DOMAIN rules
        PROVE  /\ OnRule(file, line, r) \in Seq(RuleFinding(diff))
               /\ OnRule(file, line, r) # <<>> => file.lang \in rules[r].langs
               /\ \A x \in ToSet(OnRule(file, line, r)) :
                    file.lang \in rules[r].langs /\ x.cat = rules[r].cat
    <3>0. rules[r] \in RuleType
      OBVIOUS
    <3>1. rules[r].cat \in RuleCategory /\ rules[r].sev \in Severity /\ 90 \in Nat
      BY <3>0 DEF RuleType
    <3>2. Report(a, rules[r].cat, rules[r].sev, 90, file.path, line.n) \in RuleFinding(diff)
      BY <2>2, <3>1, ReportIs
    <3>3. PICK hit : hit = Report(a, rules[r].cat, rules[r].sev, 90, file.path, line.n)
      OBVIOUS
    <3>4. hit.cat = rules[r].cat
      BY <3>3 DEF Report
    <3>5. \A x \in ToSet(OnRule(file, line, r)) : file.lang \in rules[r].langs /\ x = hit
      BY <3>3 DEF Maybe, ToSet
    <3> QED
      BY <3>2, <3>4, <3>5, MaybeIs
  <2>4. PICK g : g = [r \in DOMAIN rules |-> OnRule(file, line, r)]
    OBVIOUS
  <2>5. g \in [DOMAIN rules -> Seq(RuleFinding(diff))]
    BY <2>3, <2>4
  <2>6. /\ FlattenSeq(g) \in Seq(RuleFinding(diff))
        /\ FlattenSeq(g) # <<>> => \E r \in DOMAIN rules : g[r] # <<>>
        /\ \A x \in ToSet(FlattenSeq(g)) : \E r \in DOMAIN rules : x \in ToSet(g[r])
    BY <2>5, FlattenMap
  <2> HIDE DEF OnRule
  <2>7. \A x \in ToSet(FlattenSeq(g)) : Matched(file, x)
    BY <2>3, <2>4, <2>6
  <2> QED
    BY <2>1, <2>3, <2>4, <2>6, <2>7
<1>2. ASSUME NEW file \in ToSet(diff)
      PROVE  /\ OnFile(file) \in Seq(RuleFinding(diff)) /\ (OnFile(file) # <<>> => Some(file))
             /\ \A x \in ToSet(OnFile(file)) : Matched(file, x)
  <2> HIDE DEF OnLine, Some, Matched
  <2>1. file.added \in Seq(AddedLine)
    BY FileFacts
  <2>2. PICK g : g = [l \in DOMAIN file.added |-> OnLine(file, file.added[l])]
    OBVIOUS
  <2>3. g \in [DOMAIN file.added -> Seq(RuleFinding(diff))]
    BY <1>1, <2>2
  <2>4. /\ FlattenSeq(g) \in Seq(RuleFinding(diff))
        /\ FlattenSeq(g) # <<>> => \E l \in DOMAIN file.added : g[l] # <<>>
        /\ \A x \in ToSet(FlattenSeq(g)) : \E l \in DOMAIN file.added : x \in ToSet(g[l])
    BY <2>1, <2>3, FlattenMap
  <2> QED
    BY <1>1, <2>2, <2>4
<1>3. PICK g : g = [f \in DOMAIN diff |-> OnFile(diff[f])]
  OBVIOUS
<1>4. \A f \in DOMAIN diff : diff[f] \in ToSet(diff)
  BY DEF ToSet
<1>5. g \in [DOMAIN diff -> Seq(RuleFinding(diff))]
  <2> HIDE DEF OnFile
  <2> QED
    BY <1>2, <1>3, <1>4
<1>6. /\ FlattenSeq(g) \in Seq(RuleFinding(diff))
      /\ FlattenSeq(g) # <<>> => \E f \in DOMAIN diff : g[f] # <<>>
      /\ \A x \in ToSet(FlattenSeq(g)) : \E f \in DOMAIN diff : x \in ToSet(g[f])
  BY <1>5, FlattenMap
<1>7. /\ FlattenSeq(g) # <<>> => \E f \in DOMAIN diff : Some(diff[f])
      /\ \A x \in ToSet(FlattenSeq(g)) : \E f \in DOMAIN diff : Matched(diff[f], x)
  <2> HIDE DEF OnFile, Some, Matched
  <2> QED
    BY <1>2, <1>3, <1>4, <1>6
<1>8. ScanRules(diff, rules, a) = FlattenSeq(g)
  BY <1>3 DEF ScanRules
<1> QED
  BY <1>6, <1>7, <1>8

LEMMA ScanSecretsIs ==
  ASSUME NEW diff \in Seq(FileDiff)
  PROVE  /\ ScanSecrets(diff) \in Seq(RuleFinding(diff))
         /\ \A f \in DOMAIN diff : \A l \in DOMAIN diff[f].added :
              HasSecret(diff[f].added[l]) =>
                \E x \in ToSet(ScanSecrets(diff)) : Secret(x) /\ x.sev = "critical" /\ x.conf = 97
<1> DEFINE Hit(file, line) == Report("security", "hardcoded-secret", "critical", 97, file.path, line.n)
           OnType(file, line, t) == Maybe(SecretTypes[t] \in line.text, Hit(file, line))
           OnLine(file, line) == FlattenSeq([t \in DOMAIN SecretTypes |-> OnType(file, line, t)])
           OnFile(file) == FlattenSeq([l \in DOMAIN file.added |-> OnLine(file, file.added[l])])
           Good(s) == \E x \in ToSet(s) : Secret(x) /\ x.sev = "critical" /\ x.conf = 97
<1>0. SecretTypes \in Seq(ToSet(SecretTypes))
  BY DEF SecretTypes, ToSet
<1>1. ASSUME NEW file \in ToSet(diff), NEW l \in DOMAIN file.added
      PROVE  /\ OnLine(file, file.added[l]) \in Seq(RuleFinding(diff))
             /\ HasSecret(file.added[l]) => Good(OnLine(file, file.added[l]))
  <2>1. PICK line : line = file.added[l]
    OBVIOUS
  <2>2. <<file.path, line.n>> \in PlacesOf(file)
    BY <2>1, FileFacts
  <2>3. "security" \in Reviewers /\ "hardcoded-secret" \in RuleCategory /\ "critical" \in Severity /\ 97 \in Nat
    BY DEF Reviewers, RuleCategory, Severity, SeverityWeight
  <2>4. Hit(file, line) \in RuleFinding(diff)
    BY <2>2, <2>3, ReportIs
  <2>5. Secret(Hit(file, line)) /\ Hit(file, line).sev = "critical" /\ Hit(file, line).conf = 97
    BY DEF Report, Secret, DimensionOf
  <2>6. ASSUME NEW t \in DOMAIN SecretTypes
        PROVE  /\ OnType(file, line, t) \in Seq(RuleFinding(diff))
               /\ SecretTypes[t] \in line.text => Hit(file, line) \in ToSet(OnType(file, line, t))
    <3>1. PICK hit \in RuleFinding(diff) : hit = Hit(file, line)
      BY <2>4
    <3>2. Maybe(SecretTypes[t] \in line.text, hit) \in Seq(RuleFinding(diff))
      BY DEF Maybe
    <3>3. SecretTypes[t] \in line.text => hit \in ToSet(Maybe(SecretTypes[t] \in line.text, hit))
      BY DEF Maybe, ToSet
    <3> QED
      BY <3>1, <3>2, <3>3
  <2>7. PICK g : g = [t \in DOMAIN SecretTypes |-> OnType(file, line, t)]
    OBVIOUS
  <2> HIDE DEF OnType, Hit
  <2>8. g \in [DOMAIN SecretTypes -> Seq(RuleFinding(diff))]
    BY <2>6, <2>7
  <2>9. /\ FlattenSeq(g) \in Seq(RuleFinding(diff))
        /\ \A t \in DOMAIN SecretTypes : \A x \in ToSet(g[t]) : x \in ToSet(FlattenSeq(g))
    BY <1>0, <2>8, FlattenMap
  <2>10. ASSUME HasSecret(line) PROVE Good(FlattenSeq(g))
    <3>1. PICK t \in DOMAIN SecretTypes : SecretTypes[t] \in line.text
      BY <2>10 DEF HasSecret, ToSet
    <3>2. Hit(file, line) \in ToSet(FlattenSeq(g))
      BY <2>6, <2>7, <2>9, <3>1
    <3> QED
      BY <2>5, <3>2
  <2>11. OnLine(file, line) = FlattenSeq(g)
    BY <2>7
  <2> QED
    BY <2>1, <2>9, <2>10, <2>11
<1>2. ASSUME NEW file \in ToSet(diff)
      PROVE  /\ OnFile(file) \in Seq(RuleFinding(diff))
             /\ \A l \in DOMAIN file.added : HasSecret(file.added[l]) => Good(OnFile(file))
  <2>1. file.added \in Seq(AddedLine)
    BY FileFacts
  <2>2. PICK g : g = [l \in DOMAIN file.added |-> OnLine(file, file.added[l])]
    OBVIOUS
  <2>3. \A l \in DOMAIN file.added : /\ g[l] \in Seq(RuleFinding(diff))
                                     /\ HasSecret(file.added[l]) => Good(g[l])
    <3> HIDE DEF OnLine, Good
    <3> QED
      BY <1>1, <2>2
  <2>4. g \in [DOMAIN file.added -> Seq(RuleFinding(diff))]
    <3> HIDE DEF OnLine
    <3> QED
      BY <2>2, <2>3
  <2>5. /\ FlattenSeq(g) \in Seq(RuleFinding(diff))
        /\ \A l \in DOMAIN file.added : \A x \in ToSet(g[l]) : x \in ToSet(FlattenSeq(g))
    BY <2>1, <2>4, FlattenMap
  <2>6. OnFile(file) = FlattenSeq(g)
    BY <2>2
  <2> HIDE DEF OnFile
  <2> QED
    BY <2>3, <2>5, <2>6
<1>3. PICK g : g = [f \in DOMAIN diff |-> OnFile(diff[f])]
  OBVIOUS
<1>4. \A f \in DOMAIN diff : diff[f] \in ToSet(diff)
  BY DEF ToSet
<1>5. \A f \in DOMAIN diff :
        /\ g[f] \in Seq(RuleFinding(diff))
        /\ \A l \in DOMAIN diff[f].added : HasSecret(diff[f].added[l]) => Good(g[f])
  <2> HIDE DEF OnFile, Good
  <2> QED
    BY <1>2, <1>3, <1>4
<1>6. g \in [DOMAIN diff -> Seq(RuleFinding(diff))]
  <2> HIDE DEF OnFile
  <2> QED
    BY <1>3, <1>5
<1>7. /\ FlattenSeq(g) \in Seq(RuleFinding(diff))
      /\ \A f \in DOMAIN diff : \A x \in ToSet(g[f]) : x \in ToSet(FlattenSeq(g))
  BY <1>6, FlattenMap
<1>8. ScanSecrets(diff) = FlattenSeq(g)
  BY <1>3 DEF ScanSecrets
<1> QED
  BY <1>5, <1>7, <1>8

-----------------------------------------------------------------------------
(* A secret is found, represents its issue, and is posted.                 *)

LEMMA Products ==
  ASSUME NEW x \in Nat, NEW y \in Nat, NEW c \in Nat, NEW d \in Nat, x >= c, y >= d
  PROVE  x * y \in Nat /\ x * y >= c * d
<1>1. PICK u \in Nat, v \in Nat : x = c + u /\ y = d + v
  <2>1. x - c \in Nat /\ y - d \in Nat /\ x = c + (x - c) /\ y = d + (y - d)
    OBVIOUS
  <2> QED
    BY <2>1
<1>2. x * y = c * d + (c * v + u * d + u * v)
  BY <1>1
<1>3. c * d \in Nat /\ c * v \in Nat /\ u * d \in Nat /\ u * v \in Nat
  OBVIOUS
<1> QED
  BY <1>2, <1>3

LEMMA GateAtLeast ==
  ASSUME NEW f \in Finding, NEW n \in Nat, NEW p \in Nat, p >= 300000,
         p = f.conf * DimensionWeight[f.dim] * SourceMultiplier[f.src] * (19 + n)
  PROVE  Gate(f.sev, Weighted(f, n, Multiplier(NoAdjustments, f.cat))) = "post"
<1>1. Multiplier(NoAdjustments, f.cat) = [num |-> 1, den |-> 1]
  BY DEF Multiplier, NoAdjustments
<1>2. PICK w : w = Weighted(f, n, [num |-> 1, den |-> 1])
  OBVIOUS
<1>3. w.num = p * 1 /\ w.den = 400000 * 1
  BY <1>2 DEF Weighted
<1>4. 20 * w.num >= 15 * w.den
  BY <1>3
<1> QED
  BY <1>1, <1>2, <1>4 DEF Gate, AtLeast

LEMMA AgentsFinite ==
  ASSUME NEW fs \in Seq(Finding), NEW G \in SUBSET (DOMAIN fs)
  PROVE  IsFiniteSet({fs[i].agent : i \in G})
<1>1. IsFiniteSet(G)
  <2>1. G \subseteq 1..Len(fs) /\ Len(fs) \in Nat
    OBVIOUS
  <2> QED
    BY <2>1, FS_Interval, FS_Subset
<1>2. PICK A : A = {fs[i].agent : i \in G}
  OBVIOUS
<1>3. PICK g : g = [i \in G |-> fs[i].agent]
  OBVIOUS
<1>4. g \in Surjection(G, A)
  BY <1>2, <1>3 DEF Surjection
<1> QED
  BY <1>1, <1>2, <1>4, FS_Surjection

LEMMA AgreementIs ==
  ASSUME NEW fs \in Seq(Finding), NEW k \in Keys(fs)
  PROVE  Agreement(fs, k) \in Nat /\ Agreement(fs, k) >= 1
<1>1. PICK A : A = {fs[i].agent : i \in Group(fs, k)}
  OBVIOUS
<1>2. A # {} /\ IsFiniteSet(A)
  <2>1. Group(fs, k) # {} /\ Group(fs, k) \subseteq DOMAIN fs
    BY DEF Group, Keys
  <2> QED
    BY <1>1, <2>1, AgentsFinite
<1>3. Cardinality(A) \in Nat /\ Cardinality(A) # 0
  BY <1>2, FS_CardinalityType, FS_EmptySet
<1> QED
  BY <1>1, <1>3 DEF Agreement

LEMMA SecretPosted ==
  ASSUME NEW fs \in Seq(Finding), NEW j \in DOMAIN fs,
         Secret(fs[j]), fs[j].sev = "critical", fs[j].conf = 97,
         \A i \in DOMAIN fs : fs[i].dim = "security" => fs[i].src = "deterministic" \/ fs[i].conf <= 90
  PROVE  Blocking(fs, NoAdjustments)
<1>1. PICK k : k = DedupeKey(fs[j])
  OBVIOUS
<1>2. k \in Keys(fs) /\ j \in Group(fs, k)
  BY <1>1 DEF Keys, Group
<1>3. PICK i \in DOMAIN fs : IsRep(fs, k, i)
  BY <1>2, RepExists
<1>4. i \in Group(fs, k) /\ ~Stronger(fs[j], fs[i])
  BY <1>2, <1>3 DEF IsRep
<1>5. PICK f \in Finding : f = fs[i]
  OBVIOUS
<1>6. f.dim = "security"
  BY <1>1, <1>4, <1>5 DEF Group, DedupeKey, Secret
<1>7. f.sev = "critical" /\ f.conf >= 97
  <2>1. f.sev \in Severity /\ f.conf \in 0..100 /\ SeverityWeight[f.sev] \in 0..12
    BY WeightIsNat DEF Finding
  <2>2. SeverityWeight["critical"] = 12 /\ \A s \in Severity : s = "critical" \/ SeverityWeight[s] < 12
    BY DEF Severity, SeverityWeight
  <2>3. PICK w \in 0..12, c \in 0..100 : w = SeverityWeight[f.sev] /\ c = f.conf
    BY <2>1
  <2>4. ~(12 > w) /\ (12 = w => ~(97 > c))
    <3>1. ~Stronger(fs[j], f) /\ SeverityWeight[fs[j].sev] = 12 /\ fs[j].conf = 97
      BY <1>4, <1>5, <2>2
    <3> QED
      BY <2>3, <3>1 DEF Stronger
  <2>5. w = 12 /\ c >= 97
    BY <2>4
  <2>6. f.sev = "critical"
    <3>1. f.sev = "critical" \/ SeverityWeight[f.sev] < 12
      BY <2>1, <2>2
    <3> QED
      BY <2>3, <2>5, <3>1
  <2> QED
    BY <2>3, <2>5, <2>6
<1>8. f.src = "deterministic"
  <2>1. f.src = "deterministic" \/ f.conf <= 90
    BY <1>5, <1>6
  <2>2. PICK c \in 0..100 : c = f.conf /\ c >= 97
    BY <1>7 DEF Finding
  <2>3. ~(f.conf <= 90)
    BY <2>2
  <2> QED
    BY <2>1, <2>3
<1>9. PICK n \in Nat : n = Agreement(fs, k) /\ n >= 1
  BY <1>2, AgreementIs
<1>10. Gate(f.sev, Weighted(f, n, Multiplier(NoAdjustments, f.cat))) = "post"
  <2>1. DimensionWeight[f.dim] = 13 /\ SourceMultiplier[f.src] = 20
    BY <1>6, <1>8 DEF DimensionWeight, SourceMultiplier
  <2>2. PICK c \in 0..100 : c = f.conf /\ c >= 97
    BY <1>7 DEF Finding
  <2>3. PICK p \in Nat : p = c * 13 * 20 * (19 + n) /\ p >= 300000
    <3>1. PICK x \in Nat, y \in Nat : x = c * 13 * 20 /\ y = 19 + n /\ x >= 25220 /\ y >= 20
      <4>1. c * 13 * 20 \in Nat /\ c * 13 * 20 >= 25220
        BY <2>2
      <4>2. 19 + n \in Nat /\ 19 + n >= 20
        BY <1>9
      <4> QED
        BY <4>1, <4>2
    <3>2. x * y \in Nat /\ x * y >= 25220 * 20
      BY <3>1, Products
    <3> QED
      BY <3>1, <3>2
  <2> QED
    BY <1>9, <2>1, <2>2, <2>3, GateAtLeast
<1>11. Item(fs, NoAdjustments, k).gate = "post" /\ Item(fs, NoAdjustments, k).finding.sev = "critical"
  <2>1. Rep(fs, k) = f
    BY <1>3, <1>5, RepIs
  <2> QED
    BY <1>7, <1>9, <1>10, <2>1 DEF Item
<1> QED
  BY <1>2, <1>11 DEF Blocking, Posted, Items, Serious

LEMMA FoundIsReported ==
  ASSUME AInv, NEW a \in Agent, node[a] = "returned", NEW x \in ToSet(scan[a])
  PROVE  \E j \in DOMAIN findings : findings[j] = x
<1>1. PICK s \in Seq(Finding) : s = scan[a]
  BY DEF AInv, GInv, ReviewTypeOK
<1>2. PICK o \in 0..Len(findings) : o + Len(s) <= Len(findings) /\ \A i \in DOMAIN s : findings[o + i] = s[i]
  BY <1>1 DEF AInv, GInv, RulesReported, InOnePiece
<1>3. PICK i \in DOMAIN s : x = s[i]
  BY <1>1 DEF ToSet
<1>4. o + i \in DOMAIN findings
  BY <1>2, <1>3, AgentTypes
<1> QED
  BY <1>2, <1>3, <1>4

(* Whose a finding is: its dimension's agent's, or the memory's.           *)
LEMMA FindingIsOwn ==
  ASSUME AInv, NEW j \in DOMAIN findings
  PROVE  \/ \E a \in Agent : \E s \in Reports(a, input) :
              findings[j] \in ToSet(s) /\ findings[j].dim = DimensionOf[a]
         \/ Done /\ findings[j] \in ToSet(Insights[input])
<1>1. PICK fs \in Seq(Finding) : fs = Reported
  BY AgentTypes
<1>2. ASSUME NEW i \in DOMAIN fs
      PROVE  \E a \in Agent : \E s \in Reports(a, input) : fs[i] \in ToSet(s) /\ fs[i].dim = DimensionOf[a]
  <2>1. PICK a \in Agent : fs[i].dim = DimensionOf[a] /\ fs[i] \in ToSet(report[a])
    BY <1>1 DEF AInv, Joined, Joins
  <2>2. report[a] # <<>>
    BY <2>1 DEF ToSet
  <2>3. report[a] \in Reports(a, input)
    BY <2>2 DEF AInv, OwnReport
  <2> QED
    BY <2>1, <2>3
<1>3. CASE ~Done
  BY <1>1, <1>2, <1>3 DEF Reported
<1>4. CASE Done
  <2>1. PICK ins \in Seq(Finding) : ins = Insights[input]
    BY AgentTypes
  <2>2. findings = fs \o ins
    BY <1>1, <1>4, <2>1 DEF AInv, Concluded
  <2>3. \/ j \in DOMAIN fs /\ findings[j] = fs[j]
        \/ j - Len(fs) \in DOMAIN ins /\ findings[j] = ins[j - Len(fs)]
    BY <2>2, ConcatParts
  <2>4. j - Len(fs) \in DOMAIN ins /\ findings[j] = ins[j - Len(fs)] => findings[j] \in ToSet(ins)
    BY DEF ToSet
  <2> QED
    BY <1>2, <1>4, <2>1, <2>3, <2>4
<1> QED
  BY <1>3, <1>4

LEMMA SecurityFinding ==
  ASSUME AInv, NEW j \in DOMAIN findings
  PROVE  findings[j].dim = "security" => findings[j].src = "deterministic" \/ findings[j].conf <= 90
<1>0. input \in Inputs
  BY AgentTypes
<1>1. ASSUME NEW a \in Agent, NEW s \in Reports(a, input), findings[j] \in ToSet(s)
      PROVE  findings[j].src = "deterministic" \/ findings[j].conf <= 90
  <2>1. \A i \in DOMAIN s : RuleOf(s[i], a) \/ ModelOf(s[i], a)
    BY <1>0, ReportsFacts
  <2>2. PICK i \in DOMAIN s : findings[j] = s[i]
    BY <1>1 DEF ToSet
  <2> QED
    BY <2>1, <2>2 DEF RuleOf, ModelOf
<1>2. ASSUME findings[j] \in ToSet(Insights[input])
      PROVE  findings[j].src = "deterministic"
  <2>1. PICK ins : ins = Insights[input]
    OBVIOUS
  <2>2. \A i \in DOMAIN ins : ins[i].src = "deterministic"
    BY <1>0, <2>1, ReviewAssumption
  <2> QED
    BY <1>2, <2>1, <2>2 DEF ToSet
<1> QED
  BY <1>1, <1>2, FindingIsOwn

(* For any diff, budget, providers and answers: the event of a review      *)
(* whose security agent did not fail requests changes when an added line   *)
(* has a secret.                                                           *)
THEOREM SecretsBlock == ReviewSpec => []SecretBlocksReview
<1>1. ASSUME AInv, Done, NEW f \in DOMAIN Diff, NEW l \in DOMAIN Diff[f].added, HasSecret(Diff[f].added[l]),
             node["security"] # "failed"
      PROVE  event = "REQUEST_CHANGES"
  <2>1. "security" \in Agent /\ "security" \in Selected(Files) /\ input \in Inputs
    BY <1>1, ReviewAssumption, AgentTypes DEF Selected, Files
  <2>2. node["security"] = "returned"
    BY <1>1, <2>1 DEF AInv, GInv, NodesOK
  <2>3. PICK diff \in Seq(FileDiff) : diff = Diff
    BY <2>1, AgentReviewAssumption DEF IsInput, IsDiff, Diff
  <2>4. PICK x \in ToSet(ScanSecrets(diff)) : Secret(x) /\ x.sev = "critical" /\ x.conf = 97
    BY <1>1, <2>3, ScanSecretsIs
  <2>5. x \in ToSet(scan["security"])
    <3>1. PICK p : p = <<"security", input>>
      OBVIOUS
    <3>2. p \in Agent \X Inputs /\ p[1] = "security" /\ p[2] = input
      BY <2>1, <3>1
    <3>3. Scans[p] = RulesOf(p[1], Given[p[2]].diff, Given[p[2]].context)
      BY <3>2, AgentReviewAssumption
    <3>4. Scans["security", input] = RulesOf("security", diff, Given[input].context)
      BY <2>3, <3>1, <3>2, <3>3 DEF Diff
    <3>5. RulesOf("security", diff, Given[input].context) = ScanRules(diff, SecurityRules, "security") \o ScanSecrets(diff)
      BY DEF RulesOf
    <3>6. scan["security"] = ScanRules(diff, SecurityRules, "security") \o ScanSecrets(diff)
      BY <1>1, <2>1, <2>2, <3>4, <3>5 DEF AInv, OwnRules
    <3>7. "security" \in Reviewers
      BY DEF Reviewers
    <3>8. ScanRules(diff, SecurityRules, "security") \in Seq(RuleFinding(diff)) /\ ScanSecrets(diff) \in Seq(RuleFinding(diff))
      BY <3>7, ScanRulesIs, ScanSecretsIs, AgentRulesTyped
    <3> QED
      BY <2>4, <3>6, <3>8, ConcatElements
  <2>6. PICK j \in DOMAIN findings : findings[j] = x
    BY <1>1, <2>1, <2>2, <2>5, FoundIsReported
  <2>7. Blocking(findings, NoAdjustments)
    BY <1>1, <2>4, <2>6, AgentTypes, SecurityFinding, SecretPosted
  <2> QED
    BY <1>1, <2>7 DEF AInv, Concluded, Event
<1>2. AInv => SecretBlocksReview
  BY <1>1 DEF SecretBlocksReview
<1> QED
  BY AgentInvHolds, <1>2, PTL

-----------------------------------------------------------------------------
(* What the memory reports joins an issue of an agent's with a weight that *)
(* posts it.                                                               *)

Weighty(f) ==
  /\ f.agent = "memory" /\ f.src = "deterministic"
  /\ (f.dim = "architecture" /\ f.conf = 90) \/ (f.dim = "correctness" /\ f.conf >= 60)

InsightPlaces(diff) == {<<p, NoLine>> : p \in {NoPath} \cup Paths(diff)}

LEMMA InsightsWeigh ==
  ASSUME NEW in \in Inputs, NEW i \in DOMAIN Insights[in]
  PROVE  Weighty(Insights[in][i]) /\ Insights[in][i].place \in InsightPlaces(Given[in].diff)
<1>1. PICK context \in Context : context = Given[in].context
  BY AgentReviewAssumption DEF IsInput
<1>2. Insights[in] = InsightsOf(context)
  BY <1>1, AgentReviewAssumption
<1>3. PICK risky \in Seq([path : Path, bugs : Nat \ {0}]) : risky = context.regression
  BY DEF Context
<1> DEFINE places == InsightPlaces(Given[in].diff)
<1> DEFINE blast == [agent |-> "memory", dim |-> "architecture", cat |-> "blast-radius", sev |-> "info",
                     conf |-> 90, src |-> "deterministic", place |-> <<NoPath, NoLine>>]
           risk(r) == [agent |-> "memory", dim |-> "correctness", cat |-> "regression-risk",
                       sev |-> IF risky[r].bugs >= 3 THEN "medium" ELSE "low",
                       conf |-> Smaller(50 + 10 * risky[r].bugs, 90), src |-> "deterministic",
                       place |-> <<risky[r].path, NoLine>>]
<1>4. PICK tail : tail = [r \in DOMAIN risky |-> risk(r)]
  OBVIOUS
<1>5. PICK wide : wide = blast
  OBVIOUS
<1>6. PICK head : head = IF context.blast = <<>> THEN <<>> ELSE <<wide>>
  OBVIOUS
<1>7. InsightsOf(context) = head \o tail
  BY <1>3, <1>4, <1>5, <1>6 DEF InsightsOf
<1>0. <<NoPath, NoLine>> \in places /\ \A r \in DOMAIN risky : <<risky[r].path, NoLine>> \in places
  <2>1. \A r \in DOMAIN risky : risky[r].path \in Paths(Given[in].diff)
    BY <1>1, <1>3, AgentReviewAssumption DEF IsInput
  <2> QED
    BY <2>1 DEF InsightPlaces
<1>8. /\ Weighty(blast) /\ blast.place \in places
      /\ \A r \in DOMAIN risky : Weighty(risk(r)) /\ risk(r).place \in places
  <2>1. Weighty(blast) /\ blast.place \in places
    BY <1>0 DEF Weighty
  <2>2. ASSUME NEW r \in DOMAIN risky PROVE Weighty(risk(r)) /\ risk(r).place \in places
    <3>0. risky[r] \in [path : Path, bugs : Nat \ {0}]
      <4>1. PICK T : T = [path : Path, bugs : Nat \ {0}]
        OBVIOUS
      <4>2. risky \in Seq(T)
        BY <4>1
      <4>3. risky[r] \in T
        BY <4>2
      <4> QED
        BY <4>1, <4>3
    <3>1. PICK b : b = risky[r].bugs
      OBVIOUS
    <3>2. b \in Nat /\ b # 0
      BY <3>0, <3>1
    <3>3. Smaller(50 + 10 * b, 90) >= 60
      BY <3>2 DEF Smaller
    <3> QED
      BY <1>0, <3>1, <3>3 DEF Weighty
  <2> QED
    BY <2>1, <2>2
<1> DEFINE S == {x \in {wide} \cup {tail[r] : r \in DOMAIN risky} : Weighty(x) /\ x.place \in places}
<1>9. head \in Seq(S) /\ tail \in Seq(S)
  <2>1. wide \in S
    BY <1>5, <1>8
  <2>2. \A r \in DOMAIN risky : tail[r] \in S
    BY <1>4, <1>8
  <2>3. DOMAIN tail = 1..Len(risky) /\ Len(risky) \in Nat /\ DOMAIN risky = 1..Len(risky) /\ tail = [r \in DOMAIN risky |-> tail[r]]
    BY <1>4
  <2> HIDE DEF S
  <2>4. tail \in Seq(S)
    BY <2>2, <2>3
  <2> QED
    BY <1>6, <2>1, <2>4
<1>10. \A x \in S : Weighty(x) /\ x.place \in places
  OBVIOUS
<1> HIDE DEF S
<1>11. Insights[in][i] \in S
  <2>1. PICK s : s = head \o tail
    OBVIOUS
  <2>2. i \in DOMAIN s /\ Insights[in][i] = s[i]
    BY <1>2, <1>7, <2>1
  <2>3. s[i] \in S
    BY <1>9, <2>1, <2>2, ConcatParts
  <2> QED
    BY <2>2, <2>3
<1> QED
  BY <1>10, <1>11

LEMMA GateGrows ==
  ASSUME NEW f \in Finding, NEW m \in Nat, NEW n \in Nat, m <= n,
         Gate(f.sev, Weighted(f, m, Multiplier(NoAdjustments, f.cat))) = "post"
  PROVE  Gate(f.sev, Weighted(f, n, Multiplier(NoAdjustments, f.cat))) = "post"
<1>1. Multiplier(NoAdjustments, f.cat) = [num |-> 1, den |-> 1]
  BY DEF Multiplier, NoAdjustments
<1>2. PICK v, w : v = Weighted(f, m, [num |-> 1, den |-> 1]) /\ w = Weighted(f, n, [num |-> 1, den |-> 1])
  OBVIOUS
<1>3. PICK q \in Nat : q = f.conf * DimensionWeight[f.dim] * SourceMultiplier[f.src]
  <2>1. f.conf \in Nat /\ DimensionWeight[f.dim] \in Nat /\ SourceMultiplier[f.src] \in Nat
    <3>1. f.conf \in Nat /\ f.dim \in Dimension /\ f.src \in Source
      BY DEF Finding
    <3>2. \A d \in Dimension : DimensionWeight[d] \in Nat
      BY DEF Dimension, DimensionWeight
    <3>3. \A s \in Source : SourceMultiplier[s] \in Nat
      BY DEF Source, SourceMultiplier
    <3> QED
      BY <3>1, <3>2, <3>3
  <2>2. \A x, y, z \in Nat : x * y * z \in Nat
    OBVIOUS
  <2> QED
    BY <2>1, <2>2
<1>4. PICK x \in Nat, y \in Nat : x = q * (19 + m) /\ y = q * (19 + n) /\ x <= y
  <2>1. q * (19 + n) \in Nat /\ q * (19 + n) >= q * (19 + m)
    BY Products
  <2>2. q * (19 + m) \in Nat
    OBVIOUS
  <2> QED
    BY <2>1, <2>2
<1>5. v.num = x * 1 /\ w.num = y * 1 /\ v.den = 400000 * 1 /\ w.den = 400000 * 1
  BY <1>2, <1>3, <1>4 DEF Weighted
<1>6. AtLeast(v, 15) \/ (f.sev \in Serious /\ AtLeast(v, 10))
  BY <1>1, <1>2 DEF Gate
<1>7. (AtLeast(v, 15) => AtLeast(w, 15)) /\ (AtLeast(v, 10) => AtLeast(w, 10))
  BY <1>4, <1>5 DEF AtLeast
<1> QED
  BY <1>1, <1>2, <1>6, <1>7 DEF Gate

LEMMA WeightyPosts ==
  ASSUME NEW f \in Finding, Weighty(f), NEW n \in Nat, n >= 2
  PROVE  Gate(f.sev, Weighted(f, n, Multiplier(NoAdjustments, f.cat))) = "post"
<1>1. PICK c \in 0..100 : c = f.conf
  BY DEF Finding
<1>2. PICK d \in {10, 12} : d = DimensionWeight[f.dim] /\ c * d * 20 >= 14400
  <2>1. CASE f.dim = "architecture" /\ f.conf = 90
    <3>1. DimensionWeight[f.dim] = 10 /\ c = 90
      BY <1>1, <2>1 DEF DimensionWeight
    <3> QED
      BY <3>1
  <2>2. CASE f.dim = "correctness" /\ f.conf >= 60
    <3>1. DimensionWeight[f.dim] = 12 /\ c >= 60
      BY <1>1, <2>2 DEF DimensionWeight
    <3> QED
      BY <3>1
  <2> QED
    BY <2>1, <2>2 DEF Weighty
<1>3. SourceMultiplier[f.src] = 20
  BY DEF Weighty, SourceMultiplier
<1>4. PICK p \in Nat : p = c * d * 20 * (19 + n) /\ p >= 300000
  <2>1. PICK x \in Nat : x = c * d * 20
    BY <1>2
  <2>2. PICK y \in Nat : y = 19 + n /\ y >= 21
    OBVIOUS
  <2>3. x * y \in Nat /\ x * y >= 14400 * 21
    BY <1>2, <2>1, <2>2, Products
  <2> QED
    BY <2>1, <2>2, <2>3
<1> QED
  BY <1>1, <1>2, <1>3, <1>4, GateAtLeast

(* An issue that an agent's report would have posted is posted with the    *)
(* insights in it.                                                         *)
LEMMA PostedStays ==
  ASSUME NEW s \in Seq(Finding), NEW ins \in Seq(Finding), NEW a, a # "memory",
         \A i \in DOMAIN s : s[i].agent = a, \A i \in DOMAIN ins : Weighty(ins[i]),
         NEW k \in Keys(s), Item(s, NoAdjustments, k).gate = "post"
  PROVE  k \in Keys(s \o ins) /\ Item(s \o ins, NoAdjustments, k).gate = "post"
<1>1. PICK own \in Seq(Finding) : own = s \o ins
  BY ConcatFacts
<1>2. DOMAIN s \subseteq DOMAIN own /\ \A i \in DOMAIN s : own[i] = s[i]
  BY <1>1, ConcatFacts
<1>3. PICK G, O : G = Group(s, k) /\ O = Group(own, k)
  OBVIOUS
<1>4. /\ G \subseteq O /\ G # {} /\ G \subseteq DOMAIN s /\ O \subseteq DOMAIN own
      /\ \A i \in O : i \in DOMAIN s => i \in G
  BY <1>2, <1>3 DEF Group, Keys
<1>5. k \in Keys(own)
  BY <1>3, <1>4 DEF Group, Keys
<1>6. PICK A, B : A = {s[i].agent : i \in G} /\ B = {own[i].agent : i \in O}
  OBVIOUS
<1>7. A \subseteq B /\ a \in B /\ IsFiniteSet(B)
  <2>1. A \subseteq B
    BY <1>2, <1>4, <1>6
  <2>2. a \in A
    BY <1>4, <1>6
  <2>3. IsFiniteSet(B)
    BY <1>4, <1>6, AgentsFinite
  <2> QED
    BY <2>1, <2>2, <2>3
<1>8. PICK m \in Nat, n \in Nat : m = Agreement(s, k) /\ n = Agreement(own, k) /\ n = Cardinality(B) /\ m <= n
  <2>1. Agreement(s, k) = Cardinality(A) /\ Agreement(own, k) = Cardinality(B)
    BY <1>3, <1>6 DEF Agreement
  <2>2. Cardinality(A) <= Cardinality(B) /\ IsFiniteSet(A)
    BY <1>7, FS_Subset
  <2>3. Cardinality(A) \in Nat /\ Cardinality(B) \in Nat
    BY <1>7, <2>2, FS_CardinalityType
  <2> QED
    BY <2>1, <2>2, <2>3
<1>9. PICK i \in DOMAIN own : IsRep(own, k, i)
  BY <1>5, RepExists
<1>10. PICK f \in Finding : f = own[i]
  OBVIOUS
<1>11. Rep(own, k) = f
  BY <1>9, <1>10, RepIs
<1>12. i \in O
  BY <1>3, <1>9 DEF IsRep
<1>13. CASE i \in DOMAIN s
  <2>1. IsRep(s, k, i)
    <3>1. i \in G
      BY <1>4, <1>12, <1>13
    <3>2. ASSUME NEW j \in G PROVE ~Stronger(s[j], s[i]) /\ (j < i => Stronger(s[i], s[j]))
      <4>1. ~Stronger(own[j], own[i]) /\ (j < i => Stronger(own[i], own[j]))
        BY <1>3, <1>4, <1>9 DEF IsRep
      <4>2. own[j] = s[j] /\ own[i] = s[i]
        BY <1>2, <1>4, <1>13
      <4> QED
        BY <4>1, <4>2
    <3> QED
      BY <1>3, <3>1, <3>2 DEF IsRep
  <2>2. Rep(s, k) = f
    BY <1>2, <1>10, <1>13, <2>1, RepIs
  <2>3. Gate(f.sev, Weighted(f, m, Multiplier(NoAdjustments, f.cat))) = "post"
    BY <1>8, <2>2 DEF Item
  <2> QED
    BY <1>1, <1>5, <1>8, <1>11, <2>3, GateGrows DEF Item
<1>14. CASE i \notin DOMAIN s
  <2>1. PICK j : j = i - Len(s)
    OBVIOUS
  <2>2. j \in DOMAIN ins /\ f = ins[j]
    BY <1>1, <1>10, <1>14, <2>1, ConcatParts
  <2>3. Weighty(f)
    BY <2>2
  <2>4. n >= 2
    <3>1. {a, "memory"} \subseteq B
      BY <1>6, <1>7, <1>10, <1>12, <2>3 DEF Weighty
    <3>2. IsFiniteSet({a, "memory"}) /\ Cardinality({a, "memory"}) = 2
      <4>1. PICK T : T = {a}
        OBVIOUS
      <4>2. {a, "memory"} = T \cup {"memory"}
        BY <4>1
      <4>3. IsFiniteSet(T) /\ Cardinality(T) = 1 /\ "memory" \notin T
        BY <4>1, FS_Singleton
      <4>4. PICK U : U = T \cup {"memory"}
        OBVIOUS
      <4>5. IsFiniteSet(U) /\ Cardinality(U) = 2
        BY <4>3, <4>4, FS_AddElement
      <4> QED
        BY <4>2, <4>4, <4>5
    <3>3. Cardinality({a, "memory"}) <= Cardinality(B)
      BY <1>7, <3>1, FS_Subset
    <3> QED
      BY <1>8, <3>2, <3>3
  <2> QED
    BY <1>1, <1>5, <1>8, <1>11, <2>3, <2>4, WeightyPosts DEF Item
<1> QED
  BY <1>13, <1>14

LEMMA EligibleHasNoCode ==
  ASSUME NEW in \in Inputs, Eligible(FilesOf(Given[in].diff)), NEW f \in FilesOf(Given[in].diff)
  PROVE  ~IsCode(f)
<1>1. KindOf(f) \in Kind
  BY AgentReviewAssumption DEF IsInput, IsDiff, FilesOf
<1>2. f.name = "lockfile" => f.lang \in {"yaml", "other"}
  BY <1>1 DEF Kind, KindOf
<1>3. \A l \in {"yaml", "other"} : l \notin Backend
  BY DEF Backend
<1> QED
  BY <1>2, <1>3 DEF Eligible, OnlyDocs, OnlyLockfiles, IsCode

(* For any diff and any agents: what a review approves has no code in it,  *)
(* and no agent's report that would have been posted alone.                *)
THEOREM ApprovalsAreHarmless == ReviewSpec => []ApprovalIsHarmless
<1>1. ASSUME AInv, event = "APPROVE"
      PROVE  Done /\ Eligible(Files) /\ Posted(findings, NoAdjustments) = {} /\ input \in Inputs
  <2>1. Done
    BY <1>1 DEF Done
  <2>2. event = Event(Files, findings)
    BY <1>1, <2>1 DEF AInv, Concluded
  <2> QED
    BY <1>1, <2>1, <2>2, AgentTypes DEF Event
<1>2. ASSUME AInv, event = "APPROVE", NEW f \in Files PROVE ~IsCode(f)
  BY <1>1, <1>2, EligibleHasNoCode DEF Files
<1>3. ASSUME AInv, event = "APPROVE", NEW a \in Agent, NEW k \in Keys(report[a]),
             Item(report[a], NoAdjustments, k).gate = "post"
      PROVE  FALSE
  <2>1. PICK s \in Seq(Finding), ins \in Seq(Finding), fs \in Seq(Finding) :
          s = report[a] /\ ins = Insights[input] /\ fs = Reported
    BY <1>3, AgentTypes
  <2>2. Done /\ Posted(findings, NoAdjustments) = {} /\ input \in Inputs
    BY <1>1, <1>3
  <2>3. PICK j \in DOMAIN s : DedupeKey(s[j]) = k
    BY <1>3, <2>1 DEF Keys
  <2>4. s \in Reports(a, input)
    <3>1. s # <<>>
      BY <2>3
    <3> QED
      BY <1>3, <2>1, <3>1 DEF AInv, OwnReport
  <2>5. \A i \in DOMAIN s : s[i].agent = a /\ s[i].dim = DimensionOf[a]
    <3>1. \A i \in DOMAIN s : RuleOf(s[i], a) \/ ModelOf(s[i], a)
      BY <2>2, <2>4, ReportsFacts
    <3> QED
      BY <3>1 DEF RuleOf, ModelOf
  <2>6. a # "memory"
    BY ReviewAssumption DEF Reviewers
  <2>7. \A i \in DOMAIN ins : Weighty(ins[i])
    BY <2>1, <2>2, InsightsWeigh
  <2>8. k \in Keys(s \o ins) /\ Item(s \o ins, NoAdjustments, k).gate = "post"
    BY <1>3, <2>1, <2>5, <2>6, <2>7, PostedStays
  <2>9. DimensionOf[a] = k[1]
    BY <2>3, <2>5 DEF DedupeKey
  <2>10. findings = fs \o ins /\ Joins(fs, report)
    BY <1>3, <2>1, <2>2 DEF AInv, Joined, Concluded
  <2>11. k \in Keys(findings)
    <3>1. PICK o \in Nat : Piece(fs, s, DimensionOf[a], o)
      BY <2>1, <2>10 DEF Joins
    <3>2. o + j \in DOMAIN fs /\ fs[o + j] = s[j]
      <4>1. j \in 1..Len(s) /\ Len(s) \in Nat /\ Len(fs) \in Nat
        BY <2>3
      <4>2. o + Len(s) <= Len(fs) /\ fs[o + j] = s[j]
        BY <3>1, <4>1 DEF Piece
      <4> QED
        BY <4>1, <4>2
    <3>3. o + j \in DOMAIN findings /\ findings[o + j] = s[j]
      BY <2>10, <3>2, ConcatFacts
    <3> QED
      BY <2>3, <3>3 DEF Keys
  <2>12. Item(findings, NoAdjustments, k).gate = "post"
    BY <1>3, <2>1, <2>2, <2>8, <2>9, <2>11, VerdictOfOwn
  <2> QED
    BY <2>2, <2>11, <2>12 DEF Posted, Items
<1>4. AInv => ApprovalIsHarmless
  BY <1>2, <1>3 DEF ApprovalIsHarmless, Posted, Items
<1> QED
  BY AgentInvHolds, <1>4, PTL

-----------------------------------------------------------------------------
(* Every finding is about the diff.                                        *)

LEMMA MinIs ==
  ASSUME NEW T \in SUBSET Nat, T # {}
  PROVE  Min(T) \in T
<1>1. \E m \in T : \A n \in T : m <= n
  BY LeastExists
<1> QED
  BY <1>1 DEF Min

(* One finding or none per file.                                           *)
LEMMA PerFile ==
  ASSUME NEW diff \in Seq(FileDiff), NEW g, g = [f \in DOMAIN diff |-> g[f]],
         \A f \in DOMAIN diff : g[f] \in Seq(RuleFinding(diff))
  PROVE  /\ FlattenSeq(g) \in Seq(RuleFinding(diff))
         /\ \A x \in ToSet(FlattenSeq(g)) : \E f \in DOMAIN diff : x \in ToSet(g[f])
<1>1. g \in [DOMAIN diff -> Seq(RuleFinding(diff))]
  OBVIOUS
<1> QED
  BY <1>1, FlattenMap

LEMMA DiffFile ==
  ASSUME NEW diff \in Seq(FileDiff), NEW f \in DOMAIN diff
  PROVE  /\ diff[f] \in ToSet(diff) /\ diff[f].added \in Seq(AddedLine)
         /\ <<diff[f].path, NoLine>> \in PlacesOf(diff[f])
         /\ \A l \in DOMAIN diff[f].added : <<diff[f].path, diff[f].added[l].n>> \in PlacesOf(diff[f])
<1>1. diff[f] \in ToSet(diff)
  BY DEF ToSet
<1> QED
  BY <1>1, FileFacts

LEMMA LongFunctionsIs ==
  ASSUME NEW diff \in Seq(FileDiff)
  PROVE  /\ LongFunctions(diff) \in Seq(RuleFinding(diff))
         /\ \A x \in ToSet(LongFunctions(diff)) : x.cat = "large-change-surface"
<1> DEFINE Long(file) == /\ Len(file.added) > LongLines
                         /\ \E l \in DOMAIN file.added : "func-def" \in file.added[l].text
           Hit(file) == Report("architecture", "large-change-surface", "low", 60, file.path, file.added[1].n)
<1>1. PICK g : g = [f \in DOMAIN diff |-> Maybe(Long(diff[f]), Hit(diff[f]))]
  OBVIOUS
<1>2. ASSUME NEW f \in DOMAIN diff PROVE g[f] \in Seq(RuleFinding(diff))
  <2>1. g[f] = IF Long(diff[f]) THEN <<Hit(diff[f])>> ELSE <<>>
    BY <1>1 DEF Maybe
  <2>2. ASSUME Long(diff[f]) PROVE Hit(diff[f]) \in RuleFinding(diff)
    <3>1. PICK l : l \in DOMAIN diff[f].added
      BY <2>2
    <3>2. 1 \in DOMAIN diff[f].added
      <4>1. PICK lines \in Seq(AddedLine) : lines = diff[f].added
        BY DiffFile
      <4>2. 1 \in DOMAIN lines
        BY <3>1, <4>1
      <4> QED
        BY <4>1, <4>2
    <3>3. "architecture" \in Reviewers /\ "large-change-surface" \in RuleCategory /\ "low" \in Severity /\ 60 \in Nat
      BY DEF Reviewers, RuleCategory, Severity, SeverityWeight
    <3>4. <<diff[f].path, diff[f].added[1].n>> \in PlacesOf(diff[f]) /\ diff[f] \in ToSet(diff)
      BY <3>2, DiffFile
    <3> QED
      BY <3>3, <3>4, ReportIs
  <2> HIDE DEF Long, Hit
  <2> QED
    BY <2>1, <2>2
<1>3. LongFunctions(diff) = FlattenSeq(g)
  BY <1>1 DEF LongFunctions
<1>4. ASSUME NEW f \in DOMAIN diff, NEW x \in ToSet(g[f]) PROVE x.cat = "large-change-surface"
  <2>1. PICK hit : hit = Hit(diff[f])
    OBVIOUS
  <2>2. hit.cat = "large-change-surface"
    BY <2>1 DEF Report
  <2>3. g[f] \in {<<hit>>, <<>>}
    BY <1>1, <2>1 DEF Maybe
  <2>4. x = hit
    BY <1>4, <2>3 DEF ToSet
  <2> QED
    BY <2>2, <2>4
<1> HIDE DEF Hit
<1>5. g = [f \in DOMAIN diff |-> g[f]]
  BY <1>1
<1>6. /\ FlattenSeq(g) \in Seq(RuleFinding(diff))
      /\ \A x \in ToSet(FlattenSeq(g)) : \E f \in DOMAIN diff : x \in ToSet(g[f])
  BY <1>2, <1>5, PerFile
<1> QED
  BY <1>3, <1>4, <1>6

LEMMA NPlusOneIs ==
  ASSUME NEW diff \in Seq(FileDiff)
  PROVE  /\ NPlusOne(diff) \in Seq(RuleFinding(diff))
         /\ \A x \in ToSet(NPlusOne(diff)) : x.cat = "n-plus-one-query"
<1> DEFINE Calls(file, l) == {m \in DOMAIN file.added : m \in (l + 1)..(l + 11) /\ "db-call" \in file.added[m].text}
           Loops(file) == {l \in DOMAIN file.added : "loop" \in file.added[l].text /\ Calls(file, l) # {}}
           FirstCall(file) == Min(Calls(file, Min(Loops(file))))
           Hit(file) == Report("performance", "n-plus-one-query", "medium", 60, file.path,
                               file.added[FirstCall(file)].n)
<1>1. PICK g : g = [f \in DOMAIN diff |-> Maybe(Loops(diff[f]) # {}, Hit(diff[f]))]
  OBVIOUS
<1>2. ASSUME NEW f \in DOMAIN diff PROVE g[f] \in Seq(RuleFinding(diff))
  <2>1. g[f] = IF Loops(diff[f]) # {} THEN <<Hit(diff[f])>> ELSE <<>>
    BY <1>1 DEF Maybe
  <2>2. ASSUME Loops(diff[f]) # {} PROVE Hit(diff[f]) \in RuleFinding(diff)
    <3>1. DOMAIN diff[f].added \subseteq Nat
      <4>1. PICK lines \in Seq(AddedLine) : lines = diff[f].added
        BY DiffFile
      <4>2. DOMAIN lines \subseteq Nat
        OBVIOUS
      <4> QED
        BY <4>1, <4>2
    <3>2. PICK L : L = Loops(diff[f])
      OBVIOUS
    <3>3. L \in SUBSET Nat /\ L # {} /\ \A l \in L : Calls(diff[f], l) # {}
      BY <2>2, <3>1, <3>2
    <3>4. Min(L) \in L
      BY <3>3, MinIs
    <3>5. PICK C : C = Calls(diff[f], Min(L))
      OBVIOUS
    <3>6. C \in SUBSET Nat /\ C # {} /\ C \subseteq DOMAIN diff[f].added
      BY <3>1, <3>3, <3>4, <3>5
    <3>7. Min(C) \in DOMAIN diff[f].added
      BY <3>6, MinIs
    <3>8. "performance" \in Reviewers /\ "n-plus-one-query" \in RuleCategory /\ "medium" \in Severity /\ 60 \in Nat
      BY DEF Reviewers, RuleCategory, Severity, SeverityWeight
    <3>9. <<diff[f].path, diff[f].added[Min(C)].n>> \in PlacesOf(diff[f]) /\ diff[f] \in ToSet(diff)
      BY <3>7, DiffFile
    <3>10. Report("performance", "n-plus-one-query", "medium", 60, diff[f].path, diff[f].added[Min(C)].n)
             \in RuleFinding(diff)
      BY <3>8, <3>9, ReportIs
    <3> QED
      BY <3>2, <3>5, <3>10
  <2> HIDE DEF Loops, Hit
  <2> QED
    BY <2>1, <2>2
<1>3. NPlusOne(diff) = FlattenSeq(g)
  BY <1>1 DEF NPlusOne
<1>4. ASSUME NEW f \in DOMAIN diff, NEW x \in ToSet(g[f]) PROVE x.cat = "n-plus-one-query"
  <2>1. PICK hit : hit = Hit(diff[f])
    OBVIOUS
  <2>2. hit.cat = "n-plus-one-query"
    BY <2>1 DEF Report
  <2>3. g[f] \in {<<hit>>, <<>>}
    BY <1>1, <2>1 DEF Maybe
  <2>4. x = hit
    BY <1>4, <2>3 DEF ToSet
  <2> QED
    BY <2>2, <2>4
<1> HIDE DEF Hit
<1>5. g = [f \in DOMAIN diff |-> g[f]]
  BY <1>1
<1>6. /\ FlattenSeq(g) \in Seq(RuleFinding(diff))
      /\ \A x \in ToSet(FlattenSeq(g)) : \E f \in DOMAIN diff : x \in ToSet(g[f])
  BY <1>2, <1>5, PerFile
<1> QED
  BY <1>3, <1>4, <1>6

LEMMA MissingDocstringsIs ==
  ASSUME NEW diff \in Seq(FileDiff)
  PROVE  MissingDocstrings(diff) \in Seq(RuleFinding(diff))
<1> DEFINE Next3(file, l) == {m \in DOMAIN file.added : m \in (l + 1)..(l + 3) /\ "blank" \notin file.added[m].text}
           Documented(file, l) == Next3(file, l) # {} /\ "docstring" \in file.added[Min(Next3(file, l))].text
           Hit(file, l) == Report("documentation", "missing-docstring", "low", 70, file.path, file.added[l].n)
           OnLine(file, l) ==
             Maybe(file.lang = "python" /\ "public-def" \in file.added[l].text /\ ~Documented(file, l),
                   Hit(file, l))
           OnFile(file) == FlattenSeq([l \in DOMAIN file.added |-> OnLine(file, l)])
<1>1. ASSUME NEW f \in DOMAIN diff PROVE OnFile(diff[f]) \in Seq(RuleFinding(diff))
  <2>1. PICK file : file = diff[f]
    OBVIOUS
  <2>2. ASSUME NEW l \in DOMAIN file.added PROVE OnLine(file, l) \in Seq(RuleFinding(diff))
    <3>1. "documentation" \in Reviewers /\ "missing-docstring" \in RuleCategory /\ "low" \in Severity /\ 70 \in Nat
      BY DEF Reviewers, RuleCategory, Severity, SeverityWeight
    <3>2. <<file.path, file.added[l].n>> \in PlacesOf(file) /\ file \in ToSet(diff)
      BY <2>1, DiffFile
    <3>3. Hit(file, l) \in RuleFinding(diff)
      BY <3>1, <3>2, ReportIs
    <3> HIDE DEF Documented, Hit
    <3> QED
      BY <3>3 DEF Maybe
  <2>3. PICK g : g = [l \in DOMAIN file.added |-> OnLine(file, l)]
    OBVIOUS
  <2>4. file.added \in Seq(AddedLine)
    BY <2>1, DiffFile
  <2> HIDE DEF OnLine
  <2>5. g \in [DOMAIN file.added -> Seq(RuleFinding(diff))]
    BY <2>2, <2>3
  <2>6. FlattenSeq(g) \in Seq(RuleFinding(diff))
    BY <2>4, <2>5, FlattenMap
  <2> QED
    BY <2>1, <2>3, <2>6
<1>2. PICK g : g = [f \in DOMAIN diff |-> OnFile(diff[f])]
  OBVIOUS
<1>3. MissingDocstrings(diff) = FlattenSeq(g)
  BY <1>2 DEF MissingDocstrings
<1>4. \A f \in DOMAIN diff : g[f] \in Seq(RuleFinding(diff))
  <2> HIDE DEF OnFile
  <2> QED
    BY <1>1, <1>2
<1>5. g = [f \in DOMAIN diff |-> g[f]]
  <2> HIDE DEF OnFile
  <2> QED
    BY <1>2
<1> QED
  BY <1>3, <1>4, <1>5, PerFile

LEMMA CircularDependenciesIs ==
  ASSUME NEW diff \in Seq(FileDiff), NEW context \in Context,
         \A c \in DOMAIN context.cycles : ToSet(context.cycles[c]) \cap Paths(diff) # {}
  PROVE  /\ CircularDependencies(diff, context) \in Seq(RuleFinding(diff))
         /\ \A x \in ToSet(CircularDependencies(diff, context)) : x.cat = "circular-dependency"
<1> DEFINE Touched(cycle) == {p \in DOMAIN cycle : cycle[p] \in Paths(diff)}
           Anchor(cycle) == cycle[IF Touched(cycle) = {} THEN 1 ELSE Min(Touched(cycle))]
           Hit(path) == Report("architecture", "circular-dependency", "medium", 85, path, NoLine)
<1>1. PICK cycles \in Seq(Seq(Path)) : cycles = context.cycles
  BY DEF Context
<1>2. PICK g : g = [c \in DOMAIN cycles |-> Hit(Anchor(cycles[c]))]
  OBVIOUS
<1>3. ASSUME NEW path \in Paths(diff) PROVE Hit(path) \in RuleFinding(diff)
  <2>1. PICK f \in DOMAIN diff : path = diff[f].path
    BY DEF Paths
  <2>2. "architecture" \in Reviewers /\ "circular-dependency" \in RuleCategory /\ "medium" \in Severity /\ 85 \in Nat
    BY DEF Reviewers, RuleCategory, Severity, SeverityWeight
  <2>3. <<diff[f].path, NoLine>> \in PlacesOf(diff[f]) /\ diff[f] \in ToSet(diff)
    BY DiffFile
  <2> QED
    BY <2>1, <2>2, <2>3, ReportIs
<1>4. ASSUME NEW c \in DOMAIN cycles PROVE Anchor(cycles[c]) \in Paths(diff)
  <2>1. PICK cycle \in Seq(Path) : cycle = cycles[c]
    OBVIOUS
  <2>2. PICK T : T = Touched(cycle)
    OBVIOUS
  <2>3. T \in SUBSET Nat /\ T # {} /\ \A p \in T : cycle[p] \in Paths(diff)
    <3>1. ToSet(cycle) \cap Paths(diff) # {}
      BY <1>1, <2>1
    <3>2. T # {}
      BY <2>2, <3>1 DEF ToSet
    <3>3. DOMAIN cycle \subseteq Nat
      OBVIOUS
    <3> QED
      BY <2>2, <3>2, <3>3
  <2>4. Min(T) \in T
    BY <2>3, MinIs
  <2>5. Anchor(cycle) = cycle[Min(T)]
    BY <2>2, <2>3
  <2> QED
    BY <2>1, <2>3, <2>4, <2>5
<1>5. ASSUME NEW c \in DOMAIN cycles PROVE g[c] \in RuleFinding(diff)
  <2> HIDE DEF Anchor, Hit
  <2> QED
    BY <1>2, <1>3, <1>4
<1>6. g \in Seq(RuleFinding(diff))
  <2>1. g = [c \in DOMAIN cycles |-> g[c]]
    BY <1>2
  <2>2. DOMAIN cycles = 1..Len(cycles) /\ Len(cycles) \in Nat
    OBVIOUS
  <2>3. PICK R : R = RuleFinding(diff)
    OBVIOUS
  <2>4. \A c \in 1..Len(cycles) : g[c] \in R
    BY <1>5, <2>2, <2>3
  <2>5. g \in Seq(R)
    BY <2>1, <2>2, <2>4
  <2> QED
    BY <2>3, <2>5
<1>7. CircularDependencies(diff, context) = g
  BY <1>1, <1>2 DEF CircularDependencies
<1>8. \A x \in ToSet(g) : x.cat = "circular-dependency"
  <2>1. \A path : Hit(path).cat = "circular-dependency"
    BY DEF Report
  <2> HIDE DEF Anchor, Hit
  <2> QED
    BY <1>2, <2>1 DEF ToSet
<1> QED
  BY <1>6, <1>7, <1>8

LEMMA MissingTestsIs ==
  ASSUME NEW diff \in Seq(FileDiff)
  PROVE  /\ MissingTests(diff) \in Seq(RuleFinding(diff))
         /\ MissingTests(diff) # <<>> => \E f \in DOMAIN diff : IsProduction(diff[f])
<1>1. PICK production : production = {f \in DOMAIN diff : IsProduction(diff[f])}
  OBVIOUS
<1>2. PICK first : first = diff[Min(production)]
  OBVIOUS
<1>3. PICK line : line = IF first.added = <<>> THEN NoLine ELSE first.added[1].n
  OBVIOUS
<1>4. PICK hit : hit = Report("testing", "missing-tests", "medium", 70, first.path, line)
  OBVIOUS
<1>5. MissingTests(diff) = Maybe(production # {} /\ \A f \in DOMAIN diff : ~diff[f].test, hit)
  BY <1>1, <1>2, <1>3, <1>4 DEF MissingTests
<1>6. ASSUME production # {} PROVE hit \in RuleFinding(diff)
  <2>1. production \in SUBSET Nat /\ production \subseteq DOMAIN diff
    BY <1>1
  <2>2. PICK f \in DOMAIN diff : f = Min(production)
    BY <1>6, <2>1, MinIs
  <2>3. first \in ToSet(diff) /\ <<first.path, NoLine>> \in PlacesOf(first)
    BY <1>2, <2>2, DiffFile
  <2>4. <<first.path, line>> \in PlacesOf(first)
    <3>1. PICK lines \in Seq(AddedLine) : lines = first.added
      BY <1>2, <2>2, DiffFile
    <3>2. lines # <<>> => 1 \in DOMAIN lines
      OBVIOUS
    <3>3. first.added # <<>> => <<first.path, first.added[1].n>> \in PlacesOf(first)
      BY <1>2, <2>2, <3>1, <3>2, DiffFile
    <3> QED
      BY <1>3, <2>3, <3>3
  <2>5. "testing" \in Reviewers /\ "missing-tests" \in RuleCategory /\ "medium" \in Severity /\ 70 \in Nat
    BY DEF Reviewers, RuleCategory, Severity, SeverityWeight
  <2> QED
    BY <1>4, <2>3, <2>4, <2>5, ReportIs
<1>7. production # {} => \E f \in DOMAIN diff : IsProduction(diff[f])
  BY <1>1
<1>8. MissingTests(diff) \in {<<hit>>, <<>>} /\ (MissingTests(diff) # <<>> => production # {})
  BY <1>5 DEF Maybe
<1>9. PICK R : R = RuleFinding(diff)
  OBVIOUS
<1>10. <<>> \in Seq(R) /\ (hit \in R => <<hit>> \in Seq(R))
  OBVIOUS
<1>11. MissingTests(diff) \in Seq(R)
  BY <1>6, <1>8, <1>9, <1>10
<1> QED
  BY <1>7, <1>8, <1>9, <1>11

(* Of the files that pass a test of the agent's.                           *)
LEMMA ThoseIs ==
  ASSUME NEW diff \in Seq(FileDiff), NEW found \in [DOMAIN diff -> BOOLEAN],
         NEW sub, sub = FlattenSeq([f \in DOMAIN diff |-> Maybe(found[f], diff[f])])
  PROVE  /\ sub \in Seq(FileDiff) /\ RuleFinding(sub) \subseteq RuleFinding(diff)
         /\ sub # <<>> => \E f \in DOMAIN diff : found[f]
<1> DEFINE S == {file \in ToSet(diff) : file \in FileDiff}
<1>1. PICK g : g = [f \in DOMAIN diff |-> Maybe(found[f], diff[f])]
  OBVIOUS
<1>2. ASSUME NEW f \in DOMAIN diff PROVE g[f] \in Seq(S) /\ (g[f] # <<>> => found[f])
  <2>1. diff[f] \in S
    BY DEF ToSet
  <2> HIDE DEF S
  <2> QED
    BY <1>1, <2>1 DEF Maybe
<1>3. g \in [DOMAIN diff -> Seq(S)]
  <2> HIDE DEF S
  <2> QED
    BY <1>1, <1>2
<1>4. sub \in Seq(S) /\ (sub # <<>> => \E f \in DOMAIN diff : g[f] # <<>>)
  <2> HIDE DEF S
  <2> QED
    BY <1>1, <1>3, FlattenMap
<1>5. sub \in Seq(FileDiff)
  BY <1>4
<1>6. ToSet(sub) \subseteq ToSet(diff)
  BY <1>4 DEF ToSet
<1>7. RuleFinding(sub) \subseteq RuleFinding(diff)
  <2>1. UNION {PlacesOf(file) : file \in ToSet(sub)} \subseteq UNION {PlacesOf(file) : file \in ToSet(diff)}
    BY <1>6
  <2>2. PICK P, Q : P = UNION {PlacesOf(file) : file \in ToSet(sub)} /\ Q = UNION {PlacesOf(file) : file \in ToSet(diff)}
    OBVIOUS
  <2> QED
    BY <2>1, <2>2 DEF RuleFinding
<1> QED
  BY <1>2, <1>4, <1>5, <1>7

LEMMA DevOpsFindingsIs ==
  ASSUME NEW diff \in Seq(FileDiff)
  PROVE  /\ DevOpsFindings(diff) \in Seq(RuleFinding(diff))
         /\ DevOpsFindings(diff) # <<>> =>
              \E f \in DOMAIN diff : IsDockerfile(diff[f]) \/ IsDeployment(diff[f])
<1>1. PICK docker, deploy :
        /\ docker = FlattenSeq([f \in DOMAIN diff |-> Maybe(IsDockerfile(diff[f]), diff[f])])
        /\ deploy = FlattenSeq([f \in DOMAIN diff |-> Maybe(IsDeployment(diff[f]), diff[f])])
  OBVIOUS
<1>2. PICK isDocker, isDeploy :
        /\ isDocker = [f \in DOMAIN diff |-> IsDockerfile(diff[f])]
        /\ isDeploy = [f \in DOMAIN diff |-> IsDeployment(diff[f])]
  OBVIOUS
<1>3. isDocker \in [DOMAIN diff -> BOOLEAN] /\ isDeploy \in [DOMAIN diff -> BOOLEAN]
  <2>1. \A f \in DOMAIN diff : IsDockerfile(diff[f]) \in BOOLEAN
    BY DEF IsDockerfile
  <2>2. \A f \in DOMAIN diff : IsDeployment(diff[f]) \in BOOLEAN
    <3>1. \A f \in DOMAIN diff : diff[f] \in FileDiff
      OBVIOUS
    <3> QED
      BY <3>1 DEF IsDeployment, IsDockerfile, FileDiff
  <2> QED
    BY <1>2, <2>1, <2>2
<1>4. /\ docker = FlattenSeq([f \in DOMAIN diff |-> Maybe(isDocker[f], diff[f])])
      /\ deploy = FlattenSeq([f \in DOMAIN diff |-> Maybe(isDeploy[f], diff[f])])
  <2>1. [f \in DOMAIN diff |-> Maybe(isDocker[f], diff[f])] = [f \in DOMAIN diff |-> Maybe(IsDockerfile(diff[f]), diff[f])]
    BY <1>2
  <2>2. [f \in DOMAIN diff |-> Maybe(isDeploy[f], diff[f])] = [f \in DOMAIN diff |-> Maybe(IsDeployment(diff[f]), diff[f])]
    BY <1>2
  <2> QED
    BY <1>1, <2>1, <2>2
<1>5. /\ docker \in Seq(FileDiff) /\ RuleFinding(docker) \subseteq RuleFinding(diff)
      /\ docker # <<>> => \E f \in DOMAIN diff : isDocker[f]
  BY <1>3, <1>4, ThoseIs
<1>6. /\ deploy \in Seq(FileDiff) /\ RuleFinding(deploy) \subseteq RuleFinding(diff)
      /\ deploy # <<>> => \E f \in DOMAIN diff : isDeploy[f]
  BY <1>3, <1>4, ThoseIs
<1>7. PICK s, t : s = ScanRules(docker, DockerRules, "devops") /\ t = ScanRules(deploy, InfraRules, "devops")
  OBVIOUS
<1>8. "devops" \in Reviewers
  BY DEF Reviewers
<1>9. s \in Seq(RuleFinding(docker)) /\ (s # <<>> => docker # <<>>)
  BY <1>5, <1>7, <1>8, ScanRulesIs, AgentRulesTyped
<1>10. t \in Seq(RuleFinding(deploy)) /\ (t # <<>> => deploy # <<>>)
  BY <1>6, <1>7, <1>8, ScanRulesIs, AgentRulesTyped
<1>11. DevOpsFindings(diff) = s \o t
  BY <1>1, <1>7 DEF DevOpsFindings, Those
<1>12. s \in Seq(RuleFinding(diff)) /\ t \in Seq(RuleFinding(diff))
  BY <1>5, <1>6, <1>9, <1>10
<1>13. s \o t \in Seq(RuleFinding(diff)) /\ (s \o t # <<>> => s # <<>> \/ t # <<>>)
  BY <1>12
<1> QED
  BY <1>2, <1>5, <1>6, <1>9, <1>10, <1>11, <1>13

LEMMA RulesOfIs ==
  ASSUME NEW a \in Reviewers, NEW diff \in Seq(FileDiff), NEW context \in Context,
         \A c \in DOMAIN context.cycles : ToSet(context.cycles[c]) \cap Paths(diff) # {}
  PROVE  RulesOf(a, diff, context) \in Seq(RuleFinding(diff))
<1>1. PICK R : R = RuleFinding(diff)
  OBVIOUS
<1>2. /\ \A rules \in Seq(RuleType) : ScanRules(diff, rules, a) \in Seq(R)
      /\ ScanSecrets(diff) \in Seq(R) /\ LongFunctions(diff) \in Seq(R)
      /\ CircularDependencies(diff, context) \in Seq(R) /\ NPlusOne(diff) \in Seq(R)
      /\ MissingDocstrings(diff) \in Seq(R) /\ MissingTests(diff) \in Seq(R)
      /\ DevOpsFindings(diff) \in Seq(R)
  <2>1. \A rules \in Seq(RuleType) : ScanRules(diff, rules, a) \in Seq(R)
    BY <1>1, ScanRulesIs
  <2>2. ScanSecrets(diff) \in Seq(R) /\ LongFunctions(diff) \in Seq(R)
    BY <1>1, ScanSecretsIs, LongFunctionsIs
  <2>3. CircularDependencies(diff, context) \in Seq(R) /\ NPlusOne(diff) \in Seq(R)
    BY <1>1, CircularDependenciesIs, NPlusOneIs
  <2>4. MissingDocstrings(diff) \in Seq(R) /\ MissingTests(diff) \in Seq(R) /\ DevOpsFindings(diff) \in Seq(R)
    BY <1>1, MissingDocstringsIs, MissingTestsIs, DevOpsFindingsIs
  <2> QED
    BY <2>1, <2>2, <2>3, <2>4
<1>3. \A s, t \in Seq(R) : s \o t \in Seq(R)
  OBVIOUS
<1>4. CASE a = "security"
  <2>1. RulesOf(a, diff, context) = ScanRules(diff, SecurityRules, a) \o ScanSecrets(diff)
    BY <1>4 DEF RulesOf
  <2> QED
    BY <1>1, <1>2, <1>3, <2>1, AgentRulesTyped
<1>5. CASE a = "architecture"
  <2>1. RulesOf(a, diff, context) = ScanRules(diff, ArchitectureRules, a) \o LongFunctions(diff)
                                      \o CircularDependencies(diff, context)
    BY <1>5 DEF RulesOf
  <2> QED
    BY <1>1, <1>2, <1>3, <2>1, AgentRulesTyped
<1>6. CASE a = "performance"
  <2>1. RulesOf(a, diff, context) = ScanRules(diff, PerformanceRules, a) \o NPlusOne(diff)
    BY <1>6 DEF RulesOf
  <2> QED
    BY <1>1, <1>2, <1>3, <2>1, AgentRulesTyped
<1>7. CASE a = "documentation"
  BY <1>1, <1>2, <1>7 DEF RulesOf
<1>8. CASE a = "testing"
  BY <1>1, <1>2, <1>8 DEF RulesOf
<1>9. CASE a = "devops"
  BY <1>1, <1>2, <1>9 DEF RulesOf
<1>10. CASE a = "accessibility"
  <2>1. RulesOf(a, diff, context) = ScanRules(diff, AccessibilityRules, a)
    BY <1>10 DEF RulesOf
  <2> QED
    BY <1>1, <1>2, <2>1, AgentRulesTyped
<1>11. CASE a = "ai_reviewer"
  <2>1. RulesOf(a, diff, context) = <<>>
    BY <1>11 DEF RulesOf
  <2> QED
    BY <2>1
<1> QED
  BY <1>4, <1>5, <1>6, <1>7, <1>8, <1>9, <1>10, <1>11 DEF Reviewers

AboutDiff(diff, f) ==
  f.place[1] # NoPath =>
    \E i \in DOMAIN diff :
      /\ diff[i].path = f.place[1]
      /\ \/ f.src = "llm" \/ f.place[2] = NoLine
         \/ \E l \in DOMAIN diff[i].added : diff[i].added[l].n = f.place[2]

LEMMA RuleFindingIsAbout ==
  ASSUME NEW diff \in Seq(FileDiff), NEW f \in RuleFinding(diff)
  PROVE  AboutDiff(diff, f)
<1>1. PICK file \in ToSet(diff) : f.place \in PlacesOf(file)
  BY DEF RuleFinding
<1>2. PICK i \in DOMAIN diff : file = diff[i]
  BY DEF ToSet
<1>3. CASE f.place = <<file.path, NoLine>>
  BY <1>2, <1>3 DEF AboutDiff
<1>4. ASSUME NEW l \in DOMAIN file.added, f.place = <<file.path, file.added[l].n>>
      PROVE  AboutDiff(diff, f)
  BY <1>2, <1>4 DEF AboutDiff
<1> QED
  BY <1>1, <1>3, <1>4 DEF PlacesOf

LEMMA GivenFacts ==
  ASSUME NEW in \in Inputs
  PROVE  /\ Given[in].diff \in Seq(FileDiff) /\ Given[in].context \in Context
         /\ \A f \in DOMAIN Given[in].diff : KindOf(Given[in].diff[f]) \in Kind
         /\ \A c \in DOMAIN Given[in].context.cycles :
              ToSet(Given[in].context.cycles[c]) \cap Paths(Given[in].diff) # {}
         /\ \A a \in Agent : /\ a \in Reviewers
                             /\ Scans[a, in] = RulesOf(a, Given[in].diff, Given[in].context)
<1>1. ASSUME NEW a \in Agent
      PROVE  a \in Reviewers /\ Scans[a, in] = RulesOf(a, Given[in].diff, Given[in].context)
  <2>1. PICK p : p = <<a, in>>
    OBVIOUS
  <2>2. p \in Agent \X Inputs /\ p[1] = a /\ p[2] = in
    BY <2>1
  <2>3. Scans[p] = RulesOf(p[1], Given[p[2]].diff, Given[p[2]].context)
    BY <2>2, AgentReviewAssumption
  <2>4. Scans[p] = RulesOf(a, Given[in].diff, Given[in].context)
    BY <2>2, <2>3
  <2> QED
    BY <2>1, <2>4, ReviewAssumption
<1>2. IsInput(Given[in])
  BY AgentReviewAssumption
<1> QED
  BY <1>1, <1>2 DEF IsInput, IsDiff

LEMMA HeadOfSequence ==
  ASSUME NEW T, NEW s \in Seq(T), NEW n \in Nat, n <= Len(s)
  PROVE  SubSeq(s, 1, n) \in Seq(T)
OBVIOUS

LEMMA ParsedIsAbout ==
  ASSUME NEW a, NEW diff \in Seq(FileDiff), NEW items \in Seq(AnswerItem),
         NEW x \in ToSet(ParseAnswer(a, diff, items))
  PROVE  AboutDiff(diff, x)
<1> DEFINE Parsed(i) == [agent |-> a, dim |-> DimensionOf[a], cat |-> i.cat, sev |-> i.sev,
                         conf |-> Smaller(i.conf, 90), src |-> "llm", place |-> Located(diff, i)]
<1>1. PICK n : n = Smaller(MaxItems, Len(items))
  OBVIOUS
<1>2. n \in Nat /\ n <= Len(items)
  <2>1. Len(items) \in Nat /\ MaxItems \in Nat
    BY RulesAssumption
  <2> QED
    BY <1>1, <2>1 DEF Smaller
<1>3. PICK first \in Seq(AnswerItem) : first = SubSeq(items, 1, n)
  BY <1>2, HeadOfSequence
<1>4. PICK g : g = [i \in DOMAIN first |-> Maybe(first[i].valid, Parsed(first[i]))]
  OBVIOUS
<1>5. PICK S : S = {Parsed(first[i]) : i \in DOMAIN first}
  OBVIOUS
<1>6. ASSUME NEW i \in DOMAIN first PROVE g[i] \in Seq(S)
  <2>1. PICK y \in S : y = Parsed(first[i])
    BY <1>5
  <2>2. g[i] = IF first[i].valid THEN <<y>> ELSE <<>>
    BY <1>4, <2>1 DEF Maybe
  <2> QED
    BY <2>1, <2>2
<1>7. g \in [DOMAIN first -> Seq(S)]
  BY <1>4, <1>6
<1>8. FlattenSeq(g) \in Seq(S)
  BY <1>7, FlattenMap
<1>9. PICK s \in Seq(S) : s = ParseAnswer(a, diff, items)
  BY <1>1, <1>3, <1>4, <1>8 DEF ParseAnswer
<1>10. PICK m \in DOMAIN s : x = s[m]
  BY <1>9 DEF ToSet
<1>11. x \in S
  BY <1>10
<1>12. PICK i \in DOMAIN first : x = Parsed(first[i])
  BY <1>5, <1>11
<1>13. x.src = "llm" /\ x.place = Located(diff, first[i])
  BY <1>12
<1>14. x.place[1] \in Paths(diff) \cup {NoPath}
  BY <1>13 DEF Located
<1> QED
  BY <1>13, <1>14 DEF AboutDiff, Paths

LEMMA AnswerIsAbout ==
  ASSUME NEW a \in Agent, NEW in \in Inputs, NEW s \in Answers[a, in], NEW x \in ToSet(s)
  PROVE  AboutDiff(Given[in].diff, x)
<1>1. PICK diff \in Seq(FileDiff) : diff = Given[in].diff
  BY GivenFacts
<1>2. PICK p : p = <<a, in>>
  OBVIOUS
<1>3. p \in Agent \X Inputs /\ p[1] = a /\ p[2] = in
  BY <1>2
<1>4. Answers[p] = {ParseAnswer(p[1], Given[p[2]].diff, items) : items \in RawAnswers[p[1]]}
  BY <1>3, AgentReviewAssumption
<1>5. Answers[p] = {ParseAnswer(a, diff, items) : items \in RawAnswers[a]}
  BY <1>1, <1>3, <1>4
<1>6. s \in Answers[p]
  BY <1>2
<1>7. RawAnswers[a] \subseteq Seq(AnswerItem)
  BY AgentReviewAssumption
<1>8. PICK items \in RawAnswers[a] : s = ParseAnswer(a, diff, items)
  BY <1>5, <1>6
<1>9. items \in Seq(AnswerItem)
  BY <1>7, <1>8
<1>10. x \in ToSet(ParseAnswer(a, diff, items))
  BY <1>8
<1> QED
  BY <1>1, <1>9, <1>10, ParsedIsAbout

LEMMA InsightIsAbout ==
  ASSUME NEW in \in Inputs, NEW x \in ToSet(Insights[in])
  PROVE  AboutDiff(Given[in].diff, x)
<1>1. PICK diff : diff = Given[in].diff
  OBVIOUS
<1>2. PICK p \in {NoPath} \cup Paths(diff) : x.place = <<p, NoLine>>
  BY <1>1, InsightsWeigh DEF ToSet, InsightPlaces
<1> QED
  BY <1>1, <1>2 DEF AboutDiff, Paths

(* For any diff, context and answers: a finding names no file the diff     *)
(* does not have, and no line that a rule found elsewhere.                 *)
THEOREM FindingsStayInDiff == ReviewSpec => []FindingsAreAboutDiff
<1>1. ASSUME AInv, NEW j \in DOMAIN findings PROVE AboutDiff(Diff, findings[j])
  <2>1. PICK in \in Inputs : in = input
    BY <1>1, AgentTypes
  <2>2. PICK x : x = findings[j]
    OBVIOUS
  <2>3. PICK diff \in Seq(FileDiff) : diff = Given[in].diff
    BY GivenFacts
  <2>4. ASSUME NEW a \in Agent, NEW s \in Reports(a, in), x \in ToSet(s) PROVE AboutDiff(diff, x)
    <3>1. PICK rules \in Seq(RuleFinding(diff)) : rules = Scans[a, in]
      BY <2>3, GivenFacts, RulesOfIs
    <3>2. CASE x \in ToSet(rules)
      BY <3>2, RuleFindingIsAbout DEF ToSet
    <3>3. CASE x \notin ToSet(rules)
      <4>1. PICK model \in Answers[a, in] : s = rules \o model
        BY <2>4, <3>1, <3>3 DEF Reports
      <4>2. rules \in Seq(Finding) /\ model \in Seq(Finding)
        <5>1. Scans[a, in] \in Seq(Finding) /\ Answers[a, in] \subseteq Seq(Finding)
          BY ReviewAssumption
        <5> QED
          BY <3>1, <4>1, <5>1
      <4>3. x \in ToSet(model)
        <5>1. x \in ToSet(rules \o model)
          BY <2>4, <4>1
        <5>2. ToSet(rules \o model) = ToSet(rules) \cup ToSet(model)
          BY <4>2, ConcatElements
        <5> QED
          BY <3>3, <5>1, <5>2
      <4> QED
        BY <2>3, <4>3, AnswerIsAbout
    <3> QED
      BY <3>2, <3>3
  <2>5. ASSUME x \in ToSet(Insights[in]) PROVE AboutDiff(diff, x)
    BY <2>3, <2>5, InsightIsAbout
  <2> QED
    BY <1>1, <2>1, <2>2, <2>3, <2>4, <2>5, FindingIsOwn DEF Diff
<1>2. AInv => FindingsAreAboutDiff
  BY <1>1 DEF FindingsAreAboutDiff, AboutDiff
<1> QED
  BY AgentInvHolds, <1>2, PTL

(* A file in a language of the backend is no documentation.                *)
LEMMA CodeIsNotDocs ==
  ASSUME NEW f, KindOf(f) \in Kind, f.lang \in Backend
  PROVE  ~IsDocs(f)
<1>1. f.suffix = "docs" => f.lang \in {"markdown", "other"}
  BY DEF Kind, KindOf
<1> QED
  BY <1>1 DEF IsDocs, Backend

(* Which rules of a line are made for a kind of file.                      *)
LEMMA RuleKinds ==
  /\ \A r \in DOMAIN AccessibilityRules : AccessibilityRules[r].langs = Script
  /\ \A r \in DOMAIN ArchitectureRules : ArchitectureRules[r].langs \subseteq Backend
  /\ \A r \in DOMAIN PerformanceRules :
       \/ PerformanceRules[r].langs \subseteq Backend
       \/ PerformanceRules[r].cat \in AnyKindRules
<1>1. \A r \in DOMAIN AccessibilityRules : AccessibilityRules[r].langs = Script
  BY DEF AccessibilityRules, Rule
<1>2. \A r \in DOMAIN ArchitectureRules : ArchitectureRules[r].langs = Python
  BY DEF ArchitectureRules, Rule
<1>3. \A r \in DOMAIN PerformanceRules :
        \/ PerformanceRules[r].langs = Python
        \/ PerformanceRules[r].cat \in {"select-star", "unbounded-readall"}
  BY DEF PerformanceRules, Rule
<1>4. Python \subseteq Backend /\ {"select-star", "unbounded-readall"} \subseteq AnyKindRules
  BY DEF Python, Backend, AnyKindRules
<1> QED
  BY <1>1, <1>2, <1>3, <1>4

LEMMA ElementOfList ==
  ASSUME NEW R, NEW s \in Seq(R), NEW i \in DOMAIN s
  PROVE  s[i] \in ToSet(s) /\ s # <<>>
BY DEF ToSet

LEMMA ElementsOfThree ==
  ASSUME NEW R, NEW s \in Seq(R), NEW t \in Seq(R), NEW u \in Seq(R)
  PROVE  ToSet(s \o t \o u) = ToSet(s) \cup ToSet(t) \cup ToSet(u)
<1>1. s \o t \in Seq(R)
  OBVIOUS
<1>2. ToSet(s \o t) = ToSet(s) \cup ToSet(t)
  BY ConcatElements
<1>3. ToSet((s \o t) \o u) = ToSet(s \o t) \cup ToSet(u)
  BY <1>1, ConcatElements
<1> QED
  BY <1>2, <1>3

(* What the architecture agent says of a diff without code.                *)
LEMMA ArchitectureOfNoCode ==
  ASSUME NEW diff \in Seq(FileDiff), NEW context \in Context,
         \A c \in DOMAIN context.cycles : ToSet(context.cycles[c]) \cap Paths(diff) # {},
         \A f \in DOMAIN diff : diff[f].lang \notin Backend,
         NEW x \in ToSet(RulesOf("architecture", diff, context))
  PROVE  x.cat \in AnyKindRules
<1>1. PICK R : R = RuleFinding(diff)
  OBVIOUS
<1>2. PICK s \in Seq(R), t \in Seq(R), u \in Seq(R) :
        /\ s = ScanRules(diff, ArchitectureRules, "architecture") /\ t = LongFunctions(diff)
        /\ u = CircularDependencies(diff, context)
  <2>1. "architecture" \in Reviewers
    BY DEF Reviewers
  <2> QED
    BY <1>1, <2>1, ScanRulesIs, LongFunctionsIs, CircularDependenciesIs, AgentRulesTyped
<1>3. RulesOf("architecture", diff, context) = s \o t \o u
  BY <1>2 DEF RulesOf
<1>4. ToSet(s \o t \o u) = ToSet(s) \cup ToSet(t) \cup ToSet(u)
  BY ElementsOfThree
<1>5. x \in ToSet(s) \cup ToSet(t) \cup ToSet(u)
  BY <1>3, <1>4
<1>6. ASSUME x \in ToSet(s) PROVE FALSE
  <2>1. PICK f \in DOMAIN diff, r \in DOMAIN ArchitectureRules : diff[f].lang \in ArchitectureRules[r].langs
    <3>1. "architecture" \in Reviewers
      BY DEF Reviewers
    <3> QED
      BY <1>2, <1>6, <3>1, ScanRulesIs, AgentRulesTyped
  <2> QED
    BY <2>1, RuleKinds
<1>7. x.cat \in {"large-change-surface", "circular-dependency"}
  BY <1>2, <1>5, <1>6, LongFunctionsIs, CircularDependenciesIs
<1> QED
  BY <1>7 DEF AnyKindRules

(* For any diff: of an agent left out for the kind of the files, no rule   *)
(* made for a kind would have reported anything, but for a Dockerfile of   *)
(* the suffix.                                                             *)
THEOREM SpecialistsAreKept == ReviewSpec => []RoutingKeepsSpecialists
<1>1. ASSUME AInv, NEW a \in Agent, a \notin Selected(Files), NEW i \in DOMAIN Scans[a, input]
      PROVE  \/ Scans[a, input][i].cat \in AnyKindRules
             \/ a = "devops" /\ \E f \in DOMAIN Diff : Diff[f].suffix = "dockerfile"
  <2>1. PICK in \in Inputs : in = input
    BY <1>1, AgentTypes
  <2>2. PICK diff \in Seq(FileDiff) : /\ diff = Given[in].diff
                                      /\ \A f \in DOMAIN diff : KindOf(diff[f]) \in Kind
    BY GivenFacts
  <2>3. PICK context \in Context :
          /\ context = Given[in].context
          /\ \A c \in DOMAIN context.cycles : ToSet(context.cycles[c]) \cap Paths(diff) # {}
    BY <2>2, GivenFacts
  <2>4. Scans[a, in] = RulesOf(a, diff, context) /\ a \in Reviewers
    BY <2>2, <2>3, GivenFacts
  <2>5. PICK rules \in Seq(RuleFinding(diff)) : rules = RulesOf(a, diff, context)
    BY <2>3, <2>4, RulesOfIs
  <2>6. PICK x : x = Scans[a, input][i] /\ x \in ToSet(rules) /\ rules # <<>>
    <3>1. Scans[a, input] = rules
      BY <2>1, <2>4, <2>5
    <3>2. i \in DOMAIN rules
      BY <1>1, <3>1
    <3>3. rules[i] \in ToSet(rules) /\ rules # <<>>
      BY <3>2, ElementOfList
    <3> QED
      BY <3>1, <3>3
  <2>7. a \notin Selected(FilesOf(diff)) /\ \A f \in DOMAIN diff : diff[f] \in FilesOf(diff)
    BY <1>1, <2>1, <2>2 DEF Files, FilesOf
  <2>8. ASSUME NEW f \in DOMAIN diff, diff[f].lang \in Backend
        PROVE  ~OnlyDocs(FilesOf(diff)) /\ \E g \in FilesOf(diff) : IsCode(g)
    BY <2>2, <2>7, <2>8, CodeIsNotDocs DEF OnlyDocs, IsCode
  <2>9. ASSUME NEW f \in DOMAIN diff, diff[f].lang \in Backend
        PROVE  a \notin {"architecture", "testing", "performance"}
    BY <2>7, <2>8, <2>9 DEF Selected
  <2>10. ASSUME a = "accessibility" PROVE FALSE
    <3>1. ScanRules(diff, AccessibilityRules, a) # <<>>
      BY <2>5, <2>6, <2>10 DEF RulesOf
    <3>2. PICK f \in DOMAIN diff, r \in DOMAIN AccessibilityRules : diff[f].lang \in AccessibilityRules[r].langs
      BY <2>4, <3>1, ScanRulesIs, AgentRulesTyped
    <3>3. AccessibilityRules[r].langs = Script
      BY <3>2, RuleKinds
    <3>4. IsFrontend(diff[f])
      BY <3>2, <3>3 DEF Script, IsFrontend, Frontend
    <3> QED
      BY <2>7, <2>10, <3>4 DEF Selected
  <2>11. ASSUME a = "devops" PROVE \E f \in DOMAIN diff : diff[f].suffix = "dockerfile"
    <3>1. DevOpsFindings(diff) # <<>>
      BY <2>5, <2>6, <2>11 DEF RulesOf
    <3>2. PICK f \in DOMAIN diff : IsDockerfile(diff[f]) \/ IsDeployment(diff[f])
      BY <3>1, DevOpsFindingsIs
    <3>3. ~IsInfra(diff[f])
      BY <2>7, <2>11 DEF Selected
    <3> QED
      BY <3>2, <3>3 DEF IsDockerfile, IsDeployment, IsInfra, Infra
  <2>12. ASSUME a = "testing" PROVE FALSE
    <3>1. MissingTests(diff) # <<>>
      BY <2>5, <2>6, <2>12 DEF RulesOf
    <3>2. PICK f \in DOMAIN diff : IsProduction(diff[f])
      BY <3>1, MissingTestsIs
    <3>3. diff[f].lang \in Backend
      BY <3>2 DEF IsProduction, Backend
    <3> QED
      BY <2>9, <2>12, <3>3
  <2>13. ASSUME a = "architecture" PROVE x.cat \in AnyKindRules
    <3>1. \A f \in DOMAIN diff : diff[f].lang \notin Backend
      BY <2>9, <2>13
    <3>2. x \in ToSet(RulesOf("architecture", diff, context))
      BY <2>5, <2>6, <2>13
    <3> QED
      BY <2>3, <3>1, <3>2, ArchitectureOfNoCode
  <2>14. ASSUME a = "performance" PROVE x.cat \in AnyKindRules
    <3>1. PICK R : R = RuleFinding(diff)
      OBVIOUS
    <3>2. PICK s \in Seq(R), t \in Seq(R) :
            s = ScanRules(diff, PerformanceRules, a) /\ t = NPlusOne(diff)
      BY <2>4, <3>1, ScanRulesIs, NPlusOneIs, AgentRulesTyped
    <3>3. rules = s \o t
      BY <2>5, <2>14, <3>2 DEF RulesOf
    <3>4. x \in ToSet(s) \cup ToSet(t)
      BY <2>6, <3>3, ConcatElements
    <3>5. CASE x \in ToSet(s)
      <4>1. PICK f \in DOMAIN diff, r \in DOMAIN PerformanceRules :
              diff[f].lang \in PerformanceRules[r].langs /\ x.cat = PerformanceRules[r].cat
        BY <2>4, <3>2, <3>5, ScanRulesIs, AgentRulesTyped
      <4>2. diff[f].lang \notin Backend
        BY <2>9, <2>14
      <4> QED
        BY <4>1, <4>2, RuleKinds
    <3>6. CASE x \in ToSet(t)
      BY <3>2, <3>6, NPlusOneIs DEF AnyKindRules
    <3> QED
      BY <3>4, <3>5, <3>6
  <2>15. a # "ai_reviewer"
    BY <2>5, <2>6 DEF RulesOf
  <2>16. a \notin {"security", "documentation"}
    BY <2>7 DEF Selected
  <2> QED
    BY <2>1, <2>2, <2>4, <2>6, <2>10, <2>11, <2>12, <2>13, <2>14, <2>15, <2>16 DEF Diff, Reviewers
<1>2. AInv => RoutingKeepsSpecialists
  BY <1>1 DEF RoutingKeepsSpecialists
<1> QED
  BY AgentInvHolds, <1>2, PTL
=============================================================================
