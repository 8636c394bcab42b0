------------------------------ MODULE LLMRouter -----------------------------
(***************************************************************************)
(* LLMRouter.complete and the TokenBudget of one review (llm/router.py,    *)
(* llm/base.py), called once by every agent of the review graph.  The      *)
(* agents are coroutines of one event loop: everything between two awaits  *)
(* is one step, and the only await of complete is the provider call.  The  *)
(* precheck of an agent and the charge of its answer are therefore two     *)
(* steps, with any number of steps of other agents in between.             *)
(*                                                                         *)
(* Tokens are counted; cost in micros follows the tokens and is left out.  *)
(***************************************************************************)
EXTENDS Integers, FiniteSets

CONSTANTS
  Agent,      \* agents that may call the router, each of them once
  Providers,  \* length of the failover chain
  Limit,      \* per_pr_token_budget
  MaxCost,    \* largest estimate + max_tokens of a request
  Slack       \* by how much a provider may bill more than that

ASSUME RouterAssumption ==
  /\ Agent # {} /\ IsFiniteSet(Agent)
  /\ Providers \in Nat
  /\ Limit \in Nat /\ MaxCost \in Nat /\ Slack \in Nat

VARIABLES
  call,      \* per agent: state of its call of complete
  tried,     \* per agent: providers tried so far, in the order of the chain
  reserved,  \* per agent: tokens prechecked for the provider call in flight
  used,      \* TokenBudget.used
  byAgent,   \* TokenBudget._by_agent
  base,      \* history: used at the precheck of the call in flight
  crashed    \* history: agents whose provider raised no ProviderError

routerVars == <<call, tried, reserved, used, byAgent, base, crashed>>

CallState == {"idle", "calling", "answered", "over_budget", "failed"}

RouterTypeOK ==
  /\ call \in [Agent -> CallState]
  /\ tried \in [Agent -> 0..Providers]
  /\ reserved \in [Agent -> Nat]
  /\ used \in Nat
  /\ byAgent \in [Agent -> Nat]
  /\ base \in [Agent -> Nat]
  /\ crashed \subseteq Agent

RouterInit ==
  /\ call = [a \in Agent |-> "idle"]
  /\ tried = [a \in Agent |-> 0]
  /\ reserved = [a \in Agent |-> 0]
  /\ used = 0
  /\ byAgent = [a \in Agent |-> 0]
  /\ base = [a \in Agent |-> 0]
  /\ crashed = {}

InFlight == {a \in Agent : call[a] = "calling"}

-----------------------------------------------------------------------------
(* Mutant of Fits: the answer's max_tokens are not part of the estimate.   *)
FitsPromptOnly(cost) == used <= Limit

(* precheck: the budget is compared with what has been charged, not with   *)
(* what other agents have in flight.                                       *)
Fits(cost) == used + cost <= Limit

(* One round of complete's loop, up to the await: estimate, precheck, call *)
(* the next provider.  BudgetExceededError ends complete.                  *)
TryNext(a) ==
  \E cost \in 1..MaxCost :
    /\ call' = [call EXCEPT ![a] = IF Fits(cost) THEN "calling" ELSE "over_budget"]
    /\ tried' = [tried EXCEPT ![a] = @ + 1]
    /\ reserved' = [reserved EXCEPT ![a] = IF Fits(cost) THEN cost ELSE 0]
    /\ base' = [base EXCEPT ![a] = used]

(* complete raises: no provider is left, or one broke unexpectedly.        *)
Fail(a) ==
  /\ call' = [call EXCEPT ![a] = "failed"]
  /\ reserved' = [reserved EXCEPT ![a] = 0]
  /\ UNCHANGED <<tried, base>>

NextOrFail(a) == IF tried[a] < Providers THEN TryNext(a) ELSE Fail(a)

(* An agent calls complete.                                                *)
Complete(a) ==
  /\ call[a] = "idle"
  /\ NextOrFail(a)
  /\ UNCHANGED <<used, byAgent, crashed>>

(* The provider answers and its usage is charged.                          *)
Answered(a) ==
  /\ call[a] = "calling"
  /\ \E usage \in 0..(reserved[a] + Slack) :
       /\ used' = used + usage
       /\ byAgent' = [byAgent EXCEPT ![a] = @ + usage]
  /\ call' = [call EXCEPT ![a] = "answered"]
  /\ reserved' = [reserved EXCEPT ![a] = 0]
  /\ UNCHANGED <<tried, base, crashed>>

(* Mutant of ProviderFails: the first failing provider ends the call.      *)
ProviderFailsForGood(a) ==
  /\ call[a] = "calling"
  /\ Fail(a)
  /\ UNCHANGED <<used, byAgent, crashed>>

(* ProviderError: on to the next provider, within the same step.           *)
ProviderFails(a) ==
  /\ call[a] = "calling"
  /\ NextOrFail(a)
  /\ UNCHANGED <<used, byAgent, crashed>>

(* Any other exception of the provider leaves complete at once.            *)
ProviderBreaks(a) ==
  /\ call[a] = "calling"
  /\ Fail(a)
  /\ crashed' = crashed \cup {a}
  /\ UNCHANGED <<used, byAgent>>

CallEnds(a) == Answered(a) \/ ProviderFails(a) \/ ProviderBreaks(a)

RouterNext == \E a \in Agent : Complete(a) \/ CallEnds(a)

RouterSpec == RouterInit /\ [][RouterNext]_routerVars

-----------------------------------------------------------------------------
ChargeOverlaps ==
  \A a \in Agent : call[a] = "calling" /\ call'[a] = "answered" =>
    used' <= Limit + Slack + (used - base[a])

(* What the budget does guarantee.  A precheck sees only what is already   *)
(* charged, so an answer may take the review over its limit; but never by  *)
(* more than other agents were charged while the answer was under way, and *)
(* what the provider bills beyond the estimate.  Calls that do not overlap *)
(* never overspend (router.py:76-85: precheck, await, charge).             *)
OverspendIsOverlap == [][ChargeOverlaps]_routerVars

(* A call fails only when every provider of the chain was tried, or one of *)
(* them broke in a way that is no outage (router.py:70-90).                *)
FailureExhaustsChain ==
  \A a \in Agent : call[a] = "failed" => tried[a] = Providers \/ a \in crashed

(* Once the budget refused an agent, no fallback calls a provider for it   *)
(* (router.py:75).                                                         *)
BudgetIsFinal ==
  [][\A a \in Agent : call[a] = "over_budget" => call'[a] = "over_budget"]_routerVars
=============================================================================
