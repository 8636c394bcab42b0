-------------------------- MODULE RepositoryMemory ---------------------------
(***************************************************************************)
(* RepositoryMemory (memory/service.py) around the reviews of one          *)
(* repository: run_review updates the structure and reads its context      *)
(* before the agents run, and records the outcome after them; reviews of   *)
(* other pull requests do so in between, a review may die in between, and  *)
(* every push or redelivery reviews a pull request again.                  *)
(***************************************************************************)
EXTENDS GraphQueries

CONSTANTS
  Touches,     \* per pull request: the files of its diff
  Fixes,       \* pull requests whose text looks like a fix
  Importable,  \* files the code imports
  MaxReviews   \* bound: reviews started in a behaviour

ASSUME MemoryAssumption ==
  /\ Touches \in [PR -> (SUBSET Path) \ {{}}] /\ Fixes \subseteq PR
  /\ Importable \subseteq Path /\ MaxReviews \in Nat

VARIABLES
  context,   \* per pull request: MemoryContext of its review, Idle without one
  started    \* history: reviews started

memoryVars == <<graphVars, context, started>>

Idle == [blast |-> {}, risky |-> {}, cycles |-> {}, running |-> FALSE]

MemoryInit ==
  /\ GraphInit
  /\ context = [p \in PR |-> Idle]
  /\ started = 0

(* context_for, on the imports and their reverse index.                    *)
ContextFor(p, deps, reverse) ==
  [blast |-> BlastRadius(reverse, Touches[p]), risky |-> {f \in Touches[p] : Count(f) > 0},
   cycles |-> {c \in FindCycles(deps) : c \cap Touches[p] # {}}, running |-> TRUE]

(* The facts extract_file_facts may read from the diff of p: a file's      *)
(* imports, as far as the lines that the diff adds show them.              *)
Facts(p) == [Touches[p] -> SUBSET Importable]

(* update_structure.                                                       *)
UpdateStructure(p) == \E added \in Facts(p) : UpsertFiles(added)

(* Mutant of BeginReview: the context is read before the update.           *)
BeginReviewOnOldGraph(p) ==
  /\ started < MaxReviews /\ ~context[p].running
  /\ UpdateStructure(p)
  /\ context' = [context EXCEPT ![p] = ContextFor(p, dependsOn, dependents)]
  /\ started' = started + 1

(* run_review up to the agents: update_structure, then context_for.        *)
BeginReview(p) ==
  /\ started < MaxReviews /\ ~context[p].running
  /\ UpdateStructure(p)
  /\ context' = [context EXCEPT ![p] = ContextFor(p, dependsOn', dependents')]
  /\ started' = started + 1

(* record_outcome, before the review is published.                         *)
FinishReview(p) ==
  /\ context[p].running
  /\ RecordOutcome(p, Touches[p], p \in Fixes)
  /\ context' = [context EXCEPT ![p] = Idle]
  /\ UNCHANGED started

(* The review is cancelled or raises (or, with a store outside the         *)
(* process, its worker dies); the job comes back as a new review.          *)
LoseReview(p) ==
  /\ context[p].running
  /\ context' = [context EXCEPT ![p] = Idle]
  /\ UNCHANGED <<graphVars, started>>

MemoryNext == \E p \in PR : BeginReview(p) \/ FinishReview(p) \/ LoseReview(p)

MemorySpec == MemoryInit /\ [][MemoryNext]_memoryVars

-----------------------------------------------------------------------------
(* The context of a review reflects its own change: the files that depend  *)
(* on the diff and the cycles through it, in the graph after the update    *)
(* ("so blast-radius and cycles reflect the current change", graph.py:149).*)
ContextIsCurrent ==
  [][\A p \in PR : context'[p].running /\ ~context[p].running =>
       /\ context'[p].blast = Dependents(dependsOn', Touches[p])
       /\ UNION context'[p].cycles =
            {f \in Path : Cyclic(dependsOn', f) /\ CycleOf(dependsOn', f) \cap Touches[p] # {}}
    ]_memoryVars
=============================================================================
