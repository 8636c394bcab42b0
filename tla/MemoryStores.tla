---------------------------- MODULE MemoryStores -----------------------------
(***************************************************************************)
(* The stores behind RepositoryMemory together: the graph in both adapters *)
(* of GraphStore, which every review reads and writes alike, and the       *)
(* vector memory, which the repository shares with the tenant's others.    *)
(***************************************************************************)
EXTENDS RepositoryMemory, Neo4jGraph, VectorMemory

CONSTANTS
  Reports,   \* what a review may find: sequences of texts
  Elsewhere  \* numbers of pull requests in another repository of the tenant

ASSUME StoresAssumption ==
  /\ PRNumber = Range(Number) /\ Elsewhere \subseteq PRNumber
  /\ Reports \subseteq Seq(Text)

VARIABLE similar   \* per pull request: similar_past_findings of its context

storesVars == <<memoryVars, neo4jVars, vectorVars, similar>>

StoresInit ==
  /\ MemoryInit /\ Neo4jInit /\ VectorInit
  /\ similar = [p \in PR |-> {}]

(* run_review up to the agents; what the first store was told of a file    *)
(* the other one is told.                                                  *)
Begin(p) ==
  /\ BeginReview(p)
  /\ MergeFiles([f \in Touches[p] |-> dependsOn'[f]])
  /\ \E hits \in Searches(Number[p]) : similar' = [similar EXCEPT ![p] = hits]
  /\ UNCHANGED vectorVars

(* record_outcome.                                                         *)
Finish(p) ==
  /\ FinishReview(p)
  /\ MergeOutcome(p, Touches[p], p \in Fixes)
  /\ \E findings \in Reports : IndexForRag(Number[p], findings)
  /\ similar' = [similar EXCEPT ![p] = {}]

Lose(p) ==
  /\ LoseReview(p)
  /\ similar' = [similar EXCEPT ![p] = {}]
  /\ UNCHANGED <<neo4jVars, vectorVars>>

(* A review in another repository of the tenant is recorded.               *)
FinishElsewhere(n) ==
  /\ indexed = 0   \* bound
  /\ \E findings \in Reports : IndexForRag(n, findings)
  /\ UNCHANGED <<memoryVars, neo4jVars, similar>>

StoresNext ==
  \/ \E p \in PR : Begin(p) \/ Finish(p) \/ Lose(p)
  \/ \E n \in Elsewhere : FinishElsewhere(n)

StoresSpec == StoresInit /\ [][StoresNext]_storesVars

-----------------------------------------------------------------------------
(* The two adapters answer a review alike: the same blast radius, the same *)
(* bug history, with the last pull request among those the other one takes *)
(* the highest of.  Cycles are where they differ: Neo4j reports pairs of   *)
(* files, of cycles of two or three, and no self imports (base.py:54       *)
(* promises both).  Every pair is in a cycle of the first store, and every *)
(* such cycle of two or three files has a pair (neo4j_store.py:22-116,     *)
(* inmemory.py:25-119).                                                    *)
AdaptersAgree ==
  LET cycles == FindCycles(dependsOn)
  IN  /\ \A p \in PR : MatchedDependents(Touches[p]) = BlastRadius(dependents, Touches[p])
      /\ \A f \in Path : MatchedBugs(f) = Count(f)
      /\ \A f \in DOMAIN lastBug : Number[lastBug[f]] \in MatchedPRs(f)
      /\ \A pair \in MatchedCycles : \E c \in cycles : pair \subseteq c
      /\ \A c \in cycles : Cardinality(c) \in 2..3 => \E pair \in MatchedCycles : pair \subseteq c

(* A review recalls the past: a finding of the last review recorded under  *)
(* any number is among the similar ones when it is alike, unless as many   *)
(* as a search returns are at least as alike.  Shorter reviews, reviews    *)
(* that are repeated, and pull requests of the same number in another      *)
(* repository leave and replace records without breaking that (service.py: *)
(* 87-105, 133-143).                                                       *)
RecallsThePast ==
  [][\A p \in PR : context'[p].running /\ ~context[p].running =>
       \A n \in PRNumber : \A i \in DOMAIN latest[n] :
         LET r == latest[n][i]
             ScoreOf(s) == Score[Number[p], s.text]
         IN  ScoreOf(r) > 0 =>
               \/ r \in similar'[p]
               \/ Cardinality({h \in similar'[p] : ScoreOf(h) >= ScoreOf(r)}) = TopK
    ]_storesVars
=============================================================================
