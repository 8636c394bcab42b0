----------------------------- MODULE Neo4jGraph ------------------------------
(***************************************************************************)
(* The production adapter of GraphStore (memory/graph/neo4j_store.py): the *)
(* nodes and relationships of one repository of one tenant, and what its   *)
(* Cypher statements do to them.  MERGE finds or creates, a clause runs    *)
(* for all rows before the next one does.  Modules and symbols are left    *)
(* out, no query reads them.                                               *)
(***************************************************************************)
EXTENDS GraphQueries

CONSTANTS
  Number,   \* pull request -> its number
  Spelling  \* path -> its rank in the order of strings

ASSUME Neo4jAssumption ==
  /\ IsFiniteSet(PR) /\ Number \in [PR -> Nat] /\ Spelling \in [Path -> Nat]
  /\ \A f, g \in Path : Spelling[f] = Spelling[g] => f = g

VARIABLES
  fileNodes,   \* File nodes
  imports,     \* DEPENDS_ON: pairs of files
  fixedIn      \* per file: how many Bug nodes it has per pull request number

neo4jVars == <<fileNodes, imports, fixedIn>>

Neo4jInit ==
  /\ fileNodes = {} /\ imports = {}
  /\ fixedIn = [f \in Path |-> [n \in Range(Number) |-> 0]]

Edges(facts) == {e \in Path \X Path : e[1] \in DOMAIN facts /\ e[2] \in facts[e[1]]}

(* Mutant of MergeFiles: the old relationships stay.                       *)
MergeFilesOnTop(facts) ==
  /\ fileNodes' = fileNodes \cup DOMAIN facts \cup UNION Range(facts)
  /\ imports' = imports \cup Edges(facts)
  /\ UNCHANGED fixedIn

(* upsert_files: the outgoing relationships of a file are deleted and      *)
(* created anew.                                                           *)
MergeFiles(facts) ==
  /\ fileNodes' = fileNodes \cup DOMAIN facts \cup UNION Range(facts)
  /\ imports' = {e \in imports : e[1] \notin DOMAIN facts} \cup Edges(facts)
  /\ UNCHANGED fixedIn

(* record_pr_touch, which no query reads but for the nodes it merges, and  *)
(* record_bug for each path of a fix.                                      *)
MergeOutcome(pr, paths, fix) ==
  /\ fileNodes' = fileNodes \cup paths
  /\ fixedIn' = [f \in Path |-> IF fix /\ f \in paths THEN [fixedIn[f] EXCEPT ![Number[pr]] = @ + 1]
                                ELSE fixedIn[f]]
  /\ UNCHANGED imports

-----------------------------------------------------------------------------
Imported == [f \in fileNodes |-> {g \in fileNodes : <<f, g>> \in imports}]

(* blast_radius: DEPENDS_ON*1.. to a node of the change, from a node that  *)
(* is none of them, so that a path of no relationships is none.            *)
MatchedDependents(paths) ==
  {f \in fileNodes \ paths : \E p \in paths \cap fileNodes : Reaches(Imported, f, p)}

(* regression_risk: count(b), and the numbers of which it takes the max.   *)
MatchedBugs(f) == SumFunction(fixedIn[f])
MatchedPRs(f) == {n \in DOMAIN fixedIn[f] : fixedIn[f][n] > 0}

(* find_cycles: a imports b, a before b, and b leads back to a within two  *)
(* relationships.                                                          *)
MatchedCycles ==
  {{e[1], e[2]} : e \in {d \in imports :
     /\ Spelling[d[1]] < Spelling[d[2]]
     /\ <<d[2], d[1]>> \in imports \/ \E c \in Path : {<<d[2], c>>, <<c, d[1]>>} \subseteq imports}}
=============================================================================
