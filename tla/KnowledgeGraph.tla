--------------------------- MODULE KnowledgeGraph ----------------------------
(***************************************************************************)
(* The knowledge graph of one repository of one tenant, as the in-memory   *)
(* store keeps it (memory/graph/inmemory.py): imports and their reverse    *)
(* index, the pull requests that touched a file, and its bug history.      *)
(* Symbols and module names are left out.  A dictionary is a function on   *)
(* its keys.                                                               *)
(***************************************************************************)
EXTENDS Integers

CONSTANTS
  Path,   \* files of the repository
  PR      \* pull request numbers

VARIABLES
  known,       \* keys of modules: files upserted so far
  dependsOn,   \* file -> files it imports
  dependents,  \* file -> files that import it
  touchedBy,   \* file -> pull requests
  bugCount,    \* file -> number of bugs
  lastBug      \* file -> pull request of the last bug

structure == <<known, dependsOn, dependents>>
history == <<touchedBy, bugCount, lastBug>>
graphVars == <<structure, history>>

(* dict is a dictionary from files to sets of members of values.           *)
IsIndex(dict, values) ==
  dict = [f \in DOMAIN dict |-> dict[f]] /\ \A f \in DOMAIN dict : f \in Path /\ dict[f] \subseteq values
Get(dict, key) == IF key \in DOMAIN dict THEN dict[key] ELSE {}
Count(f) == IF f \in DOMAIN bugCount THEN bugCount[f] ELSE 0

GraphTypeOK ==
  /\ known \subseteq Path
  /\ IsIndex(dependsOn, Path) /\ IsIndex(dependents, Path) /\ IsIndex(touchedBy, PR)
  /\ DOMAIN bugCount \subseteq Path /\ \A f \in DOMAIN bugCount : bugCount[f] \in Nat
  /\ DOMAIN lastBug \subseteq Path /\ \A f \in DOMAIN lastBug : lastBug[f] \in PR

EmptyDict == [f \in {} |-> {}]

GraphInit ==
  /\ known = {}
  /\ dependsOn = EmptyDict /\ dependents = EmptyDict
  /\ touchedBy = EmptyDict /\ bugCount = EmptyDict /\ lastBug = EmptyDict

-----------------------------------------------------------------------------
Updated(dict, keys, value(_)) ==
  [f \in DOMAIN dict \cup keys |-> IF f \in keys THEN value(f) ELSE dict[f]]

(* Mutant of UpsertFiles: the old reverse edges stay.                      *)
UpsertFilesOnTop(facts) ==
  LET paths == DOMAIN facts
      Importers(d) == Get(dependents, d) \cup {f \in paths : d \in facts[f]}
  IN  /\ known' = known \cup paths
      /\ dependsOn' = Updated(dependsOn, paths, LAMBDA f : facts[f])
      /\ dependents' = Updated(dependents, DOMAIN dependents \cup UNION {facts[f] : f \in paths}, Importers)
      /\ UNCHANGED history

(* upsert_files: facts gives the imports of every file of the diff.        *)
UpsertFiles(facts) ==
  LET paths == DOMAIN facts
      Importers(d) ==
        (Get(dependents, d) \ {f \in paths : d \in Get(dependsOn, f)}) \cup {f \in paths : d \in facts[f]}
  IN  /\ known' = known \cup paths
      /\ dependsOn' = Updated(dependsOn, paths, LAMBDA f : facts[f])
      /\ dependents' = Updated(dependents, DOMAIN dependents \cup UNION {facts[f] : f \in paths}, Importers)
      /\ UNCHANGED history

(* record_pr_touch.                                                        *)
RecordTouch(pr, paths) ==
  touchedBy' = Updated(touchedBy, paths, LAMBDA f : Get(touchedBy, f) \cup {pr})

(* record_bug, once per path.                                              *)
RecordBugs(pr, paths) ==
  /\ bugCount' = Updated(bugCount, paths, LAMBDA f : Count(f) + 1)
  /\ lastBug' = Updated(lastBug, paths, LAMBDA f : pr)

(* Mutant of RecordOutcome: a fix is no touch.                             *)
RecordOutcomeOnce(pr, paths, fix) ==
  /\ IF fix THEN RecordBugs(pr, paths) /\ UNCHANGED touchedBy
     ELSE RecordTouch(pr, paths) /\ UNCHANGED <<bugCount, lastBug>>
  /\ UNCHANGED structure

(* What record_outcome does to the graph.                                  *)
RecordOutcome(pr, paths, fix) ==
  /\ RecordTouch(pr, paths)
  /\ IF fix THEN RecordBugs(pr, paths) ELSE UNCHANGED <<bugCount, lastBug>>
  /\ UNCHANGED structure

GraphNext ==
  \/ \E paths \in SUBSET Path : \E facts \in [paths -> SUBSET Path] : UpsertFiles(facts)
  \/ \E pr \in PR, paths \in SUBSET Path, fix \in BOOLEAN : RecordOutcome(pr, paths, fix)

GraphSpec == GraphInit /\ [][GraphNext]_graphVars

-----------------------------------------------------------------------------
(* The reverse index is the reverse of the imports (inmemory.py:25-36); a  *)
(* stale entry would put files into blast radii for ever.                  *)
ReverseIndexAgrees ==
  \A f, g \in Path : f \in Get(dependents, g) <=> g \in Get(dependsOn, f)

(* A file with a bug count names the pull request of its last bug, and     *)
(* that pull request touched it (inmemory.py:38-61, service.py:71-78).     *)
BugsHaveCause ==
  /\ DOMAIN bugCount = DOMAIN lastBug
  /\ \A f \in DOMAIN lastBug : bugCount[f] > 0 /\ lastBug[f] \in Get(touchedBy, f)
=============================================================================
