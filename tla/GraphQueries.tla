---------------------------- MODULE GraphQueries -----------------------------
(***************************************************************************)
(* The two searches of InMemoryGraphStore (memory/graph/inmemory.py): the  *)
(* breadth-first search behind blast_radius, over the reverse index, and   *)
(* Tarjan's behind find_cycles, over the imports.  Each is the state its   *)
(* local variables are in, what one round of its loop does to them, and    *)
(* the loop.  The calls of strongconnect that have not returned are kept   *)
(* as a list, and what their loops have left to do as a set of pairs.      *)
(* Sets are walked in an order of their own, and so is the queue of the    *)
(* breadth-first search.                                                   *)
(***************************************************************************)
EXTENDS KnowledgeGraph, Sequences, FiniteSets, SequencesExt

ASSUME QueriesAssumption == IsFiniteSet(Path)

(* Mutant of BlastRadius: direct importers only.                           *)
BlastRadiusDirect(reverse, paths) == UNION {Get(reverse, f) : f \in paths} \ paths

(* The while loop's body: the next file of the queue.                      *)
Served(reverse, s) ==
  LET node == CHOOSE f \in s.queue : TRUE
      new == Get(reverse, node) \ s.seen
  IN  [seen |-> s.seen \cup new, queue |-> (s.queue \ {node}) \cup new]

(* The files the breadth-first search reaches from paths.                  *)
Walk(reverse, paths) ==
  LET walk[s \in [seen : SUBSET Path, queue : SUBSET Path]] ==
        IF s.queue = {} THEN s.seen ELSE walk[Served(reverse, s)]
  IN  walk[[seen |-> {}, queue |-> paths]]

(* blast_radius.                                                           *)
BlastRadius(reverse, paths) == Walk(reverse, paths) \ paths

-----------------------------------------------------------------------------
NotVisited == -1

(* The locals of find_cycles before its loop; indices and low of a file    *)
(* not visited are NotVisited.                                             *)
Blank(deps) ==
  [next |-> 0, index |-> [f \in Path |-> NotVisited], low |-> [f \in Path |-> NotVisited],
   stack |-> <<>>, result |-> {},
   calls |-> <<>>, left |-> {e \in Path \X Path : e[2] \in Get(deps, e[1])}]

Lowered(s, v, n) == [s EXCEPT !.low[v] = IF n < @ THEN n ELSE @]

(* strongconnect(v) is called.                                             *)
Enter(s, v) ==
  [s EXCEPT !.next = @ + 1, !.index[v] = s.next, !.low[v] = s.next,
            !.stack = Append(@, v), !.calls = Append(@, v)]

(* Its loop takes the import w.                                            *)
Follow(s, v, w) ==
  LET t == [s EXCEPT !.left = @ \ {<<v, w>>}]
  IN  IF s.index[w] = NotVisited THEN Enter(t, w)
      ELSE IF w \in ToSet(s.stack) THEN Lowered(t, v, s.index[w])
      ELSE t

(* Mutant of IsCycle: self imports are no cycles.                          *)
IsCyclePairs(deps, v, component) == Cardinality(component) > 1

IsCycle(deps, v, component) == Cardinality(component) > 1 \/ v \in Get(deps, v)

(* v is the root of a component: pop it, and keep it if it is a cycle.     *)
Popped(deps, v, s) ==
  LET at == CHOOSE i \in DOMAIN s.stack : s.stack[i] = v
      component == {s.stack[i] : i \in at..Len(s.stack)}
  IN  [s EXCEPT !.stack = SubSeq(@, 1, at - 1),
                !.result = IF IsCycle(deps, v, component) THEN @ \cup {component} ELSE @]

(* Its loop has ended: strongconnect(v) returns, to the loop of the file   *)
(* that imports v or to find_cycles.                                       *)
Leave(deps, s, v) ==
  LET done == IF s.low[v] = s.index[v] THEN Popped(deps, v, s) ELSE s
      t == [done EXCEPT !.calls = Front(@)]
  IN  IF t.calls = <<>> THEN t ELSE Lowered(t, Last(t.calls), s.low[v])

Pending(s, v) == {e \in s.left : e[1] = v}

(* One round: of the innermost loop that runs, or of find_cycles' own.     *)
Round(deps, s) ==
  LET v == Last(s.calls)
      new == {f \in DOMAIN deps : s.index[f] = NotVisited}
  IN  IF s.calls # <<>>
      THEN IF Pending(s, v) # {} THEN Follow(s, v, (CHOOSE e \in Pending(s, v) : TRUE)[2])
           ELSE Leave(deps, s, v)
      ELSE IF new # {} THEN Enter(s, CHOOSE f \in new : TRUE)
      ELSE s

(* find_cycles.  Every file is entered and left once at most, every import *)
(* taken once: after as many rounds nothing is left to do.  That Python    *)
(* gives up on very long chains of calls is not modelled.                  *)
FindCycles(deps) ==
  LET rounds == Cardinality(Path) * (Cardinality(Path) + 2)
      run[n \in 0..rounds] == IF n = 0 THEN Blank(deps) ELSE Round(deps, run[n - 1])
  IN  run[rounds].result

-----------------------------------------------------------------------------
(* Importing f means importing g, through any number of files.             *)
Reaches(deps, f, g) ==
  \A S \in SUBSET Path : f \in S /\ (\A h \in S : Get(deps, h) \subseteq S) => g \in S

Cyclic(deps, f) == \E g \in Get(deps, f) : Reaches(deps, g, f)

(* The files that f imports and that import f, through others or directly. *)
CycleOf(deps, f) == {g \in Path : Reaches(deps, f, g) /\ Reaches(deps, g, f)}

Dependents(deps, paths) == {f \in Path \ paths : \E g \in paths : Reaches(deps, f, g)}

(* The blast radius is what depends on the change, directly or not, and    *)
(* never the change itself (base.py:46).                                   *)
BlastRadiusIsExact ==
  \A paths \in SUBSET Path : BlastRadius(dependents, paths) = Dependents(dependsOn, paths)

(* The cycles are the maximal sets of files that import each other, or     *)
(* themselves (base.py:54).                                                *)
CyclesAreExact ==
  FindCycles(dependsOn) = {CycleOf(dependsOn, f) : f \in {h \in Path : Cyclic(dependsOn, h)}}
=============================================================================
