------------------------ MODULE KnowledgeGraphProofs -------------------------
(***************************************************************************)
(* The repository memory, for any set of files and pull requests: what     *)
(* every sequence of store operations keeps, that the two searches of the  *)
(* store end and find what they promise, what a review is told, that the   *)
(* production store answers like the one in memory, and what the vector    *)
(* memory recalls.                                                         *)
(***************************************************************************)
EXTENDS MemoryStores, SequenceTheorems, SumFacts

(* What upsert_files leaves in the two indices, key by key.                *)
LEMMA UpsertGets ==
  ASSUME NEW paths \in SUBSET Path, NEW facts \in [paths -> SUBSET Path], UpsertFiles(facts)
  PROVE  /\ \A f : Get(dependsOn', f) = IF f \in paths THEN facts[f] ELSE Get(dependsOn, f)
         /\ \A g : Get(dependents', g) =
              (Get(dependents, g) \ {f \in paths : g \in Get(dependsOn, f)}) \cup {f \in paths : g \in facts[f]}
<1>1. DOMAIN facts = paths
  OBVIOUS
<1> DEFINE Importers(d) ==
      (Get(dependents, d) \ {f \in paths : d \in Get(dependsOn, f)}) \cup {f \in paths : d \in facts[f]}
<1> DEFINE keys == DOMAIN dependents \cup UNION {facts[f] : f \in paths}
<1>2. dependsOn' = [f \in DOMAIN dependsOn \cup paths |-> IF f \in paths THEN facts[f] ELSE dependsOn[f]]
  BY <1>1 DEF UpsertFiles, Updated
<1>3. dependents' = [d \in DOMAIN dependents \cup keys |-> IF d \in keys THEN Importers(d) ELSE dependents[d]]
  BY <1>1 DEF UpsertFiles, Updated
<1>4. \A f : Get(dependsOn', f) = IF f \in paths THEN facts[f] ELSE Get(dependsOn, f)
  BY <1>2 DEF Get
<1>5. ASSUME NEW g PROVE Get(dependents', g) = Importers(g)
  <2>1. CASE g \in keys
    BY <1>3, <2>1 DEF Get
  <2>2. CASE g \notin keys
    <3>1. g \notin DOMAIN dependents /\ \A f \in paths : g \notin facts[f]
      BY <2>2
    <3>2. Get(dependents, g) = {} /\ Importers(g) = {}
      BY <3>1 DEF Get
    <3>3. g \notin DOMAIN dependents'
      BY <1>3, <2>2
    <3> QED BY <3>2, <3>3 DEF Get
  <2> QED BY <2>1, <2>2
<1> QED BY <1>4, <1>5

(* The reverse index is the reverse of the imports after every sequence of *)
(* operations on the store (inmemory.py:25-36).                            *)
THEOREM ReverseIndexHolds == GraphSpec => []ReverseIndexAgrees
<1>1. GraphInit => ReverseIndexAgrees
  BY DEF GraphInit, ReverseIndexAgrees, Get, EmptyDict
<1>2. ReverseIndexAgrees /\ [GraphNext]_graphVars => ReverseIndexAgrees'
  <2> SUFFICES ASSUME ReverseIndexAgrees, [GraphNext]_graphVars PROVE ReverseIndexAgrees'
    OBVIOUS
  <2>1. ASSUME NEW paths \in SUBSET Path, NEW facts \in [paths -> SUBSET Path], UpsertFiles(facts)
        PROVE  ReverseIndexAgrees'
    <3> SUFFICES ASSUME NEW f \in Path, NEW g \in Path
                 PROVE  f \in Get(dependents', g) <=> g \in Get(dependsOn', f)
      BY DEF ReverseIndexAgrees, Get
    <3>1. f \in Get(dependents, g) <=> g \in Get(dependsOn, f)
      BY DEF ReverseIndexAgrees
    <3>2. CASE f \in paths
      BY <2>1, <3>1, <3>2, UpsertGets
    <3>3. CASE f \notin paths
      BY <2>1, <3>1, <3>3, UpsertGets
    <3> QED BY <3>2, <3>3
  <2>2. CASE UNCHANGED structure
    BY <2>2 DEF structure, ReverseIndexAgrees, Get
  <2> QED BY <2>1, <2>2 DEF GraphNext, RecordOutcome, graphVars
<1> QED BY <1>1, <1>2, PTL DEF GraphSpec

(* The types of the store.                                                 *)
THEOREM GraphTypes == GraphSpec => []GraphTypeOK
<1>1. GraphInit => GraphTypeOK
  BY DEF GraphInit, GraphTypeOK, IsIndex, EmptyDict
<1>2. GraphTypeOK /\ [GraphNext]_graphVars => GraphTypeOK'
  <2> SUFFICES ASSUME GraphTypeOK, [GraphNext]_graphVars PROVE GraphTypeOK'
    OBVIOUS
  <2>1. ASSUME NEW paths \in SUBSET Path, NEW facts \in [paths -> SUBSET Path], UpsertFiles(facts)
        PROVE  GraphTypeOK'
    <3>1. DOMAIN facts = paths /\ UNION {facts[f] : f \in paths} \subseteq Path
      OBVIOUS
    <3>2. known' \subseteq Path
      BY <2>1, <3>1 DEF UpsertFiles, GraphTypeOK
    <3>3. IsIndex(dependsOn', Path)
      BY <2>1, <3>1 DEF UpsertFiles, Updated, GraphTypeOK, IsIndex
    <3>4. IsIndex(dependents', Path)
      BY <2>1, <3>1 DEF UpsertFiles, Updated, GraphTypeOK, IsIndex, Get
    <3>5. UNCHANGED <<touchedBy, bugCount, lastBug>>
      BY <2>1 DEF UpsertFiles, history
    <3> QED BY <3>2, <3>3, <3>4, <3>5 DEF GraphTypeOK, IsIndex
  <2>2. ASSUME NEW pr \in PR, NEW paths \in SUBSET Path, NEW fix \in BOOLEAN, RecordOutcome(pr, paths, fix)
        PROVE  GraphTypeOK'
    <3>1. IsIndex(touchedBy', PR)
      BY <2>2 DEF RecordOutcome, RecordTouch, Updated, GraphTypeOK, IsIndex, Get
    <3>2. CASE fix
      <4>1. RecordBugs(pr, paths)
        BY <2>2, <3>2 DEF RecordOutcome
      <4>2. DOMAIN bugCount' \subseteq Path /\ \A f \in DOMAIN bugCount' : bugCount'[f] \in Nat
        BY <4>1 DEF RecordBugs, Updated, Count, GraphTypeOK
      <4>3. DOMAIN lastBug' \subseteq Path /\ \A f \in DOMAIN lastBug' : lastBug'[f] \in PR
        BY <4>1 DEF RecordBugs, Updated, GraphTypeOK
      <4> QED BY <2>2, <3>1, <4>2, <4>3 DEF RecordOutcome, structure, GraphTypeOK, IsIndex
    <3>3. CASE ~fix
      BY <2>2, <3>1, <3>3 DEF RecordOutcome, structure, GraphTypeOK, IsIndex
    <3> QED BY <3>2, <3>3
  <2>3. CASE UNCHANGED graphVars
    BY <2>3 DEF graphVars, structure, history, GraphTypeOK, IsIndex
  <2> QED BY <2>1, <2>2, <2>3 DEF GraphNext
<1> QED BY <1>1, <1>2, PTL DEF GraphSpec

(* Every bug count names its last bug, by a pull request that touched the  *)
(* file (inmemory.py:38-61).                                               *)
THEOREM BugsHaveCauseHolds == GraphSpec => []BugsHaveCause
<1>1. GraphInit => BugsHaveCause
  BY DEF GraphInit, BugsHaveCause, EmptyDict
<1>2. GraphTypeOK /\ BugsHaveCause /\ [GraphNext]_graphVars => BugsHaveCause'
  <2> SUFFICES ASSUME GraphTypeOK, BugsHaveCause, [GraphNext]_graphVars PROVE BugsHaveCause'
    OBVIOUS
  <2>1. ASSUME NEW pr \in PR, NEW paths \in SUBSET Path, NEW fix \in BOOLEAN, RecordOutcome(pr, paths, fix)
        PROVE  BugsHaveCause'
    <3>1. \A f : Get(touchedBy, f) \subseteq Get(touchedBy', f)
      BY <2>1 DEF RecordOutcome, RecordTouch, Updated, Get
    <3>2. \A f \in paths : pr \in Get(touchedBy', f)
      BY <2>1 DEF RecordOutcome, RecordTouch, Updated, Get
    <3>3. CASE fix
      <4>1. RecordBugs(pr, paths)
        BY <2>1, <3>3 DEF RecordOutcome
      <4>2. DOMAIN bugCount' = DOMAIN lastBug'
        BY <4>1 DEF RecordBugs, Updated, BugsHaveCause
      <4>3. ASSUME NEW f \in DOMAIN lastBug'
            PROVE  bugCount'[f] > 0 /\ lastBug'[f] \in Get(touchedBy', f)
        <5>1. CASE f \in paths
          <6>1. lastBug'[f] = pr /\ bugCount'[f] = Count(f) + 1
            BY <4>1, <5>1 DEF RecordBugs, Updated
          <6>2. Count(f) \in Nat
            BY DEF Count, GraphTypeOK
          <6> QED BY <3>2, <5>1, <6>1, <6>2
        <5>2. CASE f \notin paths
          <6>1. f \in DOMAIN lastBug /\ lastBug'[f] = lastBug[f]
            BY <4>1, <4>3, <5>2 DEF RecordBugs, Updated
          <6>2. f \in DOMAIN bugCount /\ bugCount'[f] = bugCount[f]
            BY <4>1, <5>2, <6>1 DEF RecordBugs, Updated, BugsHaveCause
          <6> QED BY <3>1, <6>1, <6>2 DEF BugsHaveCause
        <5> QED BY <5>1, <5>2
      <4> QED BY <4>2, <4>3 DEF BugsHaveCause, Get
    <3>4. CASE ~fix
      BY <2>1, <3>1, <3>4 DEF RecordOutcome, BugsHaveCause, Get
    <3> QED BY <3>3, <3>4
  <2>2. CASE UNCHANGED history
    BY <2>2 DEF history, BugsHaveCause, Get
  <2> QED BY <2>1, <2>2 DEF GraphNext, UpsertFiles, graphVars
<1> QED BY <1>1, <1>2, GraphTypes, PTL DEF GraphSpec

-----------------------------------------------------------------------------
(* Reaching.                                                               *)

LEMMA ReachSelf == \A d, f : Reaches(d, f, f)
BY DEF Reaches

LEMMA ReachStep == \A d, f, g, h : g \in Get(d, f) /\ Reaches(d, g, h) => Reaches(d, f, h)
BY DEF Reaches

LEMMA ReachImport == \A d, f, g : g \in Get(d, f) => Reaches(d, f, g)
BY ReachSelf, ReachStep

LEMMA ReachTrans == \A d, f, g, h : Reaches(d, f, g) /\ Reaches(d, g, h) => Reaches(d, f, h)
BY DEF Reaches

(* S is closed under imports.                                              *)
ClosedUnder(d, S) == S \in SUBSET Path /\ \A h \in S : Get(d, h) \subseteq S

LEMMA ReachStays ==
  \A d, S, f, g : ClosedUnder(d, S) /\ f \in S /\ Reaches(d, f, g) => g \in S
BY DEF Reaches, ClosedUnder

(* Whoever reaches another file does so through an import of its own.      *)
LEMMA ReachVia ==
  ASSUME NEW d, \A f : Get(d, f) \subseteq Path, NEW f \in Path, NEW g, f # g, Reaches(d, f, g)
  PROVE  \E h \in Get(d, f) : Reaches(d, h, g)
<1>1. PICK S : S = {f} \cup {x \in Path : \E h \in Get(d, f) : Reaches(d, h, x)}
  OBVIOUS
<1>2. ClosedUnder(d, S)
  <2>1. S \in SUBSET Path
    BY <1>1
  <2>2. ASSUME NEW x \in S, NEW y \in Get(d, x) PROVE y \in S
    <3>1. y \in Path
      OBVIOUS
    <3>2. CASE x = f
      BY <1>1, <2>2, <3>1, <3>2, ReachSelf
    <3>3. CASE x # f
      <4>1. PICK h \in Get(d, f) : Reaches(d, h, x)
        BY <1>1, <3>3
      <4>2. Reaches(d, h, y)
        BY <2>2, <4>1, ReachImport, ReachTrans
      <4> QED
        BY <1>1, <3>1, <4>1, <4>2
    <3> QED
      BY <3>2, <3>3
  <2> QED
    BY <2>1, <2>2 DEF ClosedUnder
<1>3. f \in S
  BY <1>1
<1>4. g \in S
  BY <1>2, <1>3, ReachStays
<1> QED
  BY <1>1, <1>4

-----------------------------------------------------------------------------
(* The breadth-first search ends: a round costs more than it adds.         *)

WalkStates == [seen : SUBSET Path, queue : SUBSET Path]

WalkCost(s) == 2 * Cardinality(Path \ s.seen) + Cardinality(s.queue)

(* The importers that r holds are files.                                   *)
InPath(r) == \A f : Get(r, f) \subseteq Path

(* t is s with node served, and new added.                                 *)
Serves(r, s, t, node, new) ==
  /\ node \in s.queue /\ new = Get(r, node) \ s.seen
  /\ t.seen = s.seen \cup new /\ t.queue = (s.queue \ {node}) \cup new

LEMMA ServedState ==
  ASSUME NEW r, InPath(r), NEW s \in WalkStates, s.queue # {}
  PROVE  /\ \E node, new : Serves(r, s, Served(r, s), node, new)
         /\ Served(r, s) \in WalkStates
<1>1. PICK node : node = (CHOOSE f \in s.queue : TRUE)
  OBVIOUS
<1>2. node \in s.queue
  BY <1>1
<1>3. PICK new : new = Get(r, node) \ s.seen
  OBVIOUS
<1>4. Served(r, s) = [seen |-> s.seen \cup new, queue |-> (s.queue \ {node}) \cup new]
  BY <1>1, <1>3 DEF Served
<1>5. new \subseteq Path /\ s.seen \subseteq Path /\ s.queue \subseteq Path
  BY <1>3 DEF InPath, WalkStates
<1> QED
  BY <1>2, <1>3, <1>4, <1>5 DEF WalkStates, Serves

LEMMA WalkCosts ==
  ASSUME NEW s \in WalkStates
  PROVE  WalkCost(s) \in Nat
<1>1. IsFiniteSet(Path \ s.seen) /\ IsFiniteSet(s.queue)
  BY QueriesAssumption, FS_Subset DEF WalkStates
<1> QED
  BY <1>1, FS_CardinalityType DEF WalkCost

LEMMA ServedCosts ==
  ASSUME NEW r, InPath(r), NEW s \in WalkStates, s.queue # {}
  PROVE  WalkCost(Served(r, s)) < WalkCost(s)
<1>1. PICK node, new : Serves(r, s, Served(r, s), node, new)
  BY ServedState
<1>2. /\ node \in s.queue /\ new = Get(r, node) \ s.seen
      /\ Served(r, s).seen = s.seen \cup new
      /\ Served(r, s).queue = (s.queue \ {node}) \cup new
  BY <1>1 DEF Serves
<1>3. PICK old, rest, q, t, both : /\ old = Path \ s.seen /\ rest = Path \ Served(r, s).seen
                             /\ q = s.queue /\ t = q \ {node} /\ both = t \cup new
  OBVIOUS
<1>4. new \subseteq Path /\ q \subseteq Path
  BY <1>2, <1>3 DEF InPath, WalkStates
<1>5. /\ IsFiniteSet(old) /\ IsFiniteSet(rest) /\ IsFiniteSet(new)
      /\ IsFiniteSet(q) /\ IsFiniteSet(t) /\ IsFiniteSet(both)
  BY <1>3, <1>4, QueriesAssumption, FS_Subset
<1>6. /\ Cardinality(old) \in Nat /\ Cardinality(rest) \in Nat /\ Cardinality(new) \in Nat
      /\ Cardinality(q) \in Nat /\ Cardinality(t) \in Nat /\ Cardinality(both) \in Nat
  BY <1>5, FS_CardinalityType
<1>7. Cardinality(old) = Cardinality(rest) + Cardinality(new)
  <2>1. old = rest \cup new /\ rest \cap new = {}
    BY <1>2, <1>3, <1>4
  <2>2. Cardinality(rest \cup new) = Cardinality(rest) + Cardinality(new) - Cardinality(rest \cap new)
    BY <1>5, FS_Union
  <2>3. Cardinality({}) = 0
    BY FS_EmptySet
  <2>4. Cardinality(rest \cap new) = 0
    BY <2>1, <2>3
  <2> QED
    BY <1>6, <2>1, <2>2, <2>4
<1>8. Cardinality(both) <= Cardinality(t) + Cardinality(new)
  <2>1. Cardinality(t \cup new) = Cardinality(t) + Cardinality(new) - Cardinality(t \cap new)
    BY <1>5, FS_Union
  <2>2. IsFiniteSet(t \cap new)
    BY <1>5, FS_Intersection
  <2>3. Cardinality(t \cap new) \in Nat
    BY <2>2, FS_CardinalityType
  <2> QED
    BY <1>3, <1>6, <2>1, <2>3
<1>9. Cardinality(t) = Cardinality(q) - 1
  BY <1>2, <1>3, <1>5, FS_RemoveElement
<1>10. WalkCost(s) = 2 * Cardinality(old) + Cardinality(q)
  BY <1>3 DEF WalkCost
<1>11. WalkCost(Served(r, s)) = 2 * Cardinality(rest) + Cardinality(both)
  BY <1>2, <1>3 DEF WalkCost
<1> QED
  BY <1>6, <1>7, <1>8, <1>9, <1>10, <1>11

(* g is the search from the states that cost n at most.                    *)
Cheap(n) == {s \in WalkStates : WalkCost(s) <= n}

WalksUpTo(r, n, g) ==
  g = [s \in Cheap(n) |-> IF s.queue = {} THEN s.seen ELSE g[Served(r, s)]]

LEMMA WalksGrow ==
  ASSUME NEW r, InPath(r), NEW n \in Nat, NEW g, WalksUpTo(r, n, g)
  PROVE  \E h : WalksUpTo(r, n + 1, h)
<1> DEFINE h == [s \in Cheap(n + 1) |->
                   IF s \in Cheap(n) THEN g[s]
                   ELSE IF s.queue = {} THEN s.seen ELSE g[Served(r, s)]]
<1>1. ASSUME NEW s \in Cheap(n + 1), s.queue # {}
      PROVE  Served(r, s) \in Cheap(n) /\ Served(r, s) \in Cheap(n + 1)
  <2>1. s \in WalkStates /\ WalkCost(s) <= n + 1
    BY DEF Cheap
  <2>2. Served(r, s) \in WalkStates /\ WalkCost(Served(r, s)) < WalkCost(s)
    BY <1>1, <2>1, ServedState, ServedCosts
  <2>3. WalkCost(s) \in Nat /\ WalkCost(Served(r, s)) \in Nat
    BY <2>1, <2>2, WalkCosts
  <2>4. WalkCost(Served(r, s)) <= n
    BY <2>1, <2>2, <2>3
  <2> QED
    BY <2>2, <2>3, <2>4 DEF Cheap
<1>2. \A s \in Cheap(n + 1) : h[s] = IF s.queue = {} THEN s.seen ELSE h[Served(r, s)]
  <2> SUFFICES ASSUME NEW s \in Cheap(n + 1)
               PROVE  h[s] = IF s.queue = {} THEN s.seen ELSE h[Served(r, s)]
    OBVIOUS
  <2>1. CASE s.queue = {}
    <3>1. s \in Cheap(n) => g[s] = s.seen
      BY <2>1 DEF WalksUpTo
    <3> QED
      BY <2>1, <3>1
  <2>2. CASE s.queue # {}
    <3>1. h[Served(r, s)] = g[Served(r, s)]
      BY <1>1, <2>2
    <3>2. s \in Cheap(n) => g[s] = g[Served(r, s)]
      BY <2>2 DEF WalksUpTo
    <3> QED
      BY <2>2, <3>1, <3>2
  <2> QED
    BY <2>1, <2>2
<1>3. h = [s \in Cheap(n + 1) |-> h[s]]
  OBVIOUS
<1> HIDE DEF h
<1>4. WalksUpTo(r, n + 1, h)
  BY <1>2, <1>3 DEF WalksUpTo
<1> QED
  BY <1>4

LEMMA WalksExist ==
  ASSUME NEW r, InPath(r), NEW n \in Nat
  PROVE  \E g : WalksUpTo(r, n, g)
<1>1. SUFFICES ASSUME NEW T, T = {m \in Nat : ~\E g : WalksUpTo(r, m, g)}, T # {}
               PROVE  FALSE
  BY <1>1
<1>2. PICK m \in T : \A k \in T : m <= k
  BY <1>1, LeastExists
<1>3. m \in Nat
  BY <1>1
<1>4. m # 0
  <2>1. ASSUME NEW s \in Cheap(0) PROVE s.queue = {}
    <3>1. s \in WalkStates /\ WalkCost(s) <= 0
      BY DEF Cheap
    <3>2. CASE s.queue # {}
      <4>1. Served(r, s) \in WalkStates /\ WalkCost(Served(r, s)) < WalkCost(s)
        BY <3>1, <3>2, ServedState, ServedCosts
      <4>2. WalkCost(s) \in Nat /\ WalkCost(Served(r, s)) \in Nat
        BY <3>1, <4>1, WalkCosts
      <4> QED
        BY <3>1, <4>1, <4>2
    <3> QED
      BY <3>2
  <2>2. PICK g : g = [s \in Cheap(0) |-> s.seen]
    OBVIOUS
  <2>3. WalksUpTo(r, 0, g)
    BY <2>1, <2>2 DEF WalksUpTo
  <2> QED
    BY <1>1, <2>3
<1>5. m - 1 \in Nat /\ m - 1 \notin T /\ (m - 1) + 1 = m
  BY <1>2, <1>3, <1>4
<1>6. PICK g : WalksUpTo(r, m - 1, g)
  BY <1>1, <1>5
<1>7. \E h : WalksUpTo(r, m, h)
  BY <1>5, <1>6, WalksGrow
<1> QED
  BY <1>1, <1>7

(* Walk is the search that its definition describes.                       *)
Walks(r, g) ==
  \A s \in WalkStates : g[s] = IF s.queue = {} THEN s.seen ELSE g[Served(r, s)]

LEMMA WalkIs ==
  ASSUME NEW r, InPath(r), NEW paths \in SUBSET Path
  PROVE  \E g : Walks(r, g) /\ Walk(r, paths) = g[[seen |-> {}, queue |-> paths]]
<1>1. PICK N \in Nat : Cheap(N) = WalkStates
  <2>1. IsFiniteSet(Path) /\ Cardinality(Path) \in Nat
    BY QueriesAssumption, FS_CardinalityType
  <2>2. PICK N \in Nat : N = 3 * Cardinality(Path)
    BY <2>1
  <2>3. ASSUME NEW s \in WalkStates PROVE WalkCost(s) <= N
    <3>1. s.queue \subseteq Path /\ Path \ s.seen \subseteq Path
      BY DEF WalkStates
    <3>2. PICK a : a = Path \ s.seen
      OBVIOUS
    <3>3. Cardinality(s.queue) <= Cardinality(Path) /\ Cardinality(a) <= Cardinality(Path)
      BY <2>1, <3>1, <3>2, FS_Subset
    <3>4. Cardinality(s.queue) \in Nat /\ Cardinality(a) \in Nat
      BY <2>1, <3>1, <3>2, FS_Subset, FS_CardinalityType
    <3> QED
      BY <2>1, <2>2, <3>2, <3>3, <3>4 DEF WalkCost
  <2> QED
    BY <2>3 DEF Cheap
<1>2. PICK h : WalksUpTo(r, N, h)
  BY WalksExist
<1> DEFINE G == CHOOSE g : g = [s \in [seen : SUBSET Path, queue : SUBSET Path] |->
                  IF s.queue = {} THEN s.seen ELSE g[Served(r, s)]]
<1>3. h = [s \in [seen : SUBSET Path, queue : SUBSET Path] |->
             IF s.queue = {} THEN s.seen ELSE h[Served(r, s)]]
  BY <1>1, <1>2 DEF WalksUpTo, WalkStates
<1>4. G = [s \in [seen : SUBSET Path, queue : SUBSET Path] |->
             IF s.queue = {} THEN s.seen ELSE G[Served(r, s)]]
  BY <1>3
<1>5. Walk(r, paths) = G[[seen |-> {}, queue |-> paths]]
  BY DEF Walk
<1>6. PICK g : g = G
  OBVIOUS
<1> HIDE DEF G
<1>7. Walks(r, g)
  BY <1>4, <1>6 DEF Walks, WalkStates
<1> QED
  BY <1>5, <1>6, <1>7

-----------------------------------------------------------------------------
(* What the search has found after any of its rounds: r is the reverse of  *)
(* d, what is found reaches the change, and what is served has its         *)
(* importers found.                                                        *)

Mirrors(d, r) == \A f, g \in Path : f \in Get(r, g) <=> g \in Get(d, f)

Searched(d, r, paths, s) ==
  /\ s \in WalkStates
  /\ \A f \in s.seen \cup s.queue : \E p \in paths : Reaches(d, f, p)
  /\ s.queue \subseteq paths \cup s.seen
  /\ \A f \in (paths \cup s.seen) \ s.queue : Get(r, f) \subseteq s.seen

LEMMA ServedSearched ==
  ASSUME NEW d, NEW r, InPath(r), Mirrors(d, r), NEW paths \in SUBSET Path,
         NEW s, Searched(d, r, paths, s), s.queue # {}
  PROVE  Searched(d, r, paths, Served(r, s))
<1>1. s \in WalkStates
  BY DEF Searched
<1>2. PICK t : t = Served(r, s)
  OBVIOUS
<1>3. t \in WalkStates
  BY <1>1, <1>2, ServedState
<1>4. PICK node, new : Serves(r, s, t, node, new)
  BY <1>1, <1>2, ServedState
<1>5. /\ node \in s.queue /\ new = Get(r, node) \ s.seen
      /\ t.seen = s.seen \cup new /\ t.queue = (s.queue \ {node}) \cup new
  BY <1>4 DEF Serves
<1>6. node \in Path /\ new \subseteq Path
  BY <1>1, <1>5 DEF WalkStates, InPath
<1>7. \A f \in t.seen \cup t.queue : \E p \in paths : Reaches(d, f, p)
  <2> SUFFICES ASSUME NEW f \in t.seen \cup t.queue PROVE \E p \in paths : Reaches(d, f, p)
    OBVIOUS
  <2>1. CASE f \in new
    <3>1. node \in Get(d, f)
      BY <1>5, <1>6, <2>1 DEF Mirrors
    <3>2. PICK p \in paths : Reaches(d, node, p)
      BY <1>5 DEF Searched
    <3> QED
      BY <3>1, <3>2, ReachStep
  <2>2. CASE f \notin new
    BY <1>5, <2>2 DEF Searched
  <2> QED
    BY <2>1, <2>2
<1>8. t.queue \subseteq paths \cup t.seen
  BY <1>5 DEF Searched
<1>9. \A f \in (paths \cup t.seen) \ t.queue : Get(r, f) \subseteq t.seen
  <2> SUFFICES ASSUME NEW f \in (paths \cup t.seen) \ t.queue PROVE Get(r, f) \subseteq t.seen
    OBVIOUS
  <2>1. CASE f = node
    BY <1>5, <2>1
  <2>2. CASE f # node
    BY <1>5, <2>2 DEF Searched
  <2> QED
    BY <2>1, <2>2
<1>10. Searched(d, r, paths, t)
  BY <1>3, <1>7, <1>8, <1>9 DEF Searched
<1> QED
  BY <1>2, <1>10

Found(d, r, paths, found) == Searched(d, r, paths, [seen |-> found, queue |-> {}])

LEMMA WalkSearches ==
  ASSUME NEW d, NEW r, InPath(r), Mirrors(d, r), NEW paths \in SUBSET Path,
         NEW g, Walks(r, g), NEW s, Searched(d, r, paths, s)
  PROVE  Found(d, r, paths, g[s])
<1>0. SUFFICES ASSUME {WalkCost(u) : u \in {v \in WalkStates : Searched(d, r, paths, v) /\ ~Found(d, r, paths, g[v])}} # {}
               PROVE  FALSE
  BY DEF Searched
<1>1. PICK B : B = {v \in WalkStates : Searched(d, r, paths, v) /\ ~Found(d, r, paths, g[v])}
  OBVIOUS
<1>2. PICK T : T = {WalkCost(u) : u \in B} /\ T # {}
  BY <1>0, <1>1
<1>3. T \subseteq Nat
  BY <1>1, <1>2, WalkCosts
<1>4. PICK m \in T : \A k \in T : m <= k
  BY <1>2, <1>3, LeastExists
<1>5. PICK u \in B : WalkCost(u) = m
  BY <1>2, <1>4
<1>6. u \in WalkStates /\ Searched(d, r, paths, u) /\ ~Found(d, r, paths, g[u])
  BY <1>1
<1>7. CASE u.queue = {}
  <2>1. g[u] = u.seen
    BY <1>6, <1>7 DEF Walks
  <2>2. u = [seen |-> u.seen, queue |-> {}]
    BY <1>6, <1>7 DEF WalkStates
  <2> QED
    BY <1>6, <2>1, <2>2 DEF Found
<1>8. CASE u.queue # {}
  <2>1. PICK v : v = Served(r, u)
    OBVIOUS
  <2>2. g[u] = g[v]
    BY <1>6, <1>8, <2>1 DEF Walks
  <2>3. Searched(d, r, paths, v) /\ WalkCost(v) < WalkCost(u)
    BY <1>6, <1>8, <2>1, ServedSearched, ServedCosts
  <2>4. v \in WalkStates
    BY <2>3 DEF Searched
  <2>5. v \in B
    BY <1>1, <1>6, <2>2, <2>3, <2>4
  <2>6. WalkCost(v) \in T /\ WalkCost(v) \in Nat /\ WalkCost(u) \in Nat
    BY <1>2, <1>6, <2>4, <2>5, WalkCosts
  <2> QED
    BY <1>4, <1>5, <2>3, <2>6
<1> QED
  BY <1>7, <1>8

(* The search from the reverse index finds what the imports say.           *)
LEMMA BlastRadiusOf ==
  ASSUME NEW d, NEW r, InPath(r), InPath(d), Mirrors(d, r), NEW paths \in SUBSET Path
  PROVE  BlastRadius(r, paths) = Dependents(d, paths)
<1>1. PICK g : Walks(r, g) /\ Walk(r, paths) = g[[seen |-> {}, queue |-> paths]]
  BY WalkIs
<1>2. PICK s : s = [seen |-> {}, queue |-> paths]
  OBVIOUS
<1>3. Searched(d, r, paths, s)
  <2>1. s \in WalkStates /\ s.seen = {} /\ s.queue = paths
    BY <1>2 DEF WalkStates
  <2>2. \A f \in paths : \E p \in paths : Reaches(d, f, p)
    BY ReachSelf
  <2> QED
    BY <2>1, <2>2 DEF Searched
<1>4. PICK found : found = Walk(r, paths)
  OBVIOUS
<1>5. Found(d, r, paths, found)
  BY <1>1, <1>2, <1>3, <1>4, WalkSearches
<1>6. /\ found \subseteq Path
      /\ \A f \in found : \E p \in paths : Reaches(d, f, p)
      /\ \A f \in paths \cup found : Get(r, f) \subseteq found
  BY <1>5 DEF Found, Searched, WalkStates
<1>7. ASSUME NEW f \in Path \ paths, NEW p \in paths, Reaches(d, f, p), f \notin found PROVE FALSE
  <2>1. PICK S : S = Path \ (paths \cup found)
    OBVIOUS
  <2>2. ClosedUnder(d, S)
    <3>1. ASSUME NEW h \in S, NEW x \in Get(d, h) PROVE x \in S
      <4>1. x \in Path /\ h \in Path
        BY <2>1 DEF InPath
      <4>2. h \in Get(r, x)
        BY <4>1, <3>1 DEF Mirrors
      <4> QED
        BY <1>6, <2>1, <4>1, <4>2
    <3> QED
      BY <2>1, <3>1 DEF ClosedUnder
  <2>3. f \in S
    BY <1>7, <2>1
  <2>4. p \in S
    BY <1>7, <2>2, <2>3, ReachStays
  <2> QED
    BY <2>1, <2>4
<1> QED
  BY <1>4, <1>6, <1>7 DEF BlastRadius, Dependents

LEMMA TypedInPath ==
  ASSUME GraphTypeOK
  PROVE  InPath(dependsOn) /\ InPath(dependents)
BY DEF GraphTypeOK, IsIndex, InPath, Get

(* A pull request's blast radius is every file that depends on it, through *)
(* any number of imports, and no other, after every sequence of operations *)
(* on the store (inmemory.py:63-75).                                       *)
THEOREM BlastRadiusHolds == GraphSpec => []BlastRadiusIsExact
<1>1. GraphTypeOK /\ ReverseIndexAgrees => BlastRadiusIsExact
  <2> SUFFICES ASSUME GraphTypeOK, ReverseIndexAgrees, NEW paths \in SUBSET Path
               PROVE  BlastRadius(dependents, paths) = Dependents(dependsOn, paths)
    BY DEF BlastRadiusIsExact
  <2>1. InPath(dependsOn) /\ InPath(dependents)
    BY TypedInPath
  <2>2. Mirrors(dependsOn, dependents)
    BY DEF ReverseIndexAgrees, Mirrors
  <2> QED
    BY <2>1, <2>2, BlastRadiusOf
<1> QED
  BY <1>1, ReverseIndexHolds, GraphTypes, PTL

-----------------------------------------------------------------------------
(* Reviews use the store by its operations alone, and the vector memory    *)
(* and the other adapter leave it alone: what holds of the store holds of  *)
(* it under the reviews (service.py:45-105).                               *)
THEOREM MemoryUsesGraph == MemorySpec => GraphSpec
<1>1. MemoryInit => GraphInit
  BY DEF MemoryInit
<1>2. [MemoryNext]_memoryVars => [GraphNext]_graphVars
  <2>1. ASSUME NEW p \in PR, BeginReview(p) PROVE GraphNext
    <3>1. PICK added \in Facts(p) : UpsertFiles(added)
      BY <2>1 DEF BeginReview, UpdateStructure
    <3>2. PICK paths : paths = Touches[p]
      OBVIOUS
    <3>3. paths \in SUBSET Path /\ added \in [paths -> SUBSET Path]
      BY <3>1, <3>2, MemoryAssumption DEF Facts
    <3> QED
      BY <3>1, <3>3 DEF GraphNext
  <2>2. ASSUME NEW p \in PR, FinishReview(p) PROVE GraphNext
    <3>1. RecordOutcome(p, Touches[p], p \in Fixes)
      BY <2>2 DEF FinishReview
    <3>2. Touches[p] \in SUBSET Path /\ (p \in Fixes) \in BOOLEAN
      BY MemoryAssumption
    <3>3. PICK paths, fix : paths = Touches[p] /\ fix = (p \in Fixes)
      OBVIOUS
    <3> QED
      BY <3>1, <3>2, <3>3 DEF GraphNext
  <2>3. ASSUME NEW p \in PR, LoseReview(p) PROVE UNCHANGED graphVars
    BY <2>3 DEF LoseReview
  <2>4. UNCHANGED memoryVars => UNCHANGED graphVars
    BY DEF memoryVars
  <2> QED
    BY <2>1, <2>2, <2>3, <2>4 DEF MemoryNext
<1> QED
  BY <1>1, <1>2, PTL DEF MemorySpec, GraphSpec

THEOREM StoresUseMemory == StoresSpec => MemorySpec
<1>1. StoresInit => MemoryInit
  BY DEF StoresInit
<1>2. [StoresNext]_storesVars => [MemoryNext]_memoryVars
  BY DEF StoresNext, Begin, Finish, Lose, FinishElsewhere, MemoryNext, storesVars
<1> QED
  BY <1>1, <1>2, PTL DEF StoresSpec, MemorySpec

-----------------------------------------------------------------------------
(* The vector memory.                                                      *)

VectorRecord == [id : PRNumber \X Nat, text : Text]

(* The records of the last review under a number lead the bucket: those    *)
(* that an earlier, longer one left come after them.                       *)
LatestLeads(n) ==
  /\ past[n] \in Seq(VectorRecord) /\ latest[n] \in Seq(VectorRecord)
  /\ Len(latest[n]) <= Len(past[n])
  /\ \A i \in 1..Len(latest[n]) : past[n][i] = latest[n][i]

BucketsOK ==
  /\ past = [n \in PRNumber |-> past[n]] /\ latest = [n \in PRNumber |-> latest[n]]
  /\ \A n \in PRNumber : LatestLeads(n)

(* Reviews that run have their row of similar findings.                    *)
ReviewsOK ==
  /\ context = [p \in PR |-> context[p]] /\ similar = [p \in PR |-> similar[p]]
  /\ BucketsOK

LEMMA UpsertedLeads ==
  ASSUME NEW V, NEW old \in Seq(V), NEW new \in Seq(V)
  PROVE  /\ Upserted(old, new) \in Seq(V) /\ Len(new) <= Len(Upserted(old, new))
         /\ \A i \in 1..Len(new) : Upserted(old, new)[i] = new[i]
<1>1. PICK rest : rest = SubSeq(old, Len(new) + 1, Len(old))
  OBVIOUS
<1>2. rest \in Seq(V)
  BY <1>1, SubSeqProperties
<1> QED
  BY <1>1, <1>2, ConcatProperties DEF Upserted

LEMMA RecordsTyped ==
  ASSUME NEW n \in PRNumber, NEW findings \in Seq(Text)
  PROVE  Records(n, findings) \in Seq(VectorRecord)
<1>1. \A i \in 1..Len(findings) : [id |-> <<n, i>>, text |-> findings[i]] \in VectorRecord
  BY DEF VectorRecord
<1>2. Records(n, findings) \in [1..Len(findings) -> VectorRecord]
  BY <1>1 DEF Records
<1> QED
  BY <1>2, SeqDef

LEMMA IndexKeepsBuckets ==
  ASSUME BucketsOK, NEW n \in PRNumber, NEW findings \in Reports, IndexForRag(n, findings)
  PROVE  BucketsOK'
<1>1. PICK new : new = Records(n, findings)
  OBVIOUS
<1>2. new \in Seq(VectorRecord)
  BY <1>1, RecordsTyped, StoresAssumption
<1>3. /\ past' = [past EXCEPT ![n] = Upserted(@, new)]
      /\ latest' = [latest EXCEPT ![n] = new]
  BY <1>1 DEF IndexForRag
<1>4. DOMAIN past = PRNumber /\ DOMAIN latest = PRNumber
  BY DEF BucketsOK
<1>5. ASSUME NEW k \in PRNumber PROVE LatestLeads(k)'
  <2>1. LatestLeads(k)
    BY DEF BucketsOK
  <2>2. CASE k = n
    <3>1. past'[k] = Upserted(past[k], new) /\ latest'[k] = new
      BY <1>3, <1>4, <2>2
    <3>2. past[k] \in Seq(VectorRecord)
      BY <2>1 DEF LatestLeads
    <3> QED
      BY <1>2, <3>1, <3>2, UpsertedLeads DEF LatestLeads
  <2>3. CASE k # n
    <3>1. past'[k] = past[k] /\ latest'[k] = latest[k]
      BY <1>3, <1>4, <2>3
    <3> QED
      BY <2>1, <3>1 DEF LatestLeads
  <2> QED
    BY <2>2, <2>3
<1>6. past' = [k \in PRNumber |-> past'[k]] /\ latest' = [k \in PRNumber |-> latest'[k]]
  BY <1>3, <1>4
<1> QED
  BY <1>5, <1>6 DEF BucketsOK

THEOREM ReviewsOKHolds == StoresSpec => []ReviewsOK
<1>1. StoresInit => ReviewsOK
  <2> SUFFICES ASSUME StoresInit PROVE ReviewsOK
    OBVIOUS
  <2>1. past = [n \in PRNumber |-> <<>>] /\ latest = [n \in PRNumber |-> <<>>]
    BY DEF StoresInit, VectorInit
  <2>2. <<>> \in Seq(VectorRecord) /\ Len(<<>>) = 0
    OBVIOUS
  <2>3. \A n \in PRNumber : LatestLeads(n)
    BY <2>1, <2>2 DEF LatestLeads
  <2>4. BucketsOK
    BY <2>1, <2>3 DEF BucketsOK
  <2> QED
    BY <2>4 DEF StoresInit, MemoryInit, ReviewsOK
<1>2. ReviewsOK /\ [StoresNext]_storesVars => ReviewsOK'
  <2> SUFFICES ASSUME ReviewsOK, [StoresNext]_storesVars PROVE ReviewsOK'
    OBVIOUS
  <2>0. ASSUME UNCHANGED <<past, latest>> PROVE BucketsOK'
    BY <2>0 DEF ReviewsOK, BucketsOK, LatestLeads
  <2>1. ASSUME NEW p \in PR, Begin(p) PROVE ReviewsOK'
    <3>1. BucketsOK'
      BY <2>0, <2>1 DEF Begin, vectorVars
    <3>2. context' = [q \in PR |-> context'[q]]
      BY <2>1 DEF Begin, BeginReview, ReviewsOK
    <3>3. similar' = [q \in PR |-> similar'[q]]
      BY <2>1 DEF Begin, ReviewsOK
    <3> QED
      BY <3>1, <3>2, <3>3 DEF ReviewsOK
  <2>2. ASSUME NEW p \in PR, Finish(p) PROVE ReviewsOK'
    <3>1. Number[p] \in PRNumber
      BY StoresAssumption, Neo4jAssumption DEF Range
    <3>2. BucketsOK'
      BY <2>2, <3>1, IndexKeepsBuckets DEF Finish, ReviewsOK
    <3>3. context' = [q \in PR |-> context'[q]]
      BY <2>2 DEF Finish, FinishReview, ReviewsOK
    <3>4. similar' = [q \in PR |-> similar'[q]]
      BY <2>2 DEF Finish, ReviewsOK
    <3> QED
      BY <3>2, <3>3, <3>4 DEF ReviewsOK
  <2>3. ASSUME NEW p \in PR, Lose(p) PROVE ReviewsOK'
    <3>1. BucketsOK'
      BY <2>0, <2>3 DEF Lose, vectorVars
    <3>2. context' = [q \in PR |-> context'[q]]
      BY <2>3 DEF Lose, LoseReview, ReviewsOK
    <3>3. similar' = [q \in PR |-> similar'[q]]
      BY <2>3 DEF Lose, ReviewsOK
    <3> QED
      BY <3>1, <3>2, <3>3 DEF ReviewsOK
  <2>4. ASSUME NEW n \in Elsewhere, FinishElsewhere(n) PROVE ReviewsOK'
    <3>1. n \in PRNumber
      BY StoresAssumption
    <3>2. BucketsOK'
      BY <2>4, <3>1, IndexKeepsBuckets DEF FinishElsewhere, ReviewsOK
    <3> QED
      BY <2>4, <3>2 DEF FinishElsewhere, memoryVars, ReviewsOK
  <2>5. CASE UNCHANGED storesVars
    <3>1. UNCHANGED <<past, latest, context, similar>>
      BY <2>5 DEF storesVars, vectorVars, memoryVars
    <3> QED
      BY <2>0, <3>1 DEF ReviewsOK
  <2> QED
    BY <2>1, <2>2, <2>3, <2>4, <2>5 DEF StoresNext
<1> QED
  BY <1>1, <1>2, PTL DEF StoresSpec

LEMMA LatestSearched ==
  ASSUME NEW n, LatestLeads(n), NEW i \in DOMAIN latest[n]
  PROVE  i \in DOMAIN past[n] /\ past[n][i] = latest[n][i]
<1>1. past[n] \in Seq(VectorRecord) /\ latest[n] \in Seq(VectorRecord)
  BY DEF LatestLeads
<1>2. PICK old, new : old = past[n] /\ new = latest[n]
  OBVIOUS
<1>3. DOMAIN old = 1..Len(old) /\ DOMAIN new = 1..Len(new) /\ Len(old) \in Nat /\ Len(new) \in Nat
  BY <1>1, <1>2
<1>4. Len(new) <= Len(old) /\ \A j \in 1..Len(new) : old[j] = new[j]
  BY <1>2 DEF LatestLeads
<1>5. i \in DOMAIN new
  BY <1>2
<1> QED
  BY <1>2, <1>3, <1>4, <1>5

(* What a search for k returns: a record that is alike is there, or as     *)
(* many as asked for are at least as alike.                                *)
Alike(k, r) == Score[k, r.text] > 0
Recalls(k, hits, r) ==
  r \in hits \/ Cardinality({h \in hits : Score[k, h.text] >= Score[k, r.text]}) = TopK

LEMMA SearchFinds ==
  ASSUME NEW k, NEW hits \in Searches(k), NEW n \in PRNumber, NEW i \in DOMAIN past[n],
         NEW r, r = past[n][i], Alike(k, r)
  PROVE  Recalls(k, hits, r)
<1>1. Score[k, r.text] > 0
  BY DEF Alike
<1>2. PICK alike : alike = {x \in UNION {{past[m][j] : j \in DOMAIN past[m]} : m \in PRNumber} : Score[k, x.text] > 0}
  OBVIOUS
<1>3. /\ Cardinality(hits) = TopK \/ (Cardinality(hits) < TopK /\ hits = alike)
      /\ \A h \in hits, x \in alike \ hits : Score[k, h.text] >= Score[k, x.text]
  BY <1>2 DEF Searches
<1>4. r \in alike
  <2>1. r \in {past[n][j] : j \in DOMAIN past[n]}
    BY <1>1
  <2> QED
    BY <1>1, <1>2, <2>1
<1>5. CASE r \notin hits
  <2>1. Cardinality(hits) = TopK
    BY <1>3, <1>4, <1>5
  <2>2. {h \in hits : Score[k, h.text] >= Score[k, r.text]} = hits
    BY <1>3, <1>4, <1>5
  <2> QED
    BY <2>1, <2>2 DEF Recalls
<1> QED
  BY <1>5 DEF Recalls

(* A review recalls the past: whatever reviews of the number or of others  *)
(* left in the bucket, the findings of the last one recorded are searched  *)
(* (service.py:87-105, 133-143).                                           *)
THEOREM PastIsRecalled == StoresSpec => RecallsThePast
<1> DEFINE Recalled ==
      \A p \in PR : context'[p].running /\ ~context[p].running =>
        \A n \in PRNumber : \A i \in DOMAIN latest[n] :
          LET r == latest[n][i]
              ScoreOf(s) == Score[Number[p], s.text]
          IN  ScoreOf(r) > 0 =>
                \/ r \in similar'[p]
                \/ Cardinality({h \in similar'[p] : ScoreOf(h) >= ScoreOf(r)}) = TopK
<1>1. ReviewsOK /\ [StoresNext]_storesVars => [Recalled]_storesVars
  <2> SUFFICES ASSUME ReviewsOK, StoresNext,
                      NEW p \in PR, context'[p].running, ~context[p].running,
                      NEW n \in PRNumber, NEW i \in DOMAIN latest[n],
                      Alike(Number[p], latest[n][i])
               PROVE  Recalls(Number[p], similar'[p], latest[n][i])
    BY DEF Recalled, Alike, Recalls
  <2>1. DOMAIN context = PR /\ DOMAIN similar = PR /\ BucketsOK
    BY DEF ReviewsOK
  <2>2. ~Idle.running
    BY DEF Idle
  <2>3. PICK q \in PR : Begin(q)
    <3>1. ASSUME NEW q \in PR, context' = [context EXCEPT ![q] = Idle] PROVE FALSE
      BY <2>1, <2>2, <3>1
    <3>2. context' # context
      OBVIOUS
    <3> QED
      BY <3>1, <3>2 DEF StoresNext, Finish, FinishReview, Lose, LoseReview, FinishElsewhere, memoryVars
  <2>4. q = p
    BY <2>1, <2>3 DEF Begin, BeginReview
  <2>5. PICK hits \in Searches(Number[p]) : similar' = [similar EXCEPT ![p] = hits]
    BY <2>3, <2>4 DEF Begin
  <2>6. similar'[p] = hits
    BY <2>1, <2>5
  <2>7. i \in DOMAIN past[n] /\ past[n][i] = latest[n][i]
    <3>1. LatestLeads(n)
      BY <2>1 DEF BucketsOK
    <3> QED
      BY <3>1, LatestSearched
  <2>8. PICK r : r = latest[n][i]
    OBVIOUS
  <2>9. Alike(Number[p], r)
    BY <2>8
  <2>10. Recalls(Number[p], hits, r)
    BY <2>7, <2>8, <2>9, SearchFinds
  <2> QED
    BY <2>6, <2>8, <2>10
<1> QED
  BY <1>1, ReviewsOKHolds, PTL DEF StoresSpec, RecallsThePast

-----------------------------------------------------------------------------
(* What find_cycles keeps, said of its indices i, its low links l, the     *)
(* files K on its stack, those A whose strongconnect has not returned, and *)
(* the imports left to take.                                               *)

(* Files are numbered as they are visited.                                 *)
Numbered(i, n) ==
  /\ n \in Nat /\ i \in [Path -> Int]
  /\ \A f \in Path : i[f] = NotVisited \/ (0 <= i[f] /\ i[f] < n)
  /\ \A f, g \in Path : i[f] = i[g] /\ i[f] # NotVisited => f = g

Kept(i, K, A) == A \subseteq K /\ K \subseteq Path /\ \A x \in K : 0 <= i[x]

(* Visited, and popped.                                                    *)
Gone(i, K) == {f \in Path : i[f] # NotVisited /\ f \notin K}

Edge(d, x, y) == x \in Path /\ y \in Get(d, x)

(* The imports of a file are taken while its call runs: all of them are    *)
(* left before, and none after it.                                         *)
LeftIs(d, i, A, left) ==
  /\ left \subseteq Path \X Path /\ \A x, y : <<x, y>> \in left => Edge(d, x, y)
  /\ \A x, y : Edge(d, x, y) /\ i[x] = NotVisited => <<x, y>> \in left
  /\ \A x, y : Edge(d, x, y) /\ i[x] # NotVisited /\ x \notin A => <<x, y>> \notin left

(* An import that was taken leads to a visited file, or to W.              *)
TakenIs(d, i, left, W) ==
  \A x, y : Edge(d, x, y) /\ <<x, y>> \notin left => i[y] # NotVisited \/ y \in W

GoneIsClosed(d, i, K) == \A x \in Gone(i, K) : Get(d, x) \subseteq Gone(i, K)

(* low is the index of a file on the stack that is reached.                *)
LowIsReached(d, i, l, K, A) ==
  \A x \in A : l[x] <= i[x] /\ \E y \in K : i[y] = l[x] /\ Reaches(d, x, y)

(* What is on the stack reaches a call that was there before it, and is    *)
(* reached by every such call.                                             *)
ReachesCall(d, i, K, A) == \A x \in K : \E g \in A : i[g] <= i[x] /\ Reaches(d, x, g)
CallReaches(d, i, K, A) == \A x \in K : \A g \in A : i[g] <= i[x] => Reaches(d, g, x)

(* g is the last of the calls that were there before x.                    *)
IsLatest(i, A, g, x) ==
  g \in A /\ i[g] <= i[x] /\ \A h \in A : i[h] <= i[x] => i[h] <= i[g]

(* An import taken from one file on the stack to another is in the low of  *)
(* the call it was taken in, or that took over from that.                  *)
LowCovers(d, i, l, K, A, left) ==
  \A x, y \in K : Edge(d, x, y) /\ <<x, y>> \notin left =>
    \A g : IsLatest(i, A, g, x) => l[g] <= i[y]

ResultIs(d, i, K, result) ==
  result = {CycleOf(d, x) : x \in {f \in Gone(i, K) : Cyclic(d, f)}}

Logic(d, i, l, n, K, A, left, W, result) ==
  /\ Numbered(i, n) /\ l \in [Path -> Int] /\ Kept(i, K, A)
  /\ LeftIs(d, i, A, left) /\ TakenIs(d, i, left, W) /\ GoneIsClosed(d, i, K)
  /\ LowIsReached(d, i, l, K, A) /\ ReachesCall(d, i, K, A) /\ CallReaches(d, i, K, A)
  /\ LowCovers(d, i, l, K, A, left)
  /\ ResultIs(d, i, K, result)

(* A sequence of files in the order of their indices.                      *)
Rising(i, q) ==
  q \in Seq(Path) /\ \A j, k \in 1..Len(q) : j < k => i[q[j]] < i[q[k]]

IsSearch(s) ==
  s = [next |-> s.next, index |-> s.index, low |-> s.low, stack |-> s.stack,
       result |-> s.result, calls |-> s.calls, left |-> s.left]

SearchOK(d, s, W) ==
  /\ IsSearch(s)
  /\ Rising(s.index, s.stack) /\ Rising(s.index, s.calls)
  /\ Logic(d, s.index, s.low, s.next, ToSet(s.stack), ToSet(s.calls), s.left, W, s.result)

LEMMA GoneSame ==
  ASSUME NEW d, NEW i, NEW K, NEW i2, NEW K2, NEW result, Gone(i2, K2) = Gone(i, K)
  PROVE  /\ GoneIsClosed(d, i, K) => GoneIsClosed(d, i2, K2)
         /\ ResultIs(d, i, K, result) => ResultIs(d, i2, K2, result)
BY DEF GoneIsClosed, ResultIs

AllReach(d, A, w) == \A g \in A : Reaches(d, g, w)

(* strongconnect(w) is called.                                             *)
LEMMA Enters ==
  ASSUME NEW d, InPath(d), NEW i, NEW l, NEW n, NEW K, NEW A, NEW left, NEW result, NEW w \in Path,
         Logic(d, i, l, n, K, A, left, {w}, result), i[w] = NotVisited,
         AllReach(d, A, w),
         NEW i2, i2 = [i EXCEPT ![w] = n], NEW l2, l2 = [l EXCEPT ![w] = n],
         NEW K2, K2 = K \cup {w}, NEW A2, A2 = A \cup {w}
  PROVE  Logic(d, i2, l2, n + 1, K2, A2, left, {}, result)
<1>1. /\ Numbered(i, n) /\ l \in [Path -> Int] /\ Kept(i, K, A)
      /\ LeftIs(d, i, A, left) /\ TakenIs(d, i, left, {w}) /\ GoneIsClosed(d, i, K)
      /\ LowIsReached(d, i, l, K, A) /\ ReachesCall(d, i, K, A) /\ CallReaches(d, i, K, A)
      /\ LowCovers(d, i, l, K, A, left) /\ ResultIs(d, i, K, result)
  BY DEF Logic
<1>2. /\ n \in Nat /\ i \in [Path -> Int] /\ \A f \in Path : i[f] = NotVisited \/ (0 <= i[f] /\ i[f] < n)
      /\ \A f, g \in Path : i[f] = i[g] /\ i[f] # NotVisited => f = g
      /\ A \subseteq K /\ K \subseteq Path /\ \A x \in K : 0 <= i[x]
  BY <1>1 DEF Numbered, Kept
<1>3. /\ i2 \in [Path -> Int] /\ i2[w] = n /\ \A f \in Path : f # w => i2[f] = i[f]
      /\ l2 \in [Path -> Int] /\ l2[w] = n /\ \A f \in Path : f # w => l2[f] = l[f]
  BY <1>1, <1>2
<1>4. NotVisited \notin Nat /\ NotVisited # n
  BY <1>2 DEF NotVisited
<1>5. w \notin K /\ \A x \in K : x \in Path /\ x # w /\ i2[x] = i[x] /\ i[x] \in Int /\ i[x] < n
  BY <1>2, <1>3 DEF NotVisited
<1>6. Numbered(i2, n + 1)
  BY <1>2, <1>3, <1>4 DEF Numbered
<1>7. Kept(i2, K2, A2)
  BY <1>2, <1>3, <1>5 DEF Kept
<1>8. LeftIs(d, i2, A2, left)
  BY <1>1, <1>3, <1>4 DEF LeftIs, Edge
<1>9. TakenIs(d, i2, left, {})
  BY <1>1, <1>3, <1>4 DEF TakenIs, Edge, InPath
<1>10. Gone(i2, K2) = Gone(i, K)
  BY <1>3, <1>4, <1>5 DEF Gone
<1>11. GoneIsClosed(d, i2, K2) /\ ResultIs(d, i2, K2, result)
  BY <1>1, <1>10, GoneSame
<1>12. LowIsReached(d, i2, l2, K2, A2)
  <2> SUFFICES ASSUME NEW x \in A2
               PROVE  l2[x] <= i2[x] /\ \E y \in K2 : i2[y] = l2[x] /\ Reaches(d, x, y)
    BY DEF LowIsReached
  <2>1. CASE x = w
    BY <1>2, <1>3, <2>1, ReachSelf
  <2>2. CASE x # w
    <3>1. x \in A /\ x \in K /\ x \in Path
      BY <1>2, <2>2
    <3>2. i2[x] = i[x] /\ l2[x] = l[x]
      BY <1>3, <2>2, <3>1
    <3>3. l[x] <= i[x] /\ \E y \in K : i[y] = l[x] /\ Reaches(d, x, y)
      BY <1>1, <3>1 DEF LowIsReached
    <3> QED
      BY <1>5, <3>2, <3>3
  <2> QED
    BY <2>1, <2>2
<1>13. ReachesCall(d, i2, K2, A2)
  <2> SUFFICES ASSUME NEW x \in K2 PROVE \E g \in A2 : i2[g] <= i2[x] /\ Reaches(d, x, g)
    BY DEF ReachesCall
  <2>1. CASE x = w
    BY <1>2, <1>3, <2>1, ReachSelf
  <2>2. CASE x # w
    <3>1. PICK g \in A : i[g] <= i[x] /\ Reaches(d, x, g)
      BY <1>1, <2>2 DEF ReachesCall
    <3> QED
      BY <1>2, <1>5, <2>2, <3>1
  <2> QED
    BY <2>1, <2>2
<1>14. CallReaches(d, i2, K2, A2)
  <2> SUFFICES ASSUME NEW x \in K2, NEW g \in A2, i2[g] <= i2[x] PROVE Reaches(d, g, x)
    BY DEF CallReaches
  <2>1. CASE x = w
    BY <2>1, ReachSelf DEF AllReach
  <2>2. CASE x # w
    <3>1. x \in K /\ i2[x] = i[x] /\ i[x] < n
      BY <1>5, <2>2
    <3>2. g # w
      BY <1>2, <1>3, <1>5, <3>1
    <3>3. g \in A /\ i2[g] = i[g]
      BY <1>2, <1>5, <3>2
    <3> QED
      BY <1>1, <3>1, <3>3 DEF CallReaches
  <2> QED
    BY <2>1, <2>2
<1>15. LowCovers(d, i2, l2, K2, A2, left)
  <2> SUFFICES ASSUME NEW x \in K2, NEW y \in K2, Edge(d, x, y), <<x, y>> \notin left,
                      NEW g, IsLatest(i2, A2, g, x)
               PROVE  l2[g] <= i2[y]
    BY DEF LowCovers
  <2>1. x # w
    BY <1>1 DEF LeftIs
  <2>2. x \in K /\ i2[x] = i[x] /\ i[x] < n
    BY <1>5, <2>1
  <2>3. g \in A2 /\ i2[g] <= i2[x] /\ \A h \in A2 : i2[h] <= i2[x] => i2[h] <= i2[g]
    BY DEF IsLatest
  <2>4. g # w
    BY <1>2, <1>3, <1>5, <2>2, <2>3
  <2>5. g \in A /\ g \in K /\ i2[g] = i[g] /\ l2[g] = l[g]
    BY <1>2, <1>3, <1>5, <2>3, <2>4
  <2>6. IsLatest(i, A, g, x)
    BY <1>2, <1>5, <2>2, <2>3, <2>5 DEF IsLatest
  <2>7. CASE y = w
    <3>1. l[g] <= i[g] /\ i[g] < n /\ i[g] \in Int /\ l[g] \in Int
      BY <1>1, <1>5, <2>5 DEF LowIsReached
    <3> QED
      BY <1>2, <1>3, <2>5, <2>7, <3>1
  <2>8. CASE y # w
    <3>1. y \in K /\ i2[y] = i[y]
      BY <1>5, <2>8
    <3>2. l[g] <= i[y]
      BY <1>1, <2>2, <2>6, <3>1 DEF LowCovers
    <3> QED
      BY <2>5, <3>1, <3>2
  <2> QED
    BY <2>7, <2>8
<1> QED
  BY <1>3, <1>6, <1>7, <1>8, <1>9, <1>11, <1>12, <1>13, <1>14, <1>15 DEF Logic

(* v is the latest of the calls.                                           *)
IsTop(i, A, v) == v \in A /\ \A h \in A : i[h] <= i[v]

(* strongconnect(v) takes the import w, and lowers its low if w is on the  *)
(* stack.                                                                  *)
LEMMA Takes ==
  ASSUME NEW d, InPath(d), NEW i, NEW l, NEW n, NEW K, NEW A, NEW left, NEW result, NEW v, NEW w,
         Logic(d, i, l, n, K, A, left, {}, result), IsTop(i, A, v), Edge(d, v, w),
         NEW l2, IF w \in K THEN l2 = [l EXCEPT ![v] = IF i[w] < @ THEN i[w] ELSE @] ELSE l2 = l,
         NEW left2, left2 = left \ {<<v, w>>}
  PROVE  Logic(d, i, l2, n, K, A, left2, {w}, result)
<1>1. /\ Numbered(i, n) /\ l \in [Path -> Int] /\ Kept(i, K, A)
      /\ LeftIs(d, i, A, left) /\ TakenIs(d, i, left, {}) /\ GoneIsClosed(d, i, K)
      /\ LowIsReached(d, i, l, K, A) /\ ReachesCall(d, i, K, A) /\ CallReaches(d, i, K, A)
      /\ LowCovers(d, i, l, K, A, left) /\ ResultIs(d, i, K, result)
  BY DEF Logic
<1>2. /\ n \in Nat /\ i \in [Path -> Int]
      /\ \A f, g \in Path : i[f] = i[g] /\ i[f] # NotVisited => f = g
      /\ A \subseteq K /\ K \subseteq Path /\ \A x \in K : 0 <= i[x]
      /\ v \in A /\ \A h \in A : i[h] <= i[v]
  BY <1>1 DEF Numbered, Kept, IsTop
<1>3. v \in K /\ v \in Path /\ w \in Path /\ w \in Get(d, v) /\ i[v] # NotVisited
  BY <1>2 DEF InPath, Edge, NotVisited
<1>4. /\ l2 \in [Path -> Int] /\ \A f \in Path : f # v => l2[f] = l[f]
      /\ l2[v] <= l[v] /\ (w \in K => l2[v] <= i[w])
      /\ l2[v] = l[v] \/ (w \in K /\ l2[v] = i[w])
  <2>1. l[v] \in Int /\ i[w] \in Int /\ DOMAIN l = Path
    BY <1>1, <1>2, <1>3
  <2>2. CASE w \in K
    <3>1. PICK m : m = IF i[w] < l[v] THEN i[w] ELSE l[v]
      OBVIOUS
    <3>2. m \in Int /\ m <= l[v] /\ m <= i[w] /\ (m = l[v] \/ m = i[w])
      BY <2>1, <3>1
    <3>3. l2 = [l EXCEPT ![v] = m]
      BY <2>2, <3>1
    <3> QED
      BY <1>1, <1>3, <2>1, <2>2, <3>2, <3>3
  <2>3. CASE w \notin K
    BY <1>1, <2>1, <2>3
  <2> QED
    BY <2>2, <2>3
<1>5. ASSUME NEW f \in Path PROVE l2[f] <= l[f] /\ l2[f] \in Int /\ l[f] \in Int
  <2>1. l2[f] \in Int /\ l[f] \in Int
    BY <1>1, <1>4
  <2>2. CASE f = v
    BY <1>4, <2>1, <2>2
  <2>3. CASE f # v
    BY <1>4, <2>1, <2>3
  <2> QED
    BY <2>1, <2>2, <2>3
<1>6. LeftIs(d, i, A, left2)
  BY <1>1, <1>3 DEF LeftIs
<1>7. TakenIs(d, i, left2, {w})
  BY <1>1 DEF TakenIs
<1>8. LowIsReached(d, i, l2, K, A)
  <2> SUFFICES ASSUME NEW x \in A
               PROVE  l2[x] <= i[x] /\ \E y \in K : i[y] = l2[x] /\ Reaches(d, x, y)
    BY DEF LowIsReached
  <2>1. x \in K /\ x \in Path /\ i[x] \in Int
    BY <1>2
  <2>2. l[x] <= i[x] /\ \E y \in K : i[y] = l[x] /\ Reaches(d, x, y)
    BY <1>1 DEF LowIsReached
  <2>3. l2[x] <= i[x]
    BY <1>5, <2>1, <2>2
  <2>4. CASE l2[x] = l[x]
    BY <2>2, <2>3, <2>4
  <2>5. CASE l2[x] # l[x]
    <3>1. x = v
      BY <1>4, <2>1, <2>5
    <3>2. w \in K /\ l2[x] = i[w]
      BY <1>4, <2>5, <3>1
    <3>3. Reaches(d, v, w)
      BY <1>3, ReachImport
    <3> QED
      BY <2>3, <3>1, <3>2, <3>3
  <2> QED
    BY <2>4, <2>5
<1>9. LowCovers(d, i, l2, K, A, left2)
  <2> SUFFICES ASSUME NEW x \in K, NEW y \in K, Edge(d, x, y), <<x, y>> \notin left2,
                      NEW g, IsLatest(i, A, g, x)
               PROVE  l2[g] <= i[y]
    BY DEF LowCovers
  <2>1. g \in A /\ g \in Path /\ i[g] <= i[x] /\ \A h \in A : i[h] <= i[x] => i[h] <= i[g]
    BY <1>2 DEF IsLatest
  <2>2. CASE <<x, y>> \in left
    <3>1. x = v /\ y = w
      BY <2>2
    <3>2. i[v] <= i[g] /\ i[g] <= i[v] /\ i[v] \in Int /\ i[g] \in Int
      BY <1>2, <1>3, <2>1, <3>1
    <3>3. g = v
      BY <1>2, <1>3, <2>1, <3>2
    <3> QED
      BY <1>4, <3>1, <3>3
  <2>3. CASE <<x, y>> \notin left
    <3>1. l[g] <= i[y]
      BY <1>1, <2>3 DEF LowCovers
    <3>2. i[y] \in Int /\ l2[g] <= l[g] /\ l2[g] \in Int /\ l[g] \in Int
      BY <1>2, <1>5, <2>1
    <3> QED
      BY <3>1, <3>2
  <2> QED
    BY <2>2, <2>3
<1> QED
  BY <1>1, <1>4, <1>6, <1>7, <1>8, <1>9 DEF Logic

LEMMA VisitedSettles ==
  ASSUME NEW d, NEW i, NEW l, NEW n, NEW K, NEW A, NEW left, NEW result, NEW w,
         Logic(d, i, l, n, K, A, left, {w}, result), i[w] # NotVisited
  PROVE  Logic(d, i, l, n, K, A, left, {}, result)
<1>1. TakenIs(d, i, left, {w})
  BY DEF Logic
<1>2. TakenIs(d, i, left, {})
  BY <1>1 DEF TakenIs
<1> QED
  BY <1>2 DEF Logic

(* No import of v is left to take.                                         *)
NoneLeft(left, v) == \A y : <<v, y>> \notin left

(* What v's call leaves: no import of it is left after it.                 *)
LEMMA LeftAfter ==
  ASSUME NEW d, NEW i, NEW A, NEW left, NEW v, LeftIs(d, i, A, left), NoneLeft(left, v)
  PROVE  LeftIs(d, i, A \ {v}, left)
BY DEF LeftIs, NoneLeft

(* strongconnect(v) returns with v on the stack: a call below it has seen  *)
(* a file that it reaches.                                                 *)
LEMMA ReturnsLower ==
  ASSUME NEW d, NEW i, NEW l, NEW n, NEW K, NEW A, NEW left, NEW result, NEW v,
         Logic(d, i, l, n, K, A, left, {}, result), IsTop(i, A, v), l[v] # i[v]
  PROVE  \E y \in K : \E g \in A : /\ i[y] = l[v] /\ i[y] < i[v] /\ Reaches(d, v, y)
                                   /\ i[g] <= i[y] /\ Reaches(d, y, g) /\ g # v
<1>1. /\ Numbered(i, n) /\ l \in [Path -> Int] /\ Kept(i, K, A)
      /\ LowIsReached(d, i, l, K, A) /\ ReachesCall(d, i, K, A)
  BY DEF Logic
<1>2. i \in [Path -> Int] /\ A \subseteq K /\ K \subseteq Path /\ v \in A
  BY <1>1 DEF Numbered, Kept, IsTop
<1>3. l[v] <= i[v] /\ \E y \in K : i[y] = l[v] /\ Reaches(d, v, y)
  BY <1>1, <1>2 DEF LowIsReached
<1>4. PICK y \in K : i[y] = l[v] /\ Reaches(d, v, y)
  BY <1>3
<1>5. i[y] \in Int /\ i[v] \in Int /\ l[v] \in Int
  BY <1>1, <1>2
<1>6. i[y] < i[v]
  BY <1>3, <1>4, <1>5
<1>7. PICK g \in A : i[g] <= i[y] /\ Reaches(d, y, g)
  BY <1>1 DEF ReachesCall
<1>8. i[g] \in Int
  BY <1>2
<1>9. g # v
  BY <1>5, <1>6, <1>7, <1>8
<1> QED
  BY <1>4, <1>6, <1>7, <1>9

LEMMA Returns ==
  ASSUME NEW d, NEW i, NEW l, NEW n, NEW K, NEW A, NEW left, NEW result, NEW v, NEW u,
         Logic(d, i, l, n, K, A, left, {}, result), IsTop(i, A, v), NoneLeft(left, v), l[v] # i[v],
         NEW A2, A2 = A \ {v}, IsTop(i, A2, u),
         NEW l2, l2 = [l EXCEPT ![u] = IF l[v] < @ THEN l[v] ELSE @]
  PROVE  Logic(d, i, l2, n, K, A2, left, {}, result)
<1>1. /\ Numbered(i, n) /\ l \in [Path -> Int] /\ Kept(i, K, A)
      /\ LeftIs(d, i, A, left) /\ TakenIs(d, i, left, {}) /\ GoneIsClosed(d, i, K)
      /\ LowIsReached(d, i, l, K, A) /\ ReachesCall(d, i, K, A) /\ CallReaches(d, i, K, A)
      /\ LowCovers(d, i, l, K, A, left) /\ ResultIs(d, i, K, result)
  BY DEF Logic
<1>2. /\ n \in Nat /\ i \in [Path -> Int]
      /\ \A f, g \in Path : i[f] = i[g] /\ i[f] # NotVisited => f = g
      /\ A \subseteq K /\ K \subseteq Path /\ \A x \in K : 0 <= i[x]
      /\ v \in A /\ \A h \in A : i[h] <= i[v]
      /\ u \in A2 /\ \A h \in A2 : i[h] <= i[u]
  BY <1>1 DEF Numbered, Kept, IsTop
<1>3. /\ v \in K /\ v \in Path /\ u \in A /\ u \in K /\ u \in Path /\ u # v
      /\ i[u] \in Int /\ i[v] \in Int /\ l[u] \in Int /\ l[v] \in Int
  BY <1>1, <1>2
<1>4. i[u] <= i[v]
  BY <1>2, <1>3
<1>5. PICK y \in K : \E g \in A : /\ i[y] = l[v] /\ i[y] < i[v] /\ Reaches(d, v, y)
                                  /\ i[g] <= i[y] /\ Reaches(d, y, g) /\ g # v
  BY ReturnsLower
<1>6. PICK c \in A : /\ i[y] = l[v] /\ i[y] < i[v] /\ Reaches(d, v, y)
                     /\ i[c] <= i[y] /\ Reaches(d, y, c) /\ c # v
  BY <1>5
<1>7. PICK m : m = IF l[v] < l[u] THEN l[v] ELSE l[u]
  OBVIOUS
<1>8. m \in Int /\ m <= l[v] /\ m <= l[u] /\ (m = l[v] \/ m = l[u])
  BY <1>3, <1>7
<1>9. l2 = [l EXCEPT ![u] = m]
  BY <1>7
<1>10. l2 \in [Path -> Int] /\ l2[u] = m /\ \A f \in Path : f # u => l2[f] = l[f]
  BY <1>1, <1>3, <1>8, <1>9
<1>11. ASSUME NEW f \in Path PROVE l2[f] <= l[f] /\ l2[f] \in Int /\ l[f] \in Int
  <2>1. l2[f] \in Int /\ l[f] \in Int
    BY <1>1, <1>10
  <2>2. CASE f = u
    BY <1>8, <1>10, <2>1, <2>2
  <2>3. CASE f # u
    BY <1>10, <2>1, <2>3
  <2> QED
    BY <2>1, <2>2, <2>3
<1>12. Kept(i, K, A2)
  BY <1>2 DEF Kept
<1>13. LeftIs(d, i, A2, left)
  BY <1>1, LeftAfter
<1>14. LowIsReached(d, i, l2, K, A2)
  <2> SUFFICES ASSUME NEW x \in A2
               PROVE  l2[x] <= i[x] /\ \E z \in K : i[z] = l2[x] /\ Reaches(d, x, z)
    BY DEF LowIsReached
  <2>1. x \in A /\ x \in K /\ x \in Path /\ i[x] \in Int
    BY <1>2
  <2>2. l[x] <= i[x] /\ \E z \in K : i[z] = l[x] /\ Reaches(d, x, z)
    BY <1>1, <2>1 DEF LowIsReached
  <2>3. l2[x] <= i[x]
    BY <1>11, <2>1, <2>2
  <2>4. CASE l2[x] = l[x]
    BY <2>2, <2>3, <2>4
  <2>5. CASE l2[x] # l[x]
    <3>1. x = u
      BY <1>10, <2>1, <2>5
    <3>2. l2[x] = i[y]
      BY <1>6, <1>8, <1>10, <2>5, <3>1
    <3>3. Reaches(d, u, v)
      BY <1>1, <1>3, <1>4 DEF CallReaches
    <3>4. Reaches(d, u, y)
      BY <1>6, <3>3, ReachTrans
    <3> QED
      BY <2>3, <3>1, <3>2, <3>4
  <2> QED
    BY <2>4, <2>5
<1>15. ReachesCall(d, i, K, A2)
  <2> SUFFICES ASSUME NEW x \in K PROVE \E g \in A2 : i[g] <= i[x] /\ Reaches(d, x, g)
    BY DEF ReachesCall
  <2>1. PICK g \in A : i[g] <= i[x] /\ Reaches(d, x, g)
    BY <1>1 DEF ReachesCall
  <2>2. CASE g # v
    BY <2>1, <2>2
  <2>3. CASE g = v
    <3>1. Reaches(d, x, c)
      BY <1>6, <2>1, <2>3, ReachTrans
    <3>2. i[c] \in Int /\ i[x] \in Int /\ i[y] \in Int
      BY <1>2
    <3>3. i[c] <= i[x]
      BY <1>3, <1>6, <2>1, <2>3, <3>2
    <3> QED
      BY <1>6, <3>1, <3>3
  <2> QED
    BY <2>2, <2>3
<1>16. CallReaches(d, i, K, A2)
  BY <1>1 DEF CallReaches
<1>17. LowCovers(d, i, l2, K, A2, left)
  <2> SUFFICES ASSUME NEW x \in K, NEW z \in K, Edge(d, x, z), <<x, z>> \notin left,
                      NEW g, IsLatest(i, A2, g, x)
               PROVE  l2[g] <= i[z]
    BY DEF LowCovers
  <2>1. /\ g \in A2 /\ g \in A /\ g \in Path /\ g # v /\ i[g] <= i[x]
        /\ \A h \in A2 : i[h] <= i[x] => i[h] <= i[g]
    BY <1>2 DEF IsLatest
  <2>2. i[x] \in Int /\ i[z] \in Int /\ i[g] \in Int
    BY <1>2, <2>1
  <2>3. CASE i[v] <= i[x]
    <3>1. IsLatest(i, A, v, x)
      BY <1>2, <2>3 DEF IsLatest
    <3>2. l[v] <= i[z]
      BY <1>1, <3>1 DEF LowCovers
    <3>3. i[u] <= i[x]
      BY <1>3, <1>4, <2>2, <2>3
    <3>4. i[u] <= i[g] /\ i[g] <= i[u]
      BY <1>2, <2>1, <3>3
    <3>5. i[u] = i[g] /\ i[u] # NotVisited
      BY <1>2, <1>3, <2>2, <3>4 DEF NotVisited
    <3>6. g = u
      BY <1>2, <1>3, <2>1, <3>5
    <3> QED
      BY <1>3, <1>8, <1>10, <2>2, <3>2, <3>6
  <2>4. CASE ~(i[v] <= i[x])
    <3>1. IsLatest(i, A, g, x)
      <4>1. \A h \in A : i[h] <= i[x] => i[h] <= i[g]
        BY <2>1, <2>4
      <4> QED
        BY <2>1, <4>1 DEF IsLatest
    <3>2. l[g] <= i[z]
      BY <1>1, <3>1 DEF LowCovers
    <3> QED
      BY <1>11, <2>1, <2>2, <3>2
  <2> QED
    BY <2>3, <2>4
<1> QED
  BY <1>1, <1>10, <1>12, <1>13, <1>14, <1>15, <1>16, <1>17 DEF Logic

(* A component is a cycle when its files import themselves, through others *)
(* or directly.                                                            *)
LEMMA ManyOrOne ==
  ASSUME NEW C, IsFiniteSet(C), NEW v \in C
  PROVE  Cardinality(C) > 1 <=> \E x \in C : x # v
<1>1. PICK D : D = C \ {v}
  OBVIOUS
<1>2. Cardinality(C) \in Nat /\ IsFiniteSet(D) /\ Cardinality(D) = Cardinality(C) - 1
  BY <1>1, FS_RemoveElement, FS_CardinalityType
<1>3. Cardinality(D) = 0 <=> D = {}
  BY <1>2, FS_EmptySet
<1>4. Cardinality(D) \in Nat
  BY <1>2, FS_CardinalityType
<1>5. Cardinality(C) > 1 <=> Cardinality(D) # 0
  BY <1>2, <1>4
<1>6. D # {} <=> \E x \in C : x # v
  BY <1>1
<1> QED
  BY <1>3, <1>5, <1>6

LEMMA CycleIsCyclic ==
  ASSUME NEW d, InPath(d), NEW C, C \subseteq Path, NEW v \in C, \A x \in C : CycleOf(d, x) = C,
         NEW x \in C
  PROVE  Cyclic(d, x) <=> IsCycle(d, v, C)
<1>1. IsFiniteSet(C)
  BY QueriesAssumption, FS_Subset
<1>2. \A y, z \in C : Reaches(d, y, z)
  <2> SUFFICES ASSUME NEW y \in C, NEW z \in C PROVE Reaches(d, y, z)
    OBVIOUS
  <2>1. z \in CycleOf(d, y)
    OBVIOUS
  <2> QED
    BY <2>1 DEF CycleOf
<1>3. CASE \E y \in C : y # v
  <2>1. PICK y \in C : y # x
    BY <1>3
  <2>2. Reaches(d, x, y) /\ Reaches(d, y, x)
    BY <1>2, <2>1
  <2>3. PICK h \in Get(d, x) : Reaches(d, h, y)
    <3>1. \A f : Get(d, f) \subseteq Path
      BY DEF InPath
    <3>2. x \in Path
      OBVIOUS
    <3> QED
      BY <2>1, <2>2, <3>1, <3>2, ReachVia
  <2>4. Cyclic(d, x)
    BY <2>2, <2>3, ReachTrans DEF Cyclic
  <2>5. IsCycle(d, v, C)
    BY <1>1, <1>3, ManyOrOne DEF IsCycle
  <2> QED
    BY <2>4, <2>5
<1>4. CASE ~\E y \in C : y # v
  <2>1. x = v /\ C = {v}
    BY <1>4
  <2>2. IsCycle(d, v, C) <=> v \in Get(d, v)
    BY <1>1, <1>4, ManyOrOne DEF IsCycle
  <2>3. v \in Get(d, v) => Cyclic(d, v)
    BY ReachSelf DEF Cyclic
  <2>4. Cyclic(d, v) => v \in Get(d, v)
    <3>1. SUFFICES ASSUME Cyclic(d, v) PROVE v \in Get(d, v)
      OBVIOUS
    <3>2. PICK h \in Get(d, v) : Reaches(d, h, v)
      BY <3>1 DEF Cyclic
    <3>3. h \in Path /\ Reaches(d, v, h)
      BY <3>2, ReachImport DEF InPath
    <3>4. h \in CycleOf(d, v)
      BY <3>2, <3>3 DEF CycleOf
    <3>5. h = v
      BY <2>1, <3>4
    <3> QED
      BY <3>2, <3>5
  <2> QED
    BY <2>1, <2>2, <2>3, <2>4
<1> QED
  BY <1>3, <1>4

(* strongconnect(v) pops its component: what is on the stack from v on     *)
(* reaches nothing but itself and what was popped before.                  *)
LEMMA ComponentCloses ==
  ASSUME NEW d, InPath(d), NEW i, NEW l, NEW n, NEW K, NEW A, NEW left, NEW result, NEW v,
         Logic(d, i, l, n, K, A, left, {}, result), IsTop(i, A, v), NoneLeft(left, v), l[v] = i[v],
         NEW C, C = {x \in K : i[v] <= i[x]}
  PROVE  ClosedUnder(d, C \cup Gone(i, K))
<1>1. /\ Numbered(i, n) /\ Kept(i, K, A)
      /\ LeftIs(d, i, A, left) /\ TakenIs(d, i, left, {}) /\ GoneIsClosed(d, i, K)
      /\ LowCovers(d, i, l, K, A, left)
  BY DEF Logic
<1>2. /\ i \in [Path -> Int] /\ A \subseteq K /\ K \subseteq Path /\ \A x \in K : 0 <= i[x]
      /\ \A f, g \in Path : i[f] = i[g] /\ i[f] # NotVisited => f = g
      /\ v \in A /\ \A h \in A : i[h] <= i[v]
  BY <1>1 DEF Numbered, Kept, IsTop
<1>3. C \cup Gone(i, K) \in SUBSET Path
  BY <1>2 DEF Gone
<1>4. ASSUME NEW x \in Gone(i, K) PROVE Get(d, x) \subseteq C \cup Gone(i, K)
  BY <1>1 DEF GoneIsClosed
<1>5. ASSUME NEW x \in C, NEW y \in Get(d, x) PROVE y \in C \cup Gone(i, K)
  <2>1. x \in K /\ x \in Path /\ y \in Path /\ Edge(d, x, y) /\ i[v] <= i[x] /\ i[x] # NotVisited
    BY <1>2 DEF InPath, Edge, NotVisited
  <2>2. <<x, y>> \notin left
    <3>1. CASE x = v
      BY <3>1 DEF NoneLeft
    <3>2. CASE x # v
      <4>1. x \notin A
        <5>1. SUFFICES ASSUME x \in A PROVE FALSE
          OBVIOUS
        <5>2. i[x] <= i[v] /\ i[x] \in Int /\ i[v] \in Int /\ v \in Path
          BY <1>2, <2>1, <5>1
        <5> QED
          BY <1>2, <2>1, <3>2, <5>2
      <4> QED
        BY <1>1, <2>1, <4>1 DEF LeftIs
    <3> QED
      BY <3>1, <3>2
  <2>3. i[y] # NotVisited
    BY <1>1, <2>1, <2>2 DEF TakenIs
  <2>4. CASE y \notin K
    BY <2>1, <2>3, <2>4 DEF Gone
  <2>5. CASE y \in K
    <3>1. IsLatest(i, A, v, x)
      BY <1>2, <2>1 DEF IsLatest
    <3>2. l[v] <= i[y]
      BY <1>1, <2>1, <2>2, <2>5, <3>1 DEF LowCovers
    <3> QED
      BY <2>5, <3>2
  <2> QED
    BY <2>4, <2>5
<1> QED
  BY <1>3, <1>4, <1>5 DEF ClosedUnder

LEMMA ComponentIsCycle ==
  ASSUME NEW d, InPath(d), NEW i, NEW l, NEW n, NEW K, NEW A, NEW left, NEW result, NEW v,
         Logic(d, i, l, n, K, A, left, {}, result), IsTop(i, A, v), NoneLeft(left, v), l[v] = i[v],
         NEW C, C = {x \in K : i[v] <= i[x]}, NEW x \in C
  PROVE  CycleOf(d, x) = C
<1>1. /\ Numbered(i, n) /\ Kept(i, K, A) /\ GoneIsClosed(d, i, K)
      /\ ReachesCall(d, i, K, A) /\ CallReaches(d, i, K, A)
  BY DEF Logic
<1>2. /\ i \in [Path -> Int] /\ A \subseteq K /\ K \subseteq Path /\ \A y \in K : 0 <= i[y]
      /\ \A f, g \in Path : i[f] = i[g] /\ i[f] # NotVisited => f = g
      /\ v \in A /\ \A h \in A : i[h] <= i[v]
  BY <1>1 DEF Numbered, Kept, IsTop
<1>3. ClosedUnder(d, C \cup Gone(i, K))
  BY ComponentCloses
<1>4. ClosedUnder(d, Gone(i, K))
  BY <1>1 DEF GoneIsClosed, ClosedUnder, Gone
<1>5. ASSUME NEW y \in C PROVE Reaches(d, v, y) /\ Reaches(d, y, v)
  <2>1. y \in K /\ i[v] <= i[y]
    OBVIOUS
  <2>2. Reaches(d, v, y)
    BY <1>1, <1>2, <2>1 DEF CallReaches
  <2>3. PICK g \in A : i[g] <= i[y] /\ Reaches(d, y, g)
    BY <1>1, <2>1 DEF ReachesCall
  <2>4. g \in C \cup Gone(i, K)
    BY <1>3, <2>3, ReachStays
  <2>5. g \in C
    BY <1>2, <2>4 DEF Gone
  <2>6. g \in Path /\ v \in Path /\ i[g] <= i[v] /\ i[v] <= i[g] /\ i[g] \in Int /\ i[v] \in Int /\ 0 <= i[g]
    BY <1>2, <2>5
  <2>7. i[g] = i[v] /\ i[g] # NotVisited
    BY <2>6 DEF NotVisited
  <2>8. g = v
    BY <1>2, <2>6, <2>7
  <2> QED
    BY <2>2, <2>3, <2>8
<1>6. ASSUME NEW y \in C PROVE y \in CycleOf(d, x)
  <2>1. Reaches(d, x, y) /\ Reaches(d, y, x)
    BY <1>5, ReachTrans
  <2>2. y \in Path
    BY <1>2
  <2> QED
    BY <2>1, <2>2 DEF CycleOf
<1>7. ASSUME NEW y \in CycleOf(d, x) PROVE y \in C
  <2>1. Reaches(d, x, y) /\ Reaches(d, y, x)
    BY DEF CycleOf
  <2>2. y \in C \cup Gone(i, K)
    BY <1>3, <2>1, ReachStays
  <2>3. y \in Gone(i, K) => x \in Gone(i, K)
    BY <1>4, <2>1, ReachStays
  <2>4. x \notin Gone(i, K)
    BY DEF Gone
  <2> QED
    BY <2>2, <2>3, <2>4
<1> QED
  BY <1>6, <1>7

Above(i, K, v) == {x \in K : i[v] <= i[x]}

LEMMA Pops ==
  ASSUME NEW d, InPath(d), NEW i, NEW l, NEW n, NEW K, NEW A, NEW left, NEW result, NEW v,
         Logic(d, i, l, n, K, A, left, {}, result), IsTop(i, A, v), NoneLeft(left, v), l[v] = i[v],
         NEW C, C = Above(i, K, v),
         NEW K2, K2 = K \ C, NEW A2, A2 = A \ {v},
         NEW result2, result2 = IF IsCycle(d, v, C) THEN result \cup {C} ELSE result
  PROVE  Logic(d, i, l, n, K2, A2, left, {}, result2)
<1>0. C = {x \in K : i[v] <= i[x]}
  BY DEF Above
<1> USE <1>0
<1>1. /\ Numbered(i, n) /\ l \in [Path -> Int] /\ Kept(i, K, A)
      /\ LeftIs(d, i, A, left) /\ TakenIs(d, i, left, {}) /\ GoneIsClosed(d, i, K)
      /\ LowIsReached(d, i, l, K, A) /\ ReachesCall(d, i, K, A) /\ CallReaches(d, i, K, A)
      /\ LowCovers(d, i, l, K, A, left) /\ ResultIs(d, i, K, result)
  BY DEF Logic
<1>2. /\ i \in [Path -> Int] /\ A \subseteq K /\ K \subseteq Path /\ \A x \in K : 0 <= i[x]
      /\ \A f, g \in Path : i[f] = i[g] /\ i[f] # NotVisited => f = g
      /\ v \in A /\ \A h \in A : i[h] <= i[v]
  BY <1>1 DEF Numbered, Kept, IsTop
<1>3. v \in K /\ v \in Path /\ v \in C /\ C \subseteq Path /\ i[v] \in Int
  BY <1>2
<1>4. ASSUME NEW x \in K2 PROVE x \in K /\ x \in Path /\ i[x] \in Int /\ i[x] < i[v]
  BY <1>2, <1>3
<1>5. ASSUME NEW h \in A2 PROVE h \in A /\ h \in K2 /\ h \in Path /\ i[h] \in Int /\ i[h] < i[v]
  <2>1. h \in A /\ h # v /\ h \in K /\ h \in Path /\ i[h] \in Int /\ i[h] <= i[v] /\ 0 <= i[h]
    BY <1>2
  <2>2. i[h] # i[v]
    BY <1>2, <1>3, <2>1 DEF NotVisited
  <2>3. i[h] < i[v]
    BY <1>3, <2>1, <2>2
  <2>4. h \notin C
    BY <1>3, <2>1, <2>3
  <2> QED
    BY <2>1, <2>3, <2>4
<1>6. Gone(i, K2) = C \cup Gone(i, K)
  <2>1. \A x \in C : i[x] # NotVisited /\ x \in Path
    BY <1>2 DEF NotVisited
  <2>2. C \subseteq K
    OBVIOUS
  <2> QED
    BY <2>1, <2>2 DEF Gone
<1>7. Kept(i, K2, A2)
  BY <1>2, <1>4, <1>5 DEF Kept
<1>8. LeftIs(d, i, A2, left)
  BY <1>1, LeftAfter
<1>9. GoneIsClosed(d, i, K2)
  <2>1. ClosedUnder(d, C \cup Gone(i, K))
    BY ComponentCloses
  <2> QED
    BY <1>6, <2>1 DEF GoneIsClosed, ClosedUnder
<1>10. LowIsReached(d, i, l, K2, A2)
  <2> SUFFICES ASSUME NEW x \in A2
               PROVE  l[x] <= i[x] /\ \E y \in K2 : i[y] = l[x] /\ Reaches(d, x, y)
    BY DEF LowIsReached
  <2>1. x \in A /\ i[x] \in Int /\ i[x] < i[v] /\ l[x] \in Int
    BY <1>1, <1>5
  <2>2. l[x] <= i[x]
    BY <1>1, <2>1 DEF LowIsReached
  <2>3. PICK y \in K : i[y] = l[x] /\ Reaches(d, x, y)
    BY <1>1, <2>1 DEF LowIsReached
  <2>4. y \notin C
    BY <1>3, <2>1, <2>2, <2>3
  <2> QED
    BY <2>2, <2>3, <2>4
<1>11. ReachesCall(d, i, K2, A2)
  <2> SUFFICES ASSUME NEW x \in K2 PROVE \E g \in A2 : i[g] <= i[x] /\ Reaches(d, x, g)
    BY DEF ReachesCall
  <2>1. x \in K /\ i[x] \in Int /\ i[x] < i[v]
    BY <1>4
  <2>2. PICK g \in A : i[g] <= i[x] /\ Reaches(d, x, g)
    BY <1>1, <2>1 DEF ReachesCall
  <2>3. i[g] \in Int
    BY <1>2
  <2>4. g # v
    BY <1>3, <2>1, <2>2, <2>3
  <2> QED
    BY <2>2, <2>4
<1>12. CallReaches(d, i, K2, A2)
  BY <1>1, <1>4, <1>5 DEF CallReaches
<1>13. LowCovers(d, i, l, K2, A2, left)
  <2> SUFFICES ASSUME NEW x \in K2, NEW y \in K2, Edge(d, x, y), <<x, y>> \notin left,
                      NEW g, IsLatest(i, A2, g, x)
               PROVE  l[g] <= i[y]
    BY DEF LowCovers
  <2>1. g \in A2 /\ i[g] <= i[x] /\ \A h \in A2 : i[h] <= i[x] => i[h] <= i[g]
    BY DEF IsLatest
  <2>2. x \in K /\ y \in K /\ ~(i[v] <= i[x])
    BY <1>3, <1>4
  <2>3. IsLatest(i, A, g, x)
    <3>1. \A h \in A : i[h] <= i[x] => i[h] <= i[g]
      BY <2>1, <2>2
    <3> QED
      BY <2>1, <3>1 DEF IsLatest
  <2> QED
    BY <1>1, <2>2, <2>3 DEF LowCovers
<1>14. ResultIs(d, i, K2, result2)
  <2>1. \A x \in C : CycleOf(d, x) = C
    BY ComponentIsCycle
  <2>2. \A x \in C : Cyclic(d, x) <=> IsCycle(d, v, C)
    BY <1>3, <2>1, CycleIsCyclic
  <2>3. PICK G : G = Gone(i, K)
    OBVIOUS
  <2>4. result = {CycleOf(d, x) : x \in {f \in G : Cyclic(d, f)}}
    BY <1>1, <2>3 DEF ResultIs
  <2>5. CASE IsCycle(d, v, C)
    <3>1. \A c : c \in result2 <=> \E x \in C \cup G : Cyclic(d, x) /\ c = CycleOf(d, x)
      BY <1>3, <2>1, <2>2, <2>4, <2>5
    <3> QED
      BY <1>6, <2>3, <3>1 DEF ResultIs
  <2>6. CASE ~IsCycle(d, v, C)
    <3>1. \A c : c \in result2 <=> \E x \in C \cup G : Cyclic(d, x) /\ c = CycleOf(d, x)
      BY <2>2, <2>4, <2>6
    <3> QED
      BY <1>6, <2>3, <3>1 DEF ResultIs
  <2> QED
    BY <2>5, <2>6
<1> QED
  BY <1>1, <1>7, <1>8, <1>9, <1>10, <1>11, <1>12, <1>13, <1>14 DEF Logic

-----------------------------------------------------------------------------
(* The stack and the calls are sequences in the order of the indices.      *)

LEMMA RisingSet ==
  ASSUME NEW i, NEW q, Rising(i, q)
  PROVE  /\ q \in Seq(Path) /\ Len(q) \in Nat /\ DOMAIN q = 1..Len(q)
         /\ \A x : x \in ToSet(q) <=> \E j \in 1..Len(q) : x = q[j]
         /\ \A j \in 1..Len(q) : q[j] \in Path
BY DEF Rising, ToSet

LEMMA RisingLast ==
  ASSUME NEW i, i \in [Path -> Int], NEW q, Rising(i, q), q # <<>>
  PROVE  IsTop(i, ToSet(q), Last(q)) /\ Last(q) \in Path
<1>1. /\ q \in Seq(Path) /\ Len(q) \in Nat
      /\ \A x : x \in ToSet(q) <=> \E j \in 1..Len(q) : x = q[j]
      /\ \A j \in 1..Len(q) : q[j] \in Path
  BY RisingSet
<1>2. Len(q) \in 1..Len(q)
  BY <1>1
<1>3. Last(q) = q[Len(q)] /\ Last(q) \in Path /\ Last(q) \in ToSet(q)
  BY <1>1, <1>2 DEF Last
<1>4. ASSUME NEW h \in ToSet(q) PROVE i[h] <= i[Last(q)]
  <2>1. PICK j \in 1..Len(q) : h = q[j]
    BY <1>1
  <2>2. i[h] \in Int
    BY <1>1, <2>1
  <2>3. CASE j = Len(q)
    BY <1>3, <2>1, <2>2, <2>3
  <2>4. CASE j # Len(q)
    <3>1. j < Len(q)
      BY <1>1, <2>1, <2>4
    <3>2. i[q[j]] < i[q[Len(q)]]
      BY <1>2, <2>1, <3>1 DEF Rising
    <3>3. i[Last(q)] \in Int
      BY <1>3
    <3> QED
      BY <1>3, <2>1, <2>2, <3>2, <3>3
  <2> QED
    BY <2>3, <2>4
<1> QED
  BY <1>3, <1>4 DEF IsTop

Numbers(i, w, n, i2) == i2 = [i EXCEPT ![w] = n]

(* n and w are new to q.                                                   *)
IsNew(i, q, n, w) == \A x \in ToSet(q) : i[x] < n /\ x # w

LEMMA RisingAppend ==
  ASSUME NEW i, NEW n \in Nat, NEW q, Rising(i, q), NEW w \in Path, i \in [Path -> Int],
         IsNew(i, q, n, w), NEW i2, Numbers(i, w, n, i2)
  PROVE  Rising(i2, Append(q, w)) /\ ToSet(Append(q, w)) = ToSet(q) \cup {w}
           /\ Rising(i2, q)
<1>0. i2 = [i EXCEPT ![w] = n] /\ \A x \in ToSet(q) : i[x] < n /\ x # w
  BY DEF IsNew, Numbers
<1>1. /\ q \in Seq(Path) /\ Len(q) \in Nat /\ DOMAIN q = 1..Len(q)
      /\ \A x : x \in ToSet(q) <=> \E j \in 1..Len(q) : x = q[j]
      /\ \A j \in 1..Len(q) : q[j] \in Path
  BY RisingSet
<1>2. PICK m \in Nat : m = Len(q)
  BY <1>1
<1>3. PICK r : r = Append(q, w)
  OBVIOUS
<1>4. /\ r \in Seq(Path) /\ Len(r) = m + 1 /\ r[m + 1] = w /\ \A j \in 1..m : r[j] = q[j]
      /\ DOMAIN r = 1..(m + 1)
  BY <1>1, <1>2, <1>3, AppendProperties
<1>5. \A j \in 1..m : q[j] \in Path /\ i2[q[j]] = i[q[j]] /\ i[q[j]] < n
  BY <1>0, <1>1, <1>2
<1>6. i2[w] = n
  BY <1>0
<1>7. \A j, k \in 1..m : j < k => i2[q[j]] < i2[q[k]]
  BY <1>2, <1>5 DEF Rising
<1>8. Rising(i2, q)
  BY <1>1, <1>2, <1>7 DEF Rising
<1>9. ASSUME NEW j \in 1..(m + 1), NEW k \in 1..(m + 1), j < k PROVE i2[r[j]] < i2[r[k]]
  <2>1. j \in 1..m /\ r[j] = q[j]
    BY <1>4, <1>9
  <2>2. CASE k = m + 1
    BY <1>4, <1>5, <1>6, <2>1, <2>2
  <2>3. CASE k # m + 1
    <3>1. k \in 1..m /\ r[k] = q[k]
      BY <1>4, <2>3
    <3> QED
      BY <1>7, <1>9, <2>1, <3>1
  <2> QED
    BY <2>2, <2>3
<1>10. Rising(i2, r)
  BY <1>4, <1>9 DEF Rising
<1>11. \A x : x \in ToSet(r) <=> \E j \in 1..(m + 1) : x = r[j]
  BY <1>4 DEF ToSet
<1>12. ASSUME NEW x PROVE x \in ToSet(r) <=> x \in ToSet(q) \cup {w}
  <2>1. ASSUME NEW j \in 1..(m + 1), x = r[j] PROVE x \in ToSet(q) \cup {w}
    <3>1. CASE j = m + 1
      BY <1>4, <2>1, <3>1
    <3>2. CASE j # m + 1
      <4>1. j \in 1..m
        BY <3>2
      <4> QED
        BY <1>1, <1>2, <1>4, <2>1, <4>1
    <3> QED
      BY <3>1, <3>2
  <2>2. ASSUME NEW j \in 1..m, x = q[j] PROVE x \in ToSet(r)
    BY <1>4, <1>11, <2>2
  <2>3. x = w => x \in ToSet(r)
    <3>1. m + 1 \in 1..(m + 1)
      OBVIOUS
    <3> QED
      BY <1>4, <1>11, <3>1
  <2> QED
    BY <1>1, <1>2, <1>11, <2>1, <2>2, <2>3
<1> QED
  BY <1>3, <1>8, <1>10, <1>12

(* A rising sequence up to its k-th file, and what comes from there on.    *)
IsAt(q, k, v) == k \in 1..Len(q) /\ v = q[k]

LEMMA RisingCut ==
  ASSUME NEW i, i \in [Path -> Int], NEW q, Rising(i, q), NEW k, NEW v, IsAt(q, k, v)
  PROVE  /\ Rising(i, SubSeq(q, 1, k - 1)) /\ ToSet(SubSeq(q, 1, k - 1)) = ToSet(q) \ Above(i, ToSet(q), v)
         /\ Above(i, ToSet(q), v) = {q[j] : j \in k..Len(q)}
         /\ Len(SubSeq(q, 1, k - 1)) = k - 1
<1> USE DEF IsAt
<1>0. PICK C : C = {x \in ToSet(q) : i[q[k]] <= i[x]}
  OBVIOUS
<1>1. /\ q \in Seq(Path) /\ Len(q) \in Nat
      /\ \A x : x \in ToSet(q) <=> \E j \in 1..Len(q) : x = q[j]
      /\ \A j \in 1..Len(q) : q[j] \in Path
  BY RisingSet
<1>2. PICK m \in Nat : m = Len(q)
  BY <1>1
<1>3. k \in Nat /\ 1 <= k /\ k <= m /\ k - 1 \in Nat
  BY <1>2
<1>4. PICK r : r = SubSeq(q, 1, k - 1)
  OBVIOUS
<1>5. r \in Seq(Path) /\ Len(r) = k - 1 /\ \A j \in 1..(k - 1) : r[j] = q[j]
  BY <1>1, <1>2, <1>3, <1>4, SubSeqProperties
<1>6. \A j, h \in 1..m : j < h => i[q[j]] < i[q[h]]
  BY <1>2 DEF Rising
<1>7. \A j \in 1..m : q[j] \in Path /\ i[q[j]] \in Int
  BY <1>1, <1>2
<1>8. \A j \in 1..m : i[q[k]] <= i[q[j]] <=> k <= j
  <2> SUFFICES ASSUME NEW j \in 1..m PROVE i[q[k]] <= i[q[j]] <=> k <= j
    OBVIOUS
  <2>1. k \in 1..m
    BY <1>3
  <2>2. i[q[k]] \in Int /\ i[q[j]] \in Int /\ j \in Nat
    BY <1>7, <2>1
  <2>3. j < k => i[q[j]] < i[q[k]]
    BY <1>6, <2>1
  <2>4. k < j => i[q[k]] < i[q[j]]
    BY <1>6, <2>1
  <2>5. j = k => i[q[j]] = i[q[k]]
    OBVIOUS
  <2> QED
    BY <1>3, <2>2, <2>3, <2>4, <2>5
<1>9. Rising(i, r)
  <2>1. ASSUME NEW j \in 1..(k - 1), NEW h \in 1..(k - 1), j < h PROVE i[r[j]] < i[r[h]]
    <3>1. j \in 1..m /\ h \in 1..m
      BY <1>3
    <3> QED
      BY <1>5, <1>6, <2>1, <3>1
  <2> QED
    BY <1>5, <2>1 DEF Rising
<1>10. \A x : x \in ToSet(r) <=> \E j \in 1..(k - 1) : x = r[j]
  BY <1>5, <1>9, RisingSet
<1>11. ASSUME NEW x PROVE x \in C <=> \E j \in k..m : x = q[j]
  <2>1. ASSUME NEW j \in k..m, x = q[j] PROVE x \in C
    <3>1. j \in 1..m /\ k <= j
      BY <1>3
    <3>2. i[q[k]] <= i[x]
      BY <1>8, <2>1, <3>1
    <3>3. j \in 1..Len(q)
      BY <1>2, <3>1
    <3>4. x \in ToSet(q)
      BY <1>1, <2>1, <3>3
    <3> QED
      BY <1>0, <3>2, <3>4
  <2>2. ASSUME x \in C PROVE \E j \in k..m : x = q[j]
    <3>0. x \in ToSet(q)
      BY <1>0, <2>2
    <3>1. PICK j \in 1..m : x = q[j]
      BY <1>1, <1>2, <3>0
    <3>2. k <= j
      BY <1>0, <1>8, <2>2, <3>1
    <3>3. j \in k..m
      BY <1>3, <3>1, <3>2
    <3> QED
      BY <3>1, <3>3
  <2> QED
    BY <2>1, <2>2
<1>12. ASSUME NEW x PROVE x \in ToSet(r) <=> x \in ToSet(q) \ C
  <2>1. ASSUME NEW j \in 1..(k - 1), x = r[j] PROVE x \in ToSet(q) \ C
    <3>1. j \in 1..m /\ ~(k <= j) /\ x = q[j]
      BY <1>3, <1>5, <2>1
    <3>2. ~(i[q[k]] <= i[x])
      BY <1>8, <3>1
    <3> QED
      BY <1>0, <1>1, <1>2, <3>1, <3>2
  <2>2. ASSUME x \in ToSet(q) \ C PROVE \E j \in 1..(k - 1) : x = r[j]
    <3>1. PICK j \in 1..m : x = q[j]
      BY <1>1, <1>2, <2>2
    <3>2. ~(k <= j)
      BY <1>0, <1>8, <2>2, <3>1
    <3>3. j \in 1..(k - 1)
      BY <1>3, <3>1, <3>2
    <3> QED
      BY <1>5, <3>1, <3>3
  <2> QED
    BY <1>10, <2>1, <2>2
<1>13. C = {q[j] : j \in k..m}
  BY <1>11
<1>14. C = Above(i, ToSet(q), v)
  BY <1>0 DEF Above
<1> QED
  BY <1>2, <1>4, <1>5, <1>9, <1>12, <1>13, <1>14

LEMMA RisingFront ==
  ASSUME NEW i, i \in [Path -> Int], \A f, g \in Path : i[f] = i[g] /\ i[f] # NotVisited => f = g,
         NEW q, Rising(i, q), \A x \in ToSet(q) : 0 <= i[x], q # <<>>
  PROVE  /\ Rising(i, Front(q)) /\ ToSet(Front(q)) = ToSet(q) \ {Last(q)}
         /\ Len(Front(q)) = Len(q) - 1
<1>1. /\ q \in Seq(Path) /\ Len(q) \in Nat
      /\ \A x : x \in ToSet(q) <=> \E j \in 1..Len(q) : x = q[j]
      /\ \A j \in 1..Len(q) : q[j] \in Path
  BY RisingSet
<1>2. PICK m : m = Len(q)
  OBVIOUS
<1>3. m \in Nat /\ m \in 1..m /\ m \in 1..Len(q)
  BY <1>1, <1>2
<1>4. PICK C, r : C = Above(i, ToSet(q), Last(q)) /\ r = SubSeq(q, 1, m - 1)
  OBVIOUS
<1>5. Last(q) = q[m] /\ Front(q) = SubSeq(q, 1, m - 1)
  BY <1>2 DEF Last, Front
<1>6. Rising(i, r) /\ ToSet(r) = ToSet(q) \ C /\ C = {q[j] : j \in m..Len(q)} /\ Len(r) = m - 1
  <2>1. IsAt(q, m, Last(q))
    BY <1>3, <1>5 DEF IsAt
  <2>2. Rising(i, r) /\ ToSet(r) = ToSet(q) \ C /\ C = {q[j] : j \in m..Len(q)}
    BY <1>4, <2>1, RisingCut
  <2>3. Len(r) = m - 1
    BY <1>4, <2>1, RisingCut
  <2> QED
    BY <2>2, <2>3
<1>7. C = {Last(q)}
  <2>1. \A j \in m..m : j = m
    BY <1>3
  <2>2. m \in m..m
    BY <1>3
  <2> QED
    BY <1>2, <1>5, <1>6, <2>1, <2>2
<1> QED
  BY <1>2, <1>4, <1>5, <1>6, <1>7

-----------------------------------------------------------------------------
(* The rounds of find_cycles.                                              *)

(* t is s with w entered.                                                  *)
Entered(s, w, t) ==
  /\ IsSearch(t) /\ t.next = s.next + 1
  /\ t.index = [s.index EXCEPT ![w] = s.next] /\ t.low = [s.low EXCEPT ![w] = s.next]
  /\ t.stack = Append(s.stack, w) /\ t.calls = Append(s.calls, w)
  /\ t.left = s.left /\ t.result = s.result

LEMMA EnterFields ==
  ASSUME NEW s, IsSearch(s), NEW w, NEW t, t = Enter(s, w)
  PROVE  Entered(s, w, t)
<1>2. t = [next |-> s.next + 1, index |-> [s.index EXCEPT ![w] = s.next],
           low |-> [s.low EXCEPT ![w] = s.next], stack |-> Append(s.stack, w),
           result |-> s.result, calls |-> Append(s.calls, w), left |-> s.left]
  BY DEF IsSearch, Enter
<1>3. IsSearch(t)
  BY <1>2 DEF IsSearch
<1> QED
  BY <1>2, <1>3 DEF Entered

(* What the files on the stack and those of the calls are not.             *)
LEMMA OnStack ==
  ASSUME NEW d, NEW i, NEW l, NEW n, NEW K, NEW A, NEW left, NEW W, NEW result,
         Logic(d, i, l, n, K, A, left, W, result)
  PROVE  /\ n \in Nat /\ i \in [Path -> Int] /\ l \in [Path -> Int]
         /\ \A f \in Path : i[f] = NotVisited \/ (0 <= i[f] /\ i[f] < n)
         /\ \A f, g \in Path : i[f] = i[g] /\ i[f] # NotVisited => f = g
         /\ A \subseteq K /\ K \subseteq Path
         /\ \A x \in K : 0 <= i[x] /\ i[x] < n /\ i[x] # NotVisited
         /\ left \subseteq Path \X Path /\ \A x, y : <<x, y>> \in left => Edge(d, x, y)
<1>1. /\ Numbered(i, n) /\ l \in [Path -> Int] /\ Kept(i, K, A) /\ LeftIs(d, i, A, left)
  BY DEF Logic
<1>2. /\ n \in Nat /\ i \in [Path -> Int]
      /\ \A f \in Path : i[f] = NotVisited \/ (0 <= i[f] /\ i[f] < n)
      /\ \A f, g \in Path : i[f] = i[g] /\ i[f] # NotVisited => f = g
      /\ A \subseteq K /\ K \subseteq Path /\ \A x \in K : 0 <= i[x]
  BY <1>1 DEF Numbered, Kept
<1>3. \A x \in K : i[x] # NotVisited
  BY <1>2 DEF NotVisited
<1>4. left \subseteq Path \X Path /\ \A x, y : <<x, y>> \in left => Edge(d, x, y)
  BY <1>1 DEF LeftIs
<1> QED
  BY <1>1, <1>2, <1>3, <1>4

LEMMA EnterKeeps ==
  ASSUME NEW d, InPath(d), NEW s, NEW w \in Path, SearchOK(d, s, {w}), s.index[w] = NotVisited,
         AllReach(d, ToSet(s.calls), w)
  PROVE  SearchOK(d, Enter(s, w), {})
<1>1. PICK i, l, n, K, A, q, c :
        /\ i = s.index /\ l = s.low /\ n = s.next /\ K = ToSet(s.stack) /\ A = ToSet(s.calls)
        /\ q = s.stack /\ c = s.calls
  OBVIOUS
<1>2. /\ Rising(i, q) /\ Rising(i, c) /\ Logic(d, i, l, n, K, A, s.left, {w}, s.result)
      /\ IsSearch(s)
  BY <1>1 DEF SearchOK
<1>3. /\ n \in Nat /\ i \in [Path -> Int] /\ A \subseteq K
      /\ \A x \in K : i[x] < n /\ i[x] # NotVisited
  BY <1>2, OnStack
<1>4. PICK t : t = Enter(s, w)
  OBVIOUS
<1>5. /\ IsSearch(t) /\ t.next = n + 1 /\ t.index = [i EXCEPT ![w] = n]
      /\ t.low = [l EXCEPT ![w] = n] /\ t.stack = Append(q, w) /\ t.calls = Append(c, w)
      /\ t.left = s.left /\ t.result = s.result
  <2>1. Entered(s, w, t)
    BY <1>2, <1>4, EnterFields
  <2> QED
    BY <1>1, <2>1 DEF Entered
<1>6. PICK i2, l2, K2, A2 : /\ i2 = [i EXCEPT ![w] = n] /\ l2 = [l EXCEPT ![w] = n]
                            /\ K2 = K \cup {w} /\ A2 = A \cup {w}
  OBVIOUS
<1>7. i[w] = NotVisited /\ AllReach(d, A, w)
  BY <1>1
<1>8. Logic(d, i2, l2, n + 1, K2, A2, s.left, {}, s.result)
  BY <1>2, <1>6, <1>7, Enters
<1>9. Rising(i2, Append(q, w)) /\ ToSet(Append(q, w)) = ToSet(q) \cup {w}
  <2>1. IsNew(i, q, n, w)
    BY <1>1, <1>3, <1>7 DEF IsNew
  <2>2. Rising(i, q)
    BY <1>2
  <2>3. n \in Nat /\ i \in [Path -> Int]
    BY <1>3
  <2>4. Numbers(i, w, n, i2)
    BY <1>6 DEF Numbers
  <2> QED
    BY <2>1, <2>2, <2>3, <2>4, RisingAppend
<1>10. Rising(i2, Append(c, w)) /\ ToSet(Append(c, w)) = ToSet(c) \cup {w}
  <2>1. IsNew(i, c, n, w)
    BY <1>1, <1>3, <1>7 DEF IsNew
  <2>2. Rising(i, c)
    BY <1>2
  <2>3. n \in Nat /\ i \in [Path -> Int]
    BY <1>3
  <2>4. Numbers(i, w, n, i2)
    BY <1>6 DEF Numbers
  <2> QED
    BY <2>1, <2>2, <2>3, <2>4, RisingAppend
<1>11. SearchOK(d, t, {})
  BY <1>1, <1>5, <1>6, <1>8, <1>9, <1>10 DEF SearchOK
<1> QED
  BY <1>4, <1>11

(* t in its parts.                                                         *)
Parts(t, n, i, l, q, r, c, left) ==
  t = [next |-> n, index |-> i, low |-> l, stack |-> q, result |-> r, calls |-> c, left |-> left]

LEMMA PartsOK ==
  ASSUME NEW d, NEW t, NEW n, NEW i, NEW l, NEW q, NEW r, NEW c, NEW left, NEW W,
         Parts(t, n, i, l, q, r, c, left), Rising(i, q), Rising(i, c),
         Logic(d, i, l, n, ToSet(q), ToSet(c), left, W, r)
  PROVE  SearchOK(d, t, W)
<1>1. /\ t.next = n /\ t.index = i /\ t.low = l /\ t.stack = q /\ t.result = r
      /\ t.calls = c /\ t.left = left /\ IsSearch(t)
  BY DEF Parts, IsSearch
<1> QED
  BY <1>1 DEF SearchOK

LEMMA OKParts ==
  ASSUME NEW d, NEW s, NEW W, SearchOK(d, s, W)
  PROVE  /\ Parts(s, s.next, s.index, s.low, s.stack, s.result, s.calls, s.left)
         /\ Rising(s.index, s.stack) /\ Rising(s.index, s.calls)
         /\ Logic(d, s.index, s.low, s.next, ToSet(s.stack), ToSet(s.calls), s.left, W, s.result)
BY DEF SearchOK, IsSearch, Parts

Without(s, v, w, t) == t = [s EXCEPT !.left = @ \ {<<v, w>>}]

LEMMA TakeReady ==
  ASSUME NEW d, InPath(d), NEW s, SearchOK(d, s, {}), s.calls # <<>>, NEW v, v = Last(s.calls),
         NEW w, <<v, w>> \in s.left, s.index[w] = NotVisited,
         NEW t, Without(s, v, w, t)
  PROVE  /\ SearchOK(d, t, {w}) /\ AllReach(d, ToSet(t.calls), w) /\ w \in Path
         /\ t.index[w] = NotVisited
<1>1. PICK n, i, l, q, r, c, left :
        /\ n = s.next /\ i = s.index /\ l = s.low /\ q = s.stack /\ r = s.result
        /\ c = s.calls /\ left = s.left
  OBVIOUS
<1>2. /\ Parts(s, n, i, l, q, r, c, left) /\ Rising(i, q) /\ Rising(i, c)
      /\ Logic(d, i, l, n, ToSet(q), ToSet(c), left, {}, r)
  BY <1>1, OKParts
<1>3. PICK K, A : K = ToSet(q) /\ A = ToSet(c)
  OBVIOUS
<1>4. Logic(d, i, l, n, K, A, left, {}, r)
  BY <1>2, <1>3
<1>5. /\ i \in [Path -> Int] /\ l \in [Path -> Int] /\ A \subseteq K /\ K \subseteq Path
      /\ \A x \in K : i[x] # NotVisited
      /\ \A x, y : <<x, y>> \in left => Edge(d, x, y)
  BY <1>4, OnStack
<1>6. IsTop(i, A, v) /\ v \in Path
  BY <1>1, <1>2, <1>3, <1>5, RisingLast
<1>7. Edge(d, v, w) /\ w \in Path
  BY <1>1, <1>5 DEF Edge, InPath
<1>8. PICK left2 : left2 = left \ {<<v, w>>}
  OBVIOUS
<1>10. Parts(t, n, i, l, q, r, c, left2)
  BY <1>1, <1>2, <1>8 DEF Parts, Without
<1>11. t.index = i /\ t.calls = c /\ t.low = l
  BY <1>10 DEF Parts
<1>12. i[w] = NotVisited
  BY <1>1
<1>13. w \notin K
  BY <1>5, <1>12
<1>14. Logic(d, i, l, n, K, A, left2, {w}, r)
  BY <1>4, <1>6, <1>7, <1>8, <1>13, Takes
<1>15. SearchOK(d, t, {w})
  BY <1>2, <1>3, <1>10, <1>14, PartsOK
<1>16. AllReach(d, A, w)
  <2>1. CallReaches(d, i, K, A)
    BY <1>4 DEF Logic
  <2>2. ASSUME NEW g \in A PROVE Reaches(d, g, w)
    <3>1. Reaches(d, g, v)
      BY <1>5, <1>6, <2>1 DEF IsTop, CallReaches
    <3>2. Reaches(d, v, w)
      BY <1>7, ReachImport DEF Edge
    <3> QED
      BY <3>1, <3>2, ReachTrans
  <2> QED
    BY <2>2 DEF AllReach
<1> QED
  BY <1>3, <1>7, <1>11, <1>12, <1>15, <1>16

LEMMA TakeKeeps ==
  ASSUME NEW d, InPath(d), NEW s, SearchOK(d, s, {}), s.calls # <<>>, NEW v, v = Last(s.calls),
         NEW w, <<v, w>> \in s.left
  PROVE  SearchOK(d, Follow(s, v, w), {})
<1>1. PICK n, i, l, q, r, c, left :
        /\ n = s.next /\ i = s.index /\ l = s.low /\ q = s.stack /\ r = s.result
        /\ c = s.calls /\ left = s.left
  OBVIOUS
<1>2. /\ Parts(s, n, i, l, q, r, c, left) /\ Rising(i, q) /\ Rising(i, c)
      /\ Logic(d, i, l, n, ToSet(q), ToSet(c), left, {}, r)
  BY <1>1, OKParts
<1>3. PICK K, A : K = ToSet(q) /\ A = ToSet(c)
  OBVIOUS
<1>4. Logic(d, i, l, n, K, A, left, {}, r)
  BY <1>2, <1>3
<1>5. /\ i \in [Path -> Int] /\ l \in [Path -> Int] /\ A \subseteq K /\ K \subseteq Path
      /\ \A x \in K : i[x] # NotVisited
      /\ \A x, y : <<x, y>> \in left => Edge(d, x, y)
  BY <1>4, OnStack
<1>6. IsTop(i, A, v) /\ v \in Path
  BY <1>1, <1>2, <1>3, <1>5, RisingLast
<1>7. Edge(d, v, w) /\ w \in Path
  BY <1>1, <1>5 DEF Edge, InPath
<1>8. PICK left2 : left2 = left \ {<<v, w>>}
  OBVIOUS
<1>9. PICK t : t = [s EXCEPT !.left = @ \ {<<v, w>>}]
  OBVIOUS
<1>10. Parts(t, n, i, l, q, r, c, left2)
  BY <1>1, <1>2, <1>8, <1>9 DEF Parts
<1>11. t.index = i /\ t.calls = c /\ t.low = l
  BY <1>10 DEF Parts
<1>12. CASE i[w] = NotVisited
  <2>1. SearchOK(d, t, {w}) /\ AllReach(d, ToSet(t.calls), w) /\ t.index[w] = NotVisited
    <3>1. Without(s, v, w, t) /\ s.index[w] = NotVisited
      BY <1>1, <1>9, <1>12 DEF Without
    <3> QED
      BY <3>1, TakeReady
  <2>2. SearchOK(d, Enter(t, w), {})
    BY <1>7, <2>1, EnterKeeps
  <2> QED
    BY <1>1, <1>9, <1>12, <2>2 DEF Follow
<1>13. CASE i[w] # NotVisited /\ w \in K
  <2>1. PICK l2 : l2 = [l EXCEPT ![v] = IF i[w] < @ THEN i[w] ELSE @]
    OBVIOUS
  <2>2. Logic(d, i, l2, n, K, A, left2, {w}, r)
    BY <1>4, <1>6, <1>7, <1>8, <1>13, <2>1, Takes
  <2>3. Logic(d, i, l2, n, K, A, left2, {}, r)
    BY <1>13, <2>2, VisitedSettles
  <2>4. PICK u : u = Lowered(t, v, i[w])
    OBVIOUS
  <2>5. Parts(u, n, i, l2, q, r, c, left2)
    BY <1>10, <2>1, <2>4 DEF Parts, Lowered
  <2>6. SearchOK(d, u, {})
    BY <1>2, <1>3, <2>3, <2>5, PartsOK
  <2> QED
    BY <1>1, <1>3, <1>9, <1>13, <2>4, <2>6 DEF Follow
<1>14. CASE i[w] # NotVisited /\ w \notin K
  <2>1. Logic(d, i, l, n, K, A, left2, {w}, r)
    BY <1>4, <1>6, <1>7, <1>8, <1>14, Takes
  <2>2. Logic(d, i, l, n, K, A, left2, {}, r)
    BY <1>14, <2>1, VisitedSettles
  <2>3. SearchOK(d, t, {})
    BY <1>2, <1>3, <1>10, <2>2, PartsOK
  <2> QED
    BY <1>1, <1>3, <1>9, <1>14, <2>3 DEF Follow
<1> QED
  BY <1>12, <1>13, <1>14

LEMMA LeaveKeeps ==
  ASSUME NEW d, InPath(d), NEW s, SearchOK(d, s, {}), s.calls # <<>>, NEW v, v = Last(s.calls),
         Pending(s, v) = {}
  PROVE  SearchOK(d, Leave(d, s, v), {})
<1>1. PICK n, i, l, q, r, c, left :
        /\ n = s.next /\ i = s.index /\ l = s.low /\ q = s.stack /\ r = s.result
        /\ c = s.calls /\ left = s.left
  OBVIOUS
<1>2. /\ Parts(s, n, i, l, q, r, c, left) /\ Rising(i, q) /\ Rising(i, c)
      /\ Logic(d, i, l, n, ToSet(q), ToSet(c), left, {}, r)
  BY <1>1, OKParts
<1>3. PICK K, A : K = ToSet(q) /\ A = ToSet(c)
  OBVIOUS
<1>4. Logic(d, i, l, n, K, A, left, {}, r)
  BY <1>2, <1>3
<1>5. /\ i \in [Path -> Int] /\ l \in [Path -> Int] /\ A \subseteq K /\ K \subseteq Path
      /\ \A x \in K : 0 <= i[x]
      /\ \A f, g \in Path : i[f] = i[g] /\ i[f] # NotVisited => f = g
  BY <1>4, OnStack
<1>6. IsTop(i, A, v) /\ v \in Path /\ v \in A /\ v \in K
  BY <1>1, <1>2, <1>3, <1>5, RisingLast DEF IsTop
<1>7. NoneLeft(left, v)
  BY <1>1 DEF Pending, NoneLeft
<1>8. PICK c2, A2 : c2 = Front(c) /\ A2 = A \ {v}
  OBVIOUS
<1>9. Rising(i, c2) /\ ToSet(c2) = A2
  <2>1. \A x \in ToSet(c) : 0 <= i[x]
    BY <1>3, <1>5
  <2> QED
    BY <1>1, <1>2, <1>3, <1>5, <1>8, <2>1, RisingFront
<1>10. c2 # <<>> => IsTop(i, A2, Last(c2)) /\ Last(c2) \in Path
  BY <1>5, <1>9, RisingLast
<1>11. CASE l[v] # i[v]
  <2>1. A2 # {}
    BY <1>4, <1>6, <1>8, <1>11, ReturnsLower
  <2>2. c2 # <<>>
    BY <1>9, <2>1 DEF ToSet
  <2>3. PICK u : u = Last(c2)
    OBVIOUS
  <2>4. PICK l2 : l2 = [l EXCEPT ![u] = IF l[v] < @ THEN l[v] ELSE @]
    OBVIOUS
  <2>5. Logic(d, i, l2, n, K, A2, left, {}, r)
    BY <1>4, <1>6, <1>7, <1>8, <1>10, <1>11, <2>2, <2>3, <2>4, Returns
  <2>6. PICK t : t = [s EXCEPT !.calls = Front(@)]
    OBVIOUS
  <2>7. Parts(t, n, i, l, q, r, c2, left)
    BY <1>1, <1>2, <1>8, <2>6 DEF Parts
  <2>8. Leave(d, s, v) = Lowered(t, u, l[v])
    <3>1. t.calls = c2
      BY <2>7 DEF Parts
    <3> QED
      BY <1>1, <1>11, <2>2, <2>3, <2>6, <3>1 DEF Leave
  <2>9. Parts(Lowered(t, u, l[v]), n, i, l2, q, r, c2, left)
    BY <2>4, <2>7 DEF Parts, Lowered
  <2> QED
    BY <1>2, <1>3, <1>9, <2>5, <2>8, <2>9, PartsOK
<1>12. CASE l[v] = i[v]
  <2>1. /\ Len(q) \in Nat /\ DOMAIN q = 1..Len(q)
        /\ \A x : x \in K <=> \E j \in 1..Len(q) : x = q[j]
    BY <1>2, <1>3, RisingSet
  <2>2. PICK at : at = CHOOSE j \in DOMAIN q : q[j] = v
    OBVIOUS
  <2>3. at \in 1..Len(q) /\ q[at] = v
    BY <1>6, <2>1, <2>2
  <2>4. PICK C, q2, K2 : C = Above(i, K, v) /\ q2 = SubSeq(q, 1, at - 1) /\ K2 = K \ C
    OBVIOUS
  <2>5. C = Above(i, ToSet(q), v) /\ IsAt(q, at, v)
    BY <1>3, <2>3, <2>4 DEF IsAt
  <2>6. Rising(i, q2) /\ ToSet(q2) = K2 /\ C = {q[j] : j \in at..Len(q)}
    BY <1>2, <1>3, <1>5, <2>4, <2>5, RisingCut
  <2>7. PICK r2 : r2 = IF IsCycle(d, v, C) THEN r \cup {C} ELSE r
    OBVIOUS
  <2>8. Logic(d, i, l, n, K2, A2, left, {}, r2)
    BY <1>4, <1>6, <1>7, <1>8, <1>12, <2>4, <2>7, Pops
  <2>9. PICK p : p = Popped(d, v, s)
    OBVIOUS
  <2>10. Parts(p, n, i, l, q2, r2, c, left)
    <3>1. p = [s EXCEPT !.stack = SubSeq(@, 1, at - 1),
                        !.result = IF IsCycle(d, v, C) THEN @ \cup {C} ELSE @]
      BY <1>1, <2>2, <2>6, <2>9 DEF Popped
    <3> QED
      BY <1>1, <1>2, <2>4, <2>7, <3>1 DEF Parts
  <2>11. PICK t : t = [p EXCEPT !.calls = Front(@)]
    OBVIOUS
  <2>12. Parts(t, n, i, l, q2, r2, c2, left)
    BY <1>8, <2>10, <2>11 DEF Parts
  <2>13. SearchOK(d, t, {})
    BY <1>9, <2>6, <2>8, <2>12, PartsOK
  <2>14. t.calls = c2
    BY <2>12 DEF Parts
  <2>15. Leave(d, s, v) = IF c2 = <<>> THEN t ELSE Lowered(t, Last(c2), l[v])
    BY <1>1, <1>12, <2>9, <2>11, <2>14 DEF Leave
  <2>16. CASE c2 = <<>>
    BY <2>13, <2>15, <2>16
  <2>17. CASE c2 # <<>>
    <3>1. PICK u : u = Last(c2)
      OBVIOUS
    <3>2. u \in A2 /\ u \in A /\ u \in Path /\ i[u] <= i[v] /\ i[u] \in Int /\ i[v] \in Int
          /\ l[u] \in Int
      BY <1>5, <1>6, <1>8, <1>10, <2>17, <3>1 DEF IsTop
    <3>3. LowIsReached(d, i, l, K, A)
      BY <1>4 DEF Logic
    <3>4. l[u] <= i[u]
      BY <3>2, <3>3 DEF LowIsReached
    <3>5. ~(l[v] < l[u])
      BY <1>12, <3>2, <3>4
    <3>6. [l EXCEPT ![u] = IF l[v] < @ THEN l[v] ELSE @] = l
      BY <1>5, <3>2, <3>5
    <3>7. Parts(Lowered(t, u, l[v]), n, i, l, q2, r2, c2, left)
      BY <2>12, <3>6 DEF Parts, Lowered
    <3>8. SearchOK(d, Lowered(t, u, l[v]), {})
      BY <1>9, <2>6, <2>8, <3>7, PartsOK
    <3> QED
      BY <2>15, <2>17, <3>1, <3>8
  <2> QED
    BY <2>16, <2>17
<1> QED
  BY <1>11, <1>12

LEMMA BlankOK ==
  ASSUME NEW d, InPath(d)
  PROVE  SearchOK(d, Blank(d), {})
<1>1. PICK i, left : /\ i = [f \in Path |-> NotVisited]
                     /\ left = {e \in Path \X Path : e[2] \in Get(d, e[1])}
  OBVIOUS
<1>2. PICK t : t = Blank(d)
  OBVIOUS
<1>3. Parts(t, 0, i, i, <<>>, {}, <<>>, left)
  BY <1>1, <1>2 DEF Blank, Parts
<1>4. Rising(i, <<>>) /\ ToSet(<<>>) = {}
  BY DEF Rising, ToSet
<1>5. i \in [Path -> Int] /\ \A f \in Path : i[f] = NotVisited
  BY <1>1 DEF NotVisited
<1>6. Numbered(i, 0) /\ Kept(i, {}, {})
  BY <1>5 DEF Numbered, Kept
<1>7. LeftIs(d, i, {}, left) /\ TakenIs(d, i, left, {})
  <2>1. left \subseteq Path \X Path /\ \A x, y : <<x, y>> \in left => Edge(d, x, y)
    BY <1>1 DEF Edge
  <2>2. \A x, y : Edge(d, x, y) => <<x, y>> \in left /\ i[x] = NotVisited
    BY <1>1, <1>5 DEF Edge, InPath
  <2> QED
    BY <2>1, <2>2 DEF LeftIs, TakenIs
<1>8. Gone(i, {}) = {}
  BY <1>5 DEF Gone
<1>9. GoneIsClosed(d, i, {}) /\ ResultIs(d, i, {}, {})
  BY <1>8 DEF GoneIsClosed, ResultIs
<1>10. /\ LowIsReached(d, i, i, {}, {}) /\ ReachesCall(d, i, {}, {}) /\ CallReaches(d, i, {}, {})
       /\ LowCovers(d, i, i, {}, {}, left)
  BY DEF LowIsReached, ReachesCall, CallReaches, LowCovers
<1>11. Logic(d, i, i, 0, {}, {}, left, {}, {})
  BY <1>5, <1>6, <1>7, <1>9, <1>10 DEF Logic
<1>12. SearchOK(d, t, {})
  BY <1>3, <1>4, <1>11, PartsOK
<1> QED
  BY <1>2, <1>12

LEMMA LessTaken ==
  ASSUME NEW d, NEW s, NEW W, SearchOK(d, s, {})
  PROVE  SearchOK(d, s, W)
BY DEF SearchOK, Logic, TakenIs

(* What is left of find_cycles.                                            *)
Unvisited(i) == {f \in Path : i[f] = NotVisited}

SearchCost(s) == 2 * Cardinality(Unvisited(s.index)) + Len(s.calls) + Cardinality(s.left)

LEMMA SearchCosts ==
  ASSUME NEW d, NEW s, NEW W, SearchOK(d, s, W)
  PROVE  /\ IsFiniteSet(Unvisited(s.index)) /\ Cardinality(Unvisited(s.index)) \in Nat
         /\ Len(s.calls) \in Nat /\ IsFiniteSet(s.left) /\ Cardinality(s.left) \in Nat
         /\ SearchCost(s) \in Nat
<1>1. s.left \subseteq Path \X Path /\ s.calls \in Seq(Path)
  BY OKParts, OnStack DEF Rising
<1>2. IsFiniteSet(Path \X Path) /\ Unvisited(s.index) \subseteq Path
  BY QueriesAssumption, FS_Product DEF Unvisited
<1>3. IsFiniteSet(s.left) /\ IsFiniteSet(Unvisited(s.index))
  BY <1>1, <1>2, QueriesAssumption, FS_Subset
<1>4. Cardinality(Unvisited(s.index)) \in Nat /\ Len(s.calls) \in Nat /\ Cardinality(s.left) \in Nat
  BY <1>1, <1>3, FS_CardinalityType
<1> QED
  BY <1>3, <1>4 DEF SearchCost

LEMMA EnterCosts ==
  ASSUME NEW d, NEW s, NEW w \in Path, SearchOK(d, s, {w}), s.index[w] = NotVisited
  PROVE  SearchCost(Enter(s, w)) = SearchCost(s) - 1
<1>1. PICK t : t = Enter(s, w)
  OBVIOUS
<1>2. IsSearch(s) /\ Rising(s.index, s.calls)
  BY DEF SearchOK
<1>3. /\ s.next \in Nat /\ s.index \in [Path -> Int]
  <2>1. Logic(d, s.index, s.low, s.next, ToSet(s.stack), ToSet(s.calls), s.left, {w}, s.result)
    BY OKParts
  <2> QED
    BY <2>1, OnStack
<1>4. /\ t.index = [s.index EXCEPT ![w] = s.next] /\ t.calls = Append(s.calls, w) /\ t.left = s.left
  <2>1. Entered(s, w, t)
    BY <1>1, <1>2, EnterFields
  <2> QED
    BY <2>1 DEF Entered
<1>5. Unvisited(t.index) = Unvisited(s.index) \ {w}
  BY <1>3, <1>4 DEF Unvisited, NotVisited
<1>6. w \in Unvisited(s.index)
  BY DEF Unvisited
<1>7. PICK U : U = Unvisited(s.index)
  OBVIOUS
<1>8. IsFiniteSet(U) /\ Cardinality(U) \in Nat /\ Len(s.calls) \in Nat /\ Cardinality(s.left) \in Nat
  BY <1>7, SearchCosts
<1>9. Cardinality(U \ {w}) = Cardinality(U) - 1
  BY <1>6, <1>7, <1>8, FS_RemoveElement
<1>10. Len(t.calls) = Len(s.calls) + 1
  BY <1>2, <1>4 DEF Rising
<1>11. SearchCost(s) = 2 * Cardinality(U) + Len(s.calls) + Cardinality(s.left)
  BY <1>7 DEF SearchCost
<1>12. SearchCost(t) = 2 * Cardinality(U \ {w}) + Len(t.calls) + Cardinality(s.left)
  BY <1>4, <1>5, <1>7 DEF SearchCost
<1>13. SearchCost(t) = SearchCost(s) - 1
  BY <1>8, <1>9, <1>10, <1>11, <1>12
<1> QED
  BY <1>1, <1>13

LEMMA TakeCosts ==
  ASSUME NEW d, InPath(d), NEW s, SearchOK(d, s, {}), s.calls # <<>>, NEW v, v = Last(s.calls),
         NEW w, <<v, w>> \in s.left
  PROVE  SearchCost(Follow(s, v, w)) < SearchCost(s)
<1>1. PICK t : t = [s EXCEPT !.left = @ \ {<<v, w>>}]
  OBVIOUS
<1>2. /\ IsSearch(s) /\ IsSearch(t) /\ t.index = s.index /\ t.calls = s.calls
      /\ t.left = s.left \ {<<v, w>>}
  <2>1. IsSearch(s)
    BY DEF SearchOK
  <2> QED
    BY <1>1, <2>1 DEF IsSearch
<1>3. /\ IsFiniteSet(s.left) /\ Cardinality(s.left) \in Nat /\ Len(s.calls) \in Nat
      /\ Cardinality(Unvisited(s.index)) \in Nat /\ SearchCost(s) \in Nat
  BY SearchCosts
<1>4. SearchCost(t) = SearchCost(s) - 1
  <2>1. PICK a, b : a = s.left /\ b = a \ {<<v, w>>}
    OBVIOUS
  <2>2. Cardinality(b) = Cardinality(a) - 1
    BY <1>3, <2>1, FS_RemoveElement
  <2>3. SearchCost(t) = 2 * Cardinality(Unvisited(s.index)) + Len(s.calls) + Cardinality(b)
    BY <1>2, <2>1 DEF SearchCost
  <2>4. SearchCost(s) = 2 * Cardinality(Unvisited(s.index)) + Len(s.calls) + Cardinality(a)
    BY <2>1 DEF SearchCost
  <2> QED
    BY <1>3, <2>1, <2>2, <2>3, <2>4
<1>5. CASE s.index[w] = NotVisited
  <2>1. SearchOK(d, t, {w}) /\ w \in Path
    <3>1. Without(s, v, w, t)
      BY <1>1 DEF Without
    <3> QED
      BY <1>5, <3>1, TakeReady
  <2>2. SearchCost(Enter(t, w)) = SearchCost(t) - 1
    BY <1>2, <1>5, <2>1, EnterCosts
  <2>3. Follow(s, v, w) = Enter(t, w)
    BY <1>1, <1>5 DEF Follow
  <2> QED
    BY <1>3, <1>4, <2>2, <2>3
<1>6. CASE s.index[w] # NotVisited
  <2>1. PICK u : u = Follow(s, v, w)
    OBVIOUS
  <2>2. u = Lowered(t, v, s.index[w]) \/ u = t
    BY <1>1, <1>6, <2>1 DEF Follow
  <2>3. u.index = t.index /\ u.calls = t.calls /\ u.left = t.left
    BY <1>2, <2>2 DEF Lowered, IsSearch
  <2>4. SearchCost(u) = SearchCost(t)
    BY <2>3 DEF SearchCost
  <2> QED
    BY <1>3, <1>4, <2>1, <2>4
<1> QED
  BY <1>5, <1>6

LEMMA LeaveCosts ==
  ASSUME NEW d, NEW s, SearchOK(d, s, {}), s.calls # <<>>, NEW v
  PROVE  SearchCost(Leave(d, s, v)) = SearchCost(s) - 1
<1>1. PICK p : p = IF s.low[v] = s.index[v] THEN Popped(d, v, s) ELSE s
  OBVIOUS
<1>2. IsSearch(s)
  BY DEF SearchOK
<1>3. IsSearch(p) /\ p.index = s.index /\ p.calls = s.calls /\ p.left = s.left
  BY <1>1, <1>2 DEF Popped, IsSearch
<1>4. PICK t : t = [p EXCEPT !.calls = Front(@)]
  OBVIOUS
<1>5. IsSearch(t) /\ t.index = s.index /\ t.calls = Front(s.calls) /\ t.left = s.left
  BY <1>3, <1>4 DEF IsSearch
<1>6. PICK u : u = Leave(d, s, v)
  OBVIOUS
<1>7. u = t \/ u = Lowered(t, Last(t.calls), s.low[v])
  BY <1>1, <1>4, <1>6 DEF Leave
<1>8. u.index = s.index /\ u.calls = Front(s.calls) /\ u.left = s.left
  BY <1>5, <1>7 DEF Lowered, IsSearch
<1>9. Len(Front(s.calls)) = Len(s.calls) - 1
  <2>1. Logic(d, s.index, s.low, s.next, ToSet(s.stack), ToSet(s.calls), s.left, {}, s.result)
        /\ Rising(s.index, s.calls)
    BY OKParts
  <2>2. /\ s.index \in [Path -> Int] /\ ToSet(s.calls) \subseteq ToSet(s.stack)
        /\ \A x \in ToSet(s.stack) : 0 <= s.index[x]
        /\ \A f, g \in Path : s.index[f] = s.index[g] /\ s.index[f] # NotVisited => f = g
    BY <2>1, OnStack
  <2>3. PICK i, q : i = s.index /\ q = s.calls
    OBVIOUS
  <2>4. /\ i \in [Path -> Int] /\ Rising(i, q) /\ q # <<>>
        /\ \A x \in ToSet(q) : 0 <= i[x]
        /\ \A f, g \in Path : i[f] = i[g] /\ i[f] # NotVisited => f = g
    BY <2>1, <2>2, <2>3
  <2>5. Len(Front(q)) = Len(q) - 1
    BY <2>4, RisingFront
  <2> QED
    BY <2>3, <2>5
<1>10. /\ Len(s.calls) \in Nat /\ Cardinality(s.left) \in Nat
       /\ Cardinality(Unvisited(s.index)) \in Nat
  BY SearchCosts
<1>11. SearchCost(u) = 2 * Cardinality(Unvisited(s.index)) + Len(Front(s.calls)) + Cardinality(s.left)
  BY <1>8 DEF SearchCost
<1>12. SearchCost(u) = SearchCost(s) - 1
  BY <1>9, <1>10, <1>11 DEF SearchCost
<1> QED
  BY <1>6, <1>12

(* Nothing is left to do.                                                  *)
SearchDone(d, s) == s.calls = <<>> /\ \A f \in DOMAIN d : s.index[f] # NotVisited

LEMMA RoundKeeps ==
  ASSUME NEW d, InPath(d), DOMAIN d \subseteq Path, NEW s, SearchOK(d, s, {})
  PROVE  /\ SearchOK(d, Round(d, s), {})
         /\ SearchDone(d, s) => Round(d, s) = s
         /\ ~SearchDone(d, s) => SearchCost(Round(d, s)) < SearchCost(s)
<1>1. SearchCost(s) \in Nat
  BY SearchCosts
<1>2. PICK v : v = Last(s.calls)
  OBVIOUS
<1>3. CASE s.calls # <<>> /\ Pending(s, v) # {}
  <2>1. PICK e : e = CHOOSE x \in Pending(s, v) : TRUE
    OBVIOUS
  <2>2. e \in s.left /\ e[1] = v
    BY <1>3, <2>1 DEF Pending
  <2>3. s.left \subseteq Path \X Path
    <3>1. Logic(d, s.index, s.low, s.next, ToSet(s.stack), ToSet(s.calls), s.left, {}, s.result)
      BY OKParts
    <3> QED
      BY <3>1, OnStack
  <2>4. PICK w : w = e[2]
    OBVIOUS
  <2>5. <<v, w>> \in s.left
    BY <2>2, <2>3, <2>4
  <2>6. Round(d, s) = Follow(s, v, w)
    BY <1>2, <1>3, <2>1, <2>4 DEF Round
  <2>7. SearchOK(d, Follow(s, v, w), {}) /\ SearchCost(Follow(s, v, w)) < SearchCost(s)
    BY <1>2, <1>3, <2>5, TakeKeeps, TakeCosts
  <2> QED
    BY <1>3, <2>6, <2>7 DEF SearchDone
<1>4. CASE s.calls # <<>> /\ Pending(s, v) = {}
  <2>1. Round(d, s) = Leave(d, s, v)
    BY <1>2, <1>4 DEF Round
  <2>2. SearchOK(d, Leave(d, s, v), {}) /\ SearchCost(Leave(d, s, v)) = SearchCost(s) - 1
    BY <1>2, <1>4, LeaveKeeps, LeaveCosts
  <2> QED
    BY <1>1, <1>4, <2>1, <2>2 DEF SearchDone
<1>5. PICK new : new = {f \in DOMAIN d : s.index[f] = NotVisited}
  OBVIOUS
<1>6. CASE s.calls = <<>> /\ new # {}
  <2>1. PICK w : w = CHOOSE f \in new : TRUE
    OBVIOUS
  <2>2. w \in DOMAIN d /\ w \in Path /\ s.index[w] = NotVisited
    BY <1>5, <1>6, <2>1
  <2>3. Round(d, s) = Enter(s, w)
    BY <1>5, <1>6, <2>1 DEF Round
  <2>4. SearchOK(d, s, {w})
    BY LessTaken
  <2>5. AllReach(d, ToSet(s.calls), w)
    BY <1>6 DEF AllReach, ToSet
  <2>6. SearchOK(d, Enter(s, w), {})
    BY <2>2, <2>4, <2>5, EnterKeeps
  <2>7. SearchCost(Enter(s, w)) = SearchCost(s) - 1
    BY <2>2, <2>4, EnterCosts
  <2>8. ~SearchDone(d, s)
    BY <2>2 DEF SearchDone
  <2> QED
    BY <1>1, <2>3, <2>6, <2>7, <2>8
<1>7. CASE s.calls = <<>> /\ new = {}
  <2>1. Round(d, s) = s
    BY <1>5, <1>7 DEF Round
  <2>2. SearchDone(d, s)
    BY <1>5, <1>7 DEF SearchDone
  <2> QED
    BY <2>1, <2>2
<1> QED
  BY <1>3, <1>4, <1>6, <1>7

(* When nothing is left to do, the cycles have been found.                 *)
LEMMA DoneFinds ==
  ASSUME NEW d, InPath(d), DOMAIN d \subseteq Path, NEW s, SearchOK(d, s, {}), SearchDone(d, s)
  PROVE  s.result = {CycleOf(d, f) : f \in {h \in Path : Cyclic(d, h)}}
<1>1. PICK i, K, A : i = s.index /\ K = ToSet(s.stack) /\ A = ToSet(s.calls)
  OBVIOUS
<1>2. Logic(d, i, s.low, s.next, K, A, s.left, {}, s.result)
  BY <1>1, OKParts
<1>3. A = {}
  BY <1>1 DEF SearchDone, ToSet
<1>4. K = {}
  BY <1>2, <1>3 DEF Logic, ReachesCall
<1>5. ResultIs(d, i, K, s.result)
  BY <1>2 DEF Logic
<1>6. \A f \in Path : Cyclic(d, f) => f \in Gone(i, K)
  <2> SUFFICES ASSUME NEW f \in Path, Cyclic(d, f) PROVE f \in Gone(i, K)
    OBVIOUS
  <2>1. f \in DOMAIN d
    BY DEF Cyclic, Get
  <2>2. i[f] # NotVisited
    BY <1>1, <2>1 DEF SearchDone
  <2> QED
    BY <1>4, <2>2 DEF Gone
<1>7. Gone(i, K) \subseteq Path
  BY DEF Gone
<1>8. {f \in Gone(i, K) : Cyclic(d, f)} = {h \in Path : Cyclic(d, h)}
  BY <1>6, <1>7
<1> QED
  BY <1>5, <1>8 DEF ResultIs

(* g holds the state after each of the first n rounds.                     *)
RoundsTo(d, n, g) == g = [k \in 0..n |-> IF k = 0 THEN Blank(d) ELSE Round(d, g[k - 1])]

LEMMA RoundsStep ==
  ASSUME NEW d, NEW n \in Nat, NEW g, RoundsTo(d, n, g)
  PROVE  \E h : RoundsTo(d, n + 1, h)
<1> DEFINE h == [k \in 0..(n + 1) |-> IF k = n + 1 THEN Round(d, g[n]) ELSE g[k]]
<1>1. \A k \in 0..n : h[k] = g[k]
  OBVIOUS
<1>2. \A k \in 0..(n + 1) : h[k] = IF k = 0 THEN Blank(d) ELSE Round(d, h[k - 1])
  <2> SUFFICES ASSUME NEW k \in 0..(n + 1)
               PROVE  h[k] = IF k = 0 THEN Blank(d) ELSE Round(d, h[k - 1])
    OBVIOUS
  <2>1. CASE k = n + 1
    BY <1>1, <2>1
  <2>2. CASE k # n + 1
    <3>1. k \in 0..n /\ (k # 0 => k - 1 \in 0..n)
      BY <2>2
    <3>2. g[k] = IF k = 0 THEN Blank(d) ELSE Round(d, g[k - 1])
      BY <3>1 DEF RoundsTo
    <3> QED
      BY <1>1, <3>1, <3>2
  <2> QED
    BY <2>1, <2>2
<1>3. h = [k \in 0..(n + 1) |-> h[k]]
  OBVIOUS
<1> HIDE DEF h
<1>4. RoundsTo(d, n + 1, h)
  BY <1>2, <1>3 DEF RoundsTo
<1> QED
  BY <1>4

LEMMA RoundsExist ==
  ASSUME NEW d, NEW n \in Nat
  PROVE  \E g : RoundsTo(d, n, g)
<1>1. SUFFICES ASSUME NEW T, T = {m \in Nat : ~\E g : RoundsTo(d, m, g)}, T # {}
               PROVE  FALSE
  BY <1>1
<1>2. PICK m \in T : \A k \in T : m <= k
  BY <1>1, LeastExists
<1>3. m \in Nat
  BY <1>1
<1>4. m # 0
  <2>1. PICK g : g = [k \in 0..0 |-> Blank(d)]
    OBVIOUS
  <2>2. \A k \in 0..0 : k = 0
    OBVIOUS
  <2>3. RoundsTo(d, 0, g)
    BY <2>1, <2>2 DEF RoundsTo
  <2> QED
    BY <1>1, <2>3
<1>5. m - 1 \in Nat /\ m - 1 \notin T /\ (m - 1) + 1 = m
  BY <1>2, <1>3, <1>4
<1>6. PICK g : RoundsTo(d, m - 1, g)
  BY <1>1, <1>5
<1>7. \E h : RoundsTo(d, m, h)
  BY <1>5, <1>6, RoundsStep
<1> QED
  BY <1>1, <1>7

LEMMA FindCyclesIs ==
  ASSUME NEW d
  PROVE  \E n \in Nat : \E g : /\ n = Cardinality(Path) * (Cardinality(Path) + 2)
                              /\ RoundsTo(d, n, g) /\ FindCycles(d) = g[n].result
<1>1. Cardinality(Path) \in Nat
  BY QueriesAssumption, FS_CardinalityType
<1>2. PICK n \in Nat : n = Cardinality(Path) * (Cardinality(Path) + 2)
  BY <1>1
<1>3. PICK h : RoundsTo(d, n, h)
  BY RoundsExist
<1> DEFINE G == CHOOSE g : g = [k \in 0..n |-> IF k = 0 THEN Blank(d) ELSE Round(d, g[k - 1])]
<1>4. h = [k \in 0..n |-> IF k = 0 THEN Blank(d) ELSE Round(d, h[k - 1])]
  BY <1>3 DEF RoundsTo
<1>5. G = [k \in 0..n |-> IF k = 0 THEN Blank(d) ELSE Round(d, G[k - 1])]
  BY <1>4
<1>6. FindCycles(d) = G[n].result
  BY <1>2 DEF FindCycles
<1>7. PICK g : g = G
  OBVIOUS
<1> HIDE DEF G
<1>8. RoundsTo(d, n, g)
  BY <1>5, <1>7 DEF RoundsTo
<1> QED
  BY <1>2, <1>6, <1>7, <1>8

(* Each round but those after the end leaves less to do.                   *)
LEMMA RoundsEnd ==
  ASSUME NEW d, InPath(d), DOMAIN d \subseteq Path, NEW n \in Nat, NEW g, RoundsTo(d, n, g),
         NEW k \in 0..n
  PROVE  /\ SearchOK(d, g[k], {})
         /\ SearchDone(d, g[k]) \/ SearchCost(g[k]) + k <= SearchCost(Blank(d))
<1> DEFINE Good(j) == /\ SearchOK(d, g[j], {})
                      /\ SearchDone(d, g[j]) \/ SearchCost(g[j]) + j <= SearchCost(Blank(d))
<1>1. g[0] = Blank(d) /\ \A j \in 0..n : j # 0 => g[j] = Round(d, g[j - 1])
  BY DEF RoundsTo
<1>2. SearchOK(d, Blank(d), {}) /\ SearchCost(Blank(d)) \in Nat
  BY BlankOK, SearchCosts
<1>3. Good(0)
  BY <1>1, <1>2
<1>4. ASSUME NEW j \in 0..n, j # 0, Good(j - 1) PROVE Good(j)
  <2>1. PICK s, t : s = g[j - 1] /\ t = g[j]
    OBVIOUS
  <2>2. t = Round(d, s)
    BY <1>1, <1>4, <2>1
  <2>3. SearchOK(d, s, {})
    BY <1>4, <2>1
  <2>4. /\ SearchOK(d, t, {}) /\ (SearchDone(d, s) => t = s)
        /\ (~SearchDone(d, s) => SearchCost(t) < SearchCost(s))
    BY <2>2, <2>3, RoundKeeps
  <2>5. SearchCost(s) \in Nat /\ SearchCost(t) \in Nat
    BY <2>3, <2>4, SearchCosts
  <2>6. CASE SearchDone(d, s)
    BY <2>1, <2>4, <2>6
  <2>7. CASE ~SearchDone(d, s)
    <3>1. SearchCost(s) + (j - 1) <= SearchCost(Blank(d))
      BY <1>4, <2>1, <2>7
    <3>2. SearchCost(t) + j <= SearchCost(Blank(d))
      BY <1>2, <2>4, <2>5, <2>7, <3>1
    <3> QED
      BY <2>1, <2>4, <3>2
  <2> QED
    BY <2>6, <2>7
<1> HIDE DEF Good
<1>5. Good(k)
  <2>0. SUFFICES ASSUME {j \in 0..n : ~Good(j)} # {} PROVE FALSE
    OBVIOUS
  <2>1. PICK T : T = {j \in 0..n : ~Good(j)} /\ T # {}
    BY <2>0
  <2>2. T \subseteq Nat
    BY <2>1
  <2>3. PICK m \in T : \A j \in T : m <= j
    BY <2>1, <2>2, LeastExists
  <2>4. m \in 0..n /\ ~Good(m)
    BY <2>1
  <2>5. m # 0
    BY <1>3, <2>4
  <2>6. m - 1 \in 0..n /\ ~(m <= m - 1)
    BY <2>4, <2>5
  <2>7. Good(m - 1)
    BY <2>1, <2>3, <2>6
  <2> QED
    BY <1>4, <2>4, <2>5, <2>7
<1> QED
  BY <1>5 DEF Good

LEMMA BlankCosts ==
  ASSUME NEW d
  PROVE  SearchCost(Blank(d)) <= Cardinality(Path) * (Cardinality(Path) + 2)
<1>1. PICK N \in Nat : N = Cardinality(Path)
  BY QueriesAssumption, FS_CardinalityType
<1>2. PICK left : left = {e \in Path \X Path : e[2] \in Get(d, e[1])}
  OBVIOUS
<1>3. /\ Blank(d).left = left /\ Blank(d).calls = <<>>
      /\ Blank(d).index = [f \in Path |-> NotVisited]
  BY <1>2 DEF Blank
<1>4. Unvisited(Blank(d).index) = Path
  BY <1>3 DEF Unvisited
<1>5. SearchCost(Blank(d)) = 2 * N + Cardinality(left)
  <2>1. Len(<<>>) = 0
    OBVIOUS
  <2>2. IsFiniteSet(left)
    BY <1>2, QueriesAssumption, FS_Product, FS_Subset
  <2>3. Cardinality(left) \in Nat
    BY <2>2, FS_CardinalityType
  <2> QED
    BY <1>1, <1>3, <1>4, <2>1, <2>3 DEF SearchCost
<1>6. IsFiniteSet(Path \X Path) /\ Cardinality(Path \X Path) = N * N
  BY <1>1, QueriesAssumption, FS_Product
<1>7. Cardinality(left) <= N * N /\ Cardinality(left) \in Nat
  <2>1. left \subseteq Path \X Path
    BY <1>2
  <2>2. IsFiniteSet(left) /\ Cardinality(left) <= Cardinality(Path \X Path)
    BY <1>6, <2>1, FS_Subset
  <2> QED
    BY <1>6, <2>2, FS_CardinalityType
<1>8. N * (N + 2) = N * N + 2 * N
  OBVIOUS
<1>9. N * N \in Nat
  OBVIOUS
<1>10. 2 * N + Cardinality(left) <= N * (N + 2)
  BY <1>7, <1>8, <1>9
<1> QED
  BY <1>1, <1>5, <1>10

LEMMA FindCyclesOf ==
  ASSUME NEW d, InPath(d), DOMAIN d \subseteq Path
  PROVE  FindCycles(d) = {CycleOf(d, f) : f \in {h \in Path : Cyclic(d, h)}}
<1>1. PICK n \in Nat : \E g : /\ n = Cardinality(Path) * (Cardinality(Path) + 2)
                              /\ RoundsTo(d, n, g) /\ FindCycles(d) = g[n].result
  BY FindCyclesIs
<1>2. PICK g : /\ n = Cardinality(Path) * (Cardinality(Path) + 2)
               /\ RoundsTo(d, n, g) /\ FindCycles(d) = g[n].result
  BY <1>1
<1>3. PICK s : s = g[n]
  OBVIOUS
<1>4. SearchOK(d, s, {}) /\ (SearchDone(d, s) \/ SearchCost(s) + n <= SearchCost(Blank(d)))
  <2>1. n \in 0..n
    OBVIOUS
  <2> QED
    BY <1>2, <1>3, <2>1, RoundsEnd
<1>5. SearchDone(d, s)
  <2>1. SUFFICES ASSUME SearchCost(s) + n <= SearchCost(Blank(d)) PROVE SearchDone(d, s)
    BY <1>4
  <2>2. SearchCost(Blank(d)) <= n
    BY <1>2, BlankCosts
  <2>3. /\ IsFiniteSet(Unvisited(s.index)) /\ Cardinality(Unvisited(s.index)) \in Nat
        /\ Len(s.calls) \in Nat /\ IsFiniteSet(s.left) /\ Cardinality(s.left) \in Nat
        /\ SearchCost(s) \in Nat
    BY <1>4, SearchCosts
  <2>4. SearchCost(Blank(d)) \in Nat
    BY BlankOK, SearchCosts
  <2>5. SearchCost(s) = 0
    BY <2>1, <2>2, <2>3, <2>4
  <2>6. 2 * Cardinality(Unvisited(s.index)) + Len(s.calls) + Cardinality(s.left) = 0
    BY <2>5 DEF SearchCost
  <2>7. Cardinality(Unvisited(s.index)) = 0 /\ Len(s.calls) = 0
    BY <2>3, <2>6
  <2>8. Unvisited(s.index) = {}
    BY <2>3, <2>7, FS_EmptySet
  <2>9. s.calls = <<>>
    <3>1. s.calls \in Seq(Path)
      BY <1>4, OKParts DEF Rising
    <3> QED
      BY <2>7, <3>1
  <2>10. \A f \in DOMAIN d : s.index[f] # NotVisited
    BY <2>8 DEF Unvisited
  <2> QED
    BY <2>9, <2>10 DEF SearchDone
<1> QED
  BY <1>2, <1>3, <1>4, <1>5, DoneFinds

(* What find_cycles returns are the maximal sets of files that import each *)
(* other, or themselves, each of them and nothing else, after every        *)
(* sequence of operations on the store (inmemory.py:85-119).               *)
THEOREM CyclesHold == GraphSpec => []CyclesAreExact
<1>1. GraphTypeOK => CyclesAreExact
  <2> SUFFICES ASSUME GraphTypeOK PROVE CyclesAreExact
    OBVIOUS
  <2>2. DOMAIN dependsOn \subseteq Path
    BY DEF GraphTypeOK, IsIndex
  <2>3. InPath(dependsOn)
    BY TypedInPath
  <2> QED
    BY <2>2, <2>3, FindCyclesOf DEF CyclesAreExact
<1> QED
  BY <1>1, GraphTypes, PTL

-----------------------------------------------------------------------------
(* What a review is told.                                                  *)

LEMMA CycleOfSelf ==
  ASSUME NEW d, NEW f \in Path
  PROVE  f \in CycleOf(d, f)
BY ReachSelf DEF CycleOf

LEMMA CyclesMeet ==
  ASSUME NEW d, NEW f \in Path, NEW g \in CycleOf(d, f)
  PROVE  CycleOf(d, g) = CycleOf(d, f)
<1>1. Reaches(d, f, g) /\ Reaches(d, g, f)
  BY DEF CycleOf
<1>2. ASSUME NEW h \in Path
      PROVE  (Reaches(d, f, h) /\ Reaches(d, h, f)) <=> (Reaches(d, g, h) /\ Reaches(d, h, g))
  BY <1>1, ReachTrans
<1> QED
  BY <1>2 DEF CycleOf

LEMMA CyclesShared ==
  ASSUME NEW d, InPath(d), NEW f \in Path, Cyclic(d, f), NEW g \in CycleOf(d, f)
  PROVE  Cyclic(d, g)
<1>1. g \in Path /\ Reaches(d, f, g) /\ Reaches(d, g, f)
  BY DEF CycleOf
<1>2. CASE g = f
  BY <1>2
<1>3. CASE g # f
  <2>1. \A h : Get(d, h) \subseteq Path
    BY DEF InPath
  <2>2. PICK h \in Get(d, g) : Reaches(d, h, f)
    BY <1>1, <1>3, <2>1, ReachVia
  <2>3. Reaches(d, h, g)
    BY <1>1, <2>2, ReachTrans
  <2> QED
    BY <2>3 DEF Cyclic
<1> QED
  BY <1>2, <1>3

(* The cycles through a set of files, together.                            *)
LEMMA CyclesThrough ==
  ASSUME NEW d, InPath(d), DOMAIN d \subseteq Path, NEW paths
  PROVE  UNION {c \in FindCycles(d) : c \cap paths # {}}
           = {f \in Path : Cyclic(d, f) /\ CycleOf(d, f) \cap paths # {}}
<1>1. PICK found : found = FindCycles(d)
  OBVIOUS
<1>2. found = {CycleOf(d, f) : f \in {h \in Path : Cyclic(d, h)}}
  BY <1>1, FindCyclesOf
<1>3. ASSUME NEW f \in Path, Cyclic(d, f), CycleOf(d, f) \cap paths # {}
      PROVE  \E c \in found : c \cap paths # {} /\ f \in c
  <2>1. CycleOf(d, f) \in found
    BY <1>2, <1>3
  <2> QED
    BY <1>3, <2>1, CycleOfSelf
<1>4. ASSUME NEW c \in found, c \cap paths # {}, NEW f \in c
      PROVE  f \in Path /\ Cyclic(d, f) /\ CycleOf(d, f) \cap paths # {}
  <2>1. PICK h \in Path : Cyclic(d, h) /\ c = CycleOf(d, h)
    BY <1>2
  <2>2. f \in Path
    BY <2>1 DEF CycleOf
  <2>3. f \in CycleOf(d, h)
    BY <2>1
  <2>4. Cyclic(d, f)
    BY <2>1, <2>3, CyclesShared
  <2>5. CycleOf(d, f) = c
    BY <2>1, <2>3, CyclesMeet
  <2> QED
    BY <1>4, <2>2, <2>4, <2>5
<1> QED
  BY <1>1, <1>3, <1>4

(* What context_for answers on imports and their reverse index.            *)
LEMMA ContextIs ==
  ASSUME NEW d, NEW r, InPath(d), InPath(r), DOMAIN d \subseteq Path, Mirrors(d, r), NEW p \in PR
  PROVE  /\ ContextFor(p, d, r).blast = Dependents(d, Touches[p])
         /\ UNION ContextFor(p, d, r).cycles
              = {f \in Path : Cyclic(d, f) /\ CycleOf(d, f) \cap Touches[p] # {}}
<1>1. PICK paths : paths = Touches[p]
  OBVIOUS
<1>2. paths \in SUBSET Path
  BY <1>1, MemoryAssumption
<1>3. BlastRadius(r, paths) = Dependents(d, paths)
  BY <1>2, BlastRadiusOf
<1>4. ContextFor(p, d, r).blast = BlastRadius(r, paths)
  BY <1>1 DEF ContextFor
<1>5. ContextFor(p, d, r).cycles = {c \in FindCycles(d) : c \cap paths # {}}
  BY <1>1 DEF ContextFor
<1>6. UNION {c \in FindCycles(d) : c \cap paths # {}}
        = {f \in Path : Cyclic(d, f) /\ CycleOf(d, f) \cap paths # {}}
  BY CyclesThrough
<1> QED
  BY <1>1, <1>3, <1>4, <1>5, <1>6, Zenon

ContextRows == context = [p \in PR |-> context[p]]

LEMMA ContextRowsHold == MemorySpec => []ContextRows
<1>1. MemoryInit => ContextRows
  BY DEF MemoryInit, ContextRows
<1>2. ContextRows /\ [MemoryNext]_memoryVars => ContextRows'
  BY DEF ContextRows, MemoryNext, BeginReview, FinishReview, LoseReview, memoryVars
<1> QED
  BY <1>1, <1>2, PTL DEF MemorySpec

(* A review that begins is told the files that depend on its change and    *)
(* the cycles through it in the graph as its own update leaves it, and no  *)
(* other review's step hands out a context ("so blast-radius and cycles    *)
(* reflect the current change", graph.py:149).                             *)
THEOREM ContextHolds == MemorySpec => ContextIsCurrent
<1> DEFINE Told(p) ==
      context'[p].running /\ ~context[p].running =>
        /\ context'[p].blast = Dependents(dependsOn', Touches[p])
        /\ UNION context'[p].cycles =
             {f \in Path : Cyclic(dependsOn', f) /\ CycleOf(dependsOn', f) \cap Touches[p] # {}}
<1>1. ContextRows /\ GraphTypeOK' /\ ReverseIndexAgrees' /\ [MemoryNext]_memoryVars
        => [\A p \in PR : Told(p)]_memoryVars
  <2> SUFFICES ASSUME ContextRows, GraphTypeOK', ReverseIndexAgrees', MemoryNext, NEW p \in PR,
                      context'[p].running, ~context[p].running
               PROVE  /\ context'[p].blast = Dependents(dependsOn', Touches[p])
                      /\ UNION context'[p].cycles =
                           {f \in Path : Cyclic(dependsOn', f) /\ CycleOf(dependsOn', f) \cap Touches[p] # {}}
    OBVIOUS
  <2>1. ASSUME NEW q \in PR, FinishReview(q) \/ LoseReview(q) PROVE FALSE
    <3>1. context'[p] = IF p = q THEN Idle ELSE context[p]
      BY <2>1 DEF FinishReview, LoseReview, ContextRows
    <3> QED
      BY <3>1 DEF Idle
  <2>2. PICK q \in PR : BeginReview(q)
    BY <2>1 DEF MemoryNext
  <2>3. PICK d, r : d = dependsOn' /\ r = dependents'
    OBVIOUS
  <2>5. q = p /\ context'[p] = ContextFor(p, d, r)
    BY <2>2, <2>3 DEF BeginReview, ContextRows
  <2>6. DOMAIN d \subseteq Path
    BY <2>3 DEF GraphTypeOK, IsIndex
  <2>7. InPath(d) /\ InPath(r)
    BY <2>3 DEF GraphTypeOK, IsIndex, InPath, Get
  <2>8. Mirrors(d, r)
    BY <2>3 DEF ReverseIndexAgrees, Mirrors, Get
  <2> QED
    BY <2>3, <2>5, <2>6, <2>7, <2>8, ContextIs
<1>2. GraphSpec => [](GraphTypeOK /\ ReverseIndexAgrees)
  BY GraphTypes, ReverseIndexHolds, PTL
<1> QED
  BY <1>1, <1>2, MemoryUsesGraph, ContextRowsHold, PTL DEF MemorySpec, ContextIsCurrent

-----------------------------------------------------------------------------
(* The two adapters of the graph.                                          *)

(* The relationships are the imports, and both ends of one are nodes.      *)
SameEdges(links, nodes, deps) ==
  /\ nodes \subseteq Path
  /\ \A f, g : <<f, g>> \in links <=> f \in Path /\ g \in Path /\ g \in Get(deps, f)
  /\ links \subseteq Path \X Path
  /\ \A f, g : <<f, g>> \in links => f \in nodes /\ g \in nodes

(* A file's Bug nodes are as many as its bugs.                             *)
SameBugs(bugs, count) == bugs \in [Range(Number) -> Nat] /\ SumFunction(bugs) = count

(* The last bug has a Bug node of its number.                              *)
LastBugIn(bugs, last) == \A f \in DOMAIN last : bugs[f][Number[last[f]]] > 0

AdaptersInStep ==
  /\ SameEdges(imports, fileNodes, dependsOn)
  /\ DOMAIN fixedIn = Path /\ \A f \in Path : SameBugs(fixedIn[f], Count(f))
  /\ LastBugIn(fixedIn, lastBug)

LEMMA NumbersFinite == IsFiniteSet(Range(Number))
<1>1. Range(Number) = {Number[p] : p \in PR}
  BY Neo4jAssumption DEF Range
<1>2. IsFiniteSet({Number[p] : p \in PR})
  <2>1. PICK S : S = Range(Number)
    OBVIOUS
  <2>2. Number \in Surjection(PR, S)
    BY <1>1, <2>1, Neo4jAssumption DEF Surjection
  <2> QED
    BY <1>1, <2>1, <2>2, FS_Surjection, Neo4jAssumption
<1> QED
  BY <1>1, <1>2

(* upsert_files in both stores.                                            *)
LEMMA MergeSame ==
  ASSUME NEW paths \in SUBSET Path, NEW added \in [paths -> SUBSET Path],
         NEW deps, NEW deps2, \A f : Get(deps2, f) = IF f \in paths THEN added[f] ELSE Get(deps, f),
         NEW nodes, NEW nodes2, nodes2 = nodes \cup paths \cup UNION Range(added),
         NEW links, NEW links2, links2 = {e \in links : e[1] \notin paths} \cup Edges(added),
         SameEdges(links, nodes, deps)
  PROVE  SameEdges(links2, nodes2, deps2)
<1>1. \A f \in paths : added[f] \subseteq Path /\ added[f] \subseteq nodes2
  BY DEF Range
<1>2. nodes2 \subseteq Path
  BY DEF Range, SameEdges
<1>3. \A f, g : <<f, g>> \in Edges(added) <=> f \in paths /\ g \in added[f]
  BY <1>1 DEF Edges
<1>4. \A f, g : <<f, g>> \in links <=> f \in Path /\ g \in Path /\ g \in Get(deps, f)
  BY DEF SameEdges
<1>5. \A f, g : <<f, g>> \in links2 <=> (f \notin paths /\ <<f, g>> \in links) \/ (f \in paths /\ g \in added[f])
  BY <1>3
<1>6. links2 \subseteq Path \X Path
  BY DEF Edges, SameEdges
<1>7. ASSUME NEW f, NEW g
      PROVE  <<f, g>> \in links2 <=> f \in Path /\ g \in Path /\ g \in Get(deps2, f)
  <2>1. CASE f \in paths
    <3>1. Get(deps2, f) = added[f] /\ f \in Path
      BY <2>1
    <3> QED
      BY <1>1, <1>5, <2>1, <3>1
  <2>2. CASE f \notin paths
    <3>1. Get(deps2, f) = Get(deps, f)
      BY <2>2
    <3> QED
      BY <1>4, <1>5, <2>2, <3>1
  <2> QED
    BY <2>1, <2>2
<1>8. \A f, g : <<f, g>> \in links2 => f \in nodes2 /\ g \in nodes2
  BY <1>1, <1>5 DEF SameEdges
<1> QED
  BY <1>2, <1>6, <1>7, <1>8 DEF SameEdges

LEMMA BeginKeepsAdapters ==
  ASSUME AdaptersInStep, NEW p \in PR, Begin(p)
  PROVE  AdaptersInStep'
<1>1. PICK paths : paths = Touches[p]
  OBVIOUS
<1>2. paths \in SUBSET Path
  BY <1>1, MemoryAssumption
<1>3. PICK added \in [paths -> SUBSET Path] : UpsertFiles(added)
  BY <1>1, MemoryAssumption DEF Begin, BeginReview, UpdateStructure, Facts
<1>4. \A f : Get(dependsOn', f) = IF f \in paths THEN added[f] ELSE Get(dependsOn, f)
  BY <1>2, <1>3, UpsertGets
<1>5. DOMAIN dependsOn' = DOMAIN dependsOn \cup paths /\ \A f \in paths : dependsOn'[f] = added[f]
  BY <1>3 DEF UpsertFiles, Updated
<1>6. added = [f \in paths |-> dependsOn'[f]]
  BY <1>5
<1>7. MergeFiles(added)
  BY <1>1, <1>6 DEF Begin
<1>8. /\ fileNodes' = fileNodes \cup paths \cup UNION Range(added)
      /\ imports' = {e \in imports : e[1] \notin paths} \cup Edges(added)
      /\ fixedIn' = fixedIn
  BY <1>7 DEF MergeFiles
<1>9. SameEdges(imports, fileNodes, dependsOn)'
  <2>1. SameEdges(imports, fileNodes, dependsOn)
    BY DEF AdaptersInStep
  <2>2. PICK deps2, nodes2, links2 : deps2 = dependsOn' /\ nodes2 = fileNodes' /\ links2 = imports'
    OBVIOUS
  <2>3. SameEdges(links2, nodes2, deps2)
    BY <1>2, <1>4, <1>8, <2>1, <2>2, MergeSame
  <2>4. SameEdges(imports', fileNodes', dependsOn')
    BY <2>2, <2>3
  <2> QED
    BY <2>4
<1>10. bugCount' = bugCount /\ lastBug' = lastBug
  BY <1>3 DEF UpsertFiles, history
<1> QED
  BY <1>8, <1>9, <1>10 DEF AdaptersInStep, Count, SameBugs, LastBugIn

LEMMA FinishKeepsAdapters ==
  ASSUME AdaptersInStep, GraphTypeOK, NEW p \in PR, Finish(p)
  PROVE  AdaptersInStep'
<1>1. PICK paths, fix : paths = Touches[p] /\ fix = (p \in Fixes)
  OBVIOUS
<1>2. paths \in SUBSET Path /\ paths # {} /\ fix \in BOOLEAN
  BY <1>1, MemoryAssumption
<1>3. RecordOutcome(p, paths, fix) /\ MergeOutcome(p, paths, fix)
  BY <1>1 DEF Finish, FinishReview
<1>4. PICK n : n = Number[p]
  OBVIOUS
<1>5. n \in Range(Number)
  BY <1>4, Neo4jAssumption DEF Range
<1>6. /\ fileNodes' = fileNodes \cup paths
      /\ imports' = imports
      /\ fixedIn' = [f \in Path |-> IF fix /\ f \in paths THEN [fixedIn[f] EXCEPT ![n] = @ + 1]
                                    ELSE fixedIn[f]]
  BY <1>3, <1>4 DEF MergeOutcome
<1>7. dependsOn' = dependsOn
  BY <1>3 DEF RecordOutcome, structure
<1>8. SameEdges(imports, fileNodes, dependsOn)'
  BY <1>2, <1>6, <1>7 DEF AdaptersInStep, SameEdges
<1>9. CASE ~fix
  <2>1. UNCHANGED <<bugCount, lastBug>>
    BY <1>3, <1>9 DEF RecordOutcome
  <2>2. DOMAIN fixedIn' = Path /\ \A f \in Path : fixedIn'[f] = fixedIn[f]
    BY <1>6, <1>9
  <2>3. LastBugIn(fixedIn, lastBug)'
    BY <2>1, <2>2 DEF AdaptersInStep, LastBugIn, GraphTypeOK
  <2>4. \A f \in Path : SameBugs(fixedIn[f], Count(f))'
    BY <2>1, <2>2 DEF AdaptersInStep, Count, SameBugs
  <2> QED
    BY <1>8, <2>2, <2>3, <2>4 DEF AdaptersInStep
<1>10. CASE fix
  <2>1. RecordBugs(p, paths)
    BY <1>3, <1>10 DEF RecordOutcome
  <2>2. /\ \A f \in Path : Count(f)' = IF f \in paths THEN Count(f) + 1 ELSE Count(f)
        /\ \A f \in DOMAIN lastBug' : lastBug'[f] = IF f \in paths THEN p ELSE lastBug[f]
        /\ DOMAIN lastBug' = DOMAIN lastBug \cup paths
    BY <2>1 DEF RecordBugs, Updated, Count
  <2>3. ASSUME NEW f \in paths PROVE More(Range(Number), fixedIn[f], fixedIn'[f], n, 1)
    <3>1. f \in Path /\ fixedIn[f] \in [Range(Number) -> Nat]
      BY <1>2 DEF AdaptersInStep, SameBugs
    <3>2. fixedIn'[f] = [fixedIn[f] EXCEPT ![n] = @ + 1]
      BY <1>6, <1>10, <3>1
    <3> QED
      BY <1>5, <3>1, <3>2 DEF More
  <2>4. \A f \in Path \ paths : fixedIn'[f] = fixedIn[f]
    BY <1>6
  <2>5. DOMAIN fixedIn' = Path
    BY <1>6
  <2>6. ASSUME NEW f \in Path PROVE SameBugs(fixedIn'[f], Count(f)')
    <3>1. SameBugs(fixedIn[f], Count(f))
      BY DEF AdaptersInStep
    <3>2. CASE f \in paths
      <4>1. SumFunction(fixedIn'[f]) = SumFunction(fixedIn[f]) + 1
        BY <2>3, <3>2, NumbersFinite, SumMore
      <4>2. fixedIn'[f] \in [Range(Number) -> Nat]
        BY <2>3, <3>2 DEF More
      <4> QED
        BY <2>2, <3>1, <3>2, <4>1, <4>2 DEF SameBugs
    <3>3. CASE f \notin paths
      BY <2>2, <2>4, <3>1, <3>3 DEF SameBugs
    <3> QED
      BY <3>2, <3>3
  <2>7. LastBugIn(fixedIn', lastBug')
    <3> SUFFICES ASSUME NEW f \in DOMAIN lastBug' PROVE fixedIn'[f][Number[lastBug'[f]]] > 0
      BY DEF LastBugIn
    <3>1. CASE f \in paths
      <4>1. lastBug'[f] = p
        BY <2>2, <3>1
      <4>2. fixedIn'[f][n] = fixedIn[f][n] + 1 /\ fixedIn[f][n] \in Nat
        BY <2>3, <3>1 DEF More
      <4> QED
        BY <1>4, <4>1, <4>2
    <3>2. CASE f \notin paths
      <4>1. f \in DOMAIN lastBug /\ lastBug'[f] = lastBug[f] /\ f \in Path
        BY <2>2, <3>2 DEF GraphTypeOK
      <4>2. fixedIn'[f] = fixedIn[f]
        BY <2>4, <3>2, <4>1
      <4>3. fixedIn[f][Number[lastBug[f]]] > 0
        BY <4>1 DEF AdaptersInStep, LastBugIn
      <4> QED
        BY <4>1, <4>2, <4>3
    <3> QED
      BY <3>1, <3>2
  <2> QED
    BY <1>8, <2>5, <2>6, <2>7 DEF AdaptersInStep
<1> QED
  BY <1>2, <1>9, <1>10

LEMMA InStepHolds == StoresSpec => []AdaptersInStep
<1>1. StoresInit => AdaptersInStep
  <2> SUFFICES ASSUME StoresInit PROVE AdaptersInStep
    OBVIOUS
  <2>1. /\ fileNodes = {} /\ imports = {} /\ fixedIn = [f \in Path |-> [n \in Range(Number) |-> 0]]
        /\ dependsOn = EmptyDict /\ bugCount = EmptyDict /\ lastBug = EmptyDict
    BY DEF StoresInit, MemoryInit, GraphInit, Neo4jInit
  <2>2. SameEdges(imports, fileNodes, dependsOn)
    BY <2>1 DEF SameEdges, EmptyDict, Get
  <2>3. ASSUME NEW f \in Path PROVE SameBugs(fixedIn[f], Count(f))
    <3>1. fixedIn[f] = [n \in Range(Number) |-> 0]
      BY <2>1
    <3>2. SumFunction(fixedIn[f]) = 0
      BY <3>1, NumbersFinite, SumZero
    <3>3. Count(f) = 0
      BY <2>1 DEF Count, EmptyDict
    <3> QED
      BY <3>1, <3>2, <3>3 DEF SameBugs
  <2>4. LastBugIn(fixedIn, lastBug)
    BY <2>1 DEF LastBugIn, EmptyDict
  <2> QED
    BY <2>1, <2>2, <2>3, <2>4 DEF AdaptersInStep
<1>2. AdaptersInStep /\ GraphTypeOK /\ [StoresNext]_storesVars => AdaptersInStep'
  <2> SUFFICES ASSUME AdaptersInStep, GraphTypeOK, [StoresNext]_storesVars PROVE AdaptersInStep'
    OBVIOUS
  <2>1. ASSUME UNCHANGED <<graphVars, neo4jVars>> PROVE AdaptersInStep'
    <3>1. UNCHANGED <<dependsOn, bugCount, lastBug, imports, fileNodes, fixedIn>>
      BY <2>1 DEF graphVars, structure, history, neo4jVars
    <3> QED
      BY <3>1 DEF AdaptersInStep, Count
  <2>2. ASSUME NEW p \in PR, Begin(p) PROVE AdaptersInStep'
    BY <2>2, BeginKeepsAdapters
  <2>3. ASSUME NEW p \in PR, Finish(p) PROVE AdaptersInStep'
    BY <2>3, FinishKeepsAdapters
  <2>4. ASSUME NEW p \in PR, Lose(p) PROVE AdaptersInStep'
    BY <2>1, <2>4 DEF Lose, LoseReview
  <2>5. ASSUME NEW n \in Elsewhere, FinishElsewhere(n) PROVE AdaptersInStep'
    BY <2>1, <2>5 DEF FinishElsewhere, memoryVars
  <2>6. UNCHANGED storesVars => AdaptersInStep'
    BY <2>1 DEF storesVars, memoryVars
  <2> QED
    BY <2>2, <2>3, <2>4, <2>5, <2>6 DEF StoresNext
<1> QED
  BY <1>1, <1>2, StoresUseMemory, MemoryUsesGraph, GraphTypes, PTL DEF StoresSpec

(* Reaching along the relationships is reaching along the imports.         *)
LEMMA LinksReach ==
  ASSUME NEW links, NEW nodes, NEW deps, InPath(deps), DOMAIN deps \subseteq Path,
         SameEdges(links, nodes, deps), NEW other,
         other = [f \in nodes |-> {g \in nodes : <<f, g>> \in links}]
  PROVE  \A f, g : Reaches(other, f, g) <=> Reaches(deps, f, g)
<1>1. ASSUME NEW f PROVE Get(other, f) = Get(deps, f)
  <2>1. \A g \in Get(deps, f) : <<f, g>> \in links /\ f \in nodes /\ g \in nodes
    BY DEF SameEdges, InPath, Get
  <2>2. CASE f \in nodes
    <3>1. Get(other, f) = {g \in nodes : <<f, g>> \in links}
      BY <2>2 DEF Get
    <3>2. \A g \in nodes : <<f, g>> \in links => g \in Get(deps, f)
      BY DEF SameEdges
    <3> QED
      BY <2>1, <3>1, <3>2
  <2>3. CASE f \notin nodes
    <3>1. Get(other, f) = {}
      BY <2>3 DEF Get
    <3> QED
      BY <2>1, <2>3, <3>1
  <2> QED
    BY <2>2, <2>3
<1> QED
  BY <1>1 DEF Reaches

(* Both ends of a path of imports are nodes.                               *)
LEMMA EndsAreNodes ==
  ASSUME NEW links, NEW nodes, NEW deps, InPath(deps), SameEdges(links, nodes, deps),
         NEW f \in Path, NEW g \in Path, f # g, Reaches(deps, f, g)
  PROVE  f \in nodes /\ g \in nodes
<1>1. \A h \in Path : \A x \in Get(deps, h) : h \in nodes /\ x \in nodes
  BY DEF SameEdges, InPath
<1>2. f \in nodes
  <2>1. \A h : Get(deps, h) \subseteq Path
    BY DEF InPath
  <2>2. PICK h \in Get(deps, f) : Reaches(deps, h, g)
    BY <2>1, ReachVia
  <2> QED
    BY <1>1, <2>2
<1>3. g \in nodes
  <2> SUFFICES ASSUME g \notin nodes PROVE FALSE
    OBVIOUS
  <2>1. PICK S : S = Path \ {g}
    OBVIOUS
  <2>2. ClosedUnder(deps, S)
    BY <1>1, <2>1 DEF ClosedUnder, InPath
  <2>3. g \in S
    BY <2>1, <2>2, ReachStays
  <2> QED
    BY <2>1, <2>3
<1> QED
  BY <1>2, <1>3

LEMMA DependentsMatch ==
  ASSUME AdaptersInStep, GraphTypeOK, ReverseIndexAgrees, NEW paths \in SUBSET Path
  PROVE  MatchedDependents(paths) = BlastRadius(dependents, paths)
<1>1. InPath(dependsOn) /\ InPath(dependents) /\ Mirrors(dependsOn, dependents)
  BY TypedInPath DEF ReverseIndexAgrees, Mirrors
<1>2. BlastRadius(dependents, paths) = Dependents(dependsOn, paths)
  BY <1>1, BlastRadiusOf
<1>3. SameEdges(imports, fileNodes, dependsOn) /\ DOMAIN dependsOn \subseteq Path /\ fileNodes \subseteq Path
  BY DEF AdaptersInStep, SameEdges, GraphTypeOK, IsIndex
<1>4. \A f, g : Reaches(Imported, f, g) <=> Reaches(dependsOn, f, g)
  <2>1. PICK other : other = Imported
    OBVIOUS
  <2>2. other = [f \in fileNodes |-> {g \in fileNodes : <<f, g>> \in imports}]
    BY <2>1 DEF Imported
  <2>3. \A f, g : Reaches(other, f, g) <=> Reaches(dependsOn, f, g)
    BY <1>1, <1>3, <2>2, LinksReach
  <2> QED
    BY <2>1, <2>3
<1>5. \A f \in Path \ paths : \A p \in paths : Reaches(dependsOn, f, p) => f \in fileNodes /\ p \in fileNodes
  <2> SUFFICES ASSUME NEW f \in Path \ paths, NEW p \in paths, Reaches(dependsOn, f, p)
               PROVE  f \in fileNodes /\ p \in fileNodes
    OBVIOUS
  <2>1. f \in Path /\ p \in Path /\ f # p
    OBVIOUS
  <2> QED
    BY <1>1, <1>3, <2>1, EndsAreNodes
<1>6. MatchedDependents(paths) = Dependents(dependsOn, paths)
  BY <1>3, <1>4, <1>5 DEF MatchedDependents, Dependents
<1> QED
  BY <1>2, <1>6

(* A file of a cycle of several imports another one of it.                 *)
LEMMA NextInCycle ==
  ASSUME NEW d, InPath(d), NEW f \in Path, NEW g \in CycleOf(d, f), g # f
  PROVE  \E h \in CycleOf(d, f) : h # f /\ h \in Get(d, f)
<1>1. g \in Path /\ Reaches(d, f, g) /\ Reaches(d, g, f)
  BY DEF CycleOf
<1>2. PICK S : S = {f} \cup {x \in Path : ~Reaches(d, x, g)}
  OBVIOUS
<1>3. g \notin S
  BY <1>2, ReachSelf
<1>4. ~ClosedUnder(d, S)
  BY <1>1, <1>2, <1>3, ReachStays
<1>5. PICK x \in S : \E h \in Get(d, x) : h \notin S
  BY <1>2, <1>4 DEF ClosedUnder
<1>6. PICK h \in Get(d, x) : h \notin S
  BY <1>5
<1>7. h \in Path /\ h # f /\ Reaches(d, h, g)
  BY <1>2, <1>6 DEF InPath
<1>8. x = f
  BY <1>2, <1>6, <1>7, ReachStep
<1>9. Reaches(d, f, h) /\ Reaches(d, h, f)
  BY <1>1, <1>6, <1>7, <1>8, ReachImport, ReachTrans
<1> QED
  BY <1>6, <1>7, <1>8, <1>9 DEF CycleOf

(* What a pair of Neo4j's cycles is.                                       *)
Matched(a, b) ==
  /\ <<a, b>> \in imports /\ Spelling[a] < Spelling[b]
  /\ <<b, a>> \in imports \/ \E c \in Path : <<b, c>> \in imports /\ <<c, a>> \in imports

LEMMA MatchedAre ==
  ASSUME imports \subseteq Path \X Path
  PROVE  MatchedCycles = {{e[1], e[2]} : e \in {x \in Path \X Path : Matched(x[1], x[2])}}
<1> DEFINE Back(a, b) ==
      /\ Spelling[a] < Spelling[b]
      /\ <<b, a>> \in imports \/ \E c \in Path : {<<b, c>>, <<c, a>>} \subseteq imports
<1> HIDE DEF Back
<1>1. PICK D : D = {d \in imports : Back(d[1], d[2])}
  OBVIOUS
<1>2. ASSUME NEW a, NEW b PROVE <<a, b>> \in D <=> <<a, b>> \in imports /\ Matched(a, b)
  <2>1. PICK e : e = <<a, b>>
    OBVIOUS
  <2>2. e[1] = a /\ e[2] = b
    BY <2>1
  <2>3. e \in D <=> e \in imports /\ Back(e[1], e[2])
    BY <1>1
  <2>4. e \in imports => (Back(a, b) <=> Matched(a, b))
    BY <2>1 DEF Back, Matched
  <2> QED
    BY <2>1, <2>2, <2>3, <2>4
<1>3. D \subseteq Path \X Path
  BY <1>1
<1>4. \A a, b : Matched(a, b) => <<a, b>> \in imports
  BY DEF Matched
<1>5. D = {x \in Path \X Path : Matched(x[1], x[2])}
  <2>1. ASSUME NEW a \in Path, NEW b \in Path
        PROVE  <<a, b>> \in D <=> <<a, b>> \in {x \in Path \X Path : Matched(x[1], x[2])}
    BY <1>2, <1>4
  <2> QED
    BY <1>3, <2>1
<1>6. MatchedCycles = {{e[1], e[2]} : e \in D}
  BY <1>1 DEF Back, MatchedCycles
<1> QED
  BY <1>5, <1>6

(* Every pair lies in a cycle.                                             *)
LEMMA PairInCycle ==
  ASSUME AdaptersInStep, GraphTypeOK, NEW a \in Path, NEW b \in Path, Matched(a, b)
  PROVE  Cyclic(dependsOn, a) /\ {a, b} \subseteq CycleOf(dependsOn, a)
<1>1. \A f, g : <<f, g>> \in imports => g \in Get(dependsOn, f)
  BY DEF AdaptersInStep, SameEdges
<1>2. \A f, g : <<f, g>> \in imports => Reaches(dependsOn, f, g)
  BY <1>1, ReachImport
<1>3. b \in Get(dependsOn, a) /\ Reaches(dependsOn, a, b)
  BY <1>1, <1>2 DEF Matched
<1>4. Reaches(dependsOn, b, a)
  BY <1>2, ReachTrans DEF Matched
<1>5. Reaches(dependsOn, a, a)
  BY ReachSelf
<1> QED
  BY <1>3, <1>4, <1>5 DEF Cyclic, CycleOf

(* The members of a small set.                                             *)
LEMMA TwoOrThree ==
  ASSUME NEW C, IsFiniteSet(C), Cardinality(C) \in 2..3, NEW a \in C
  PROVE  \E b, c \in C : b # a /\ C = {a, b, c}
<1>1. Cardinality(C \ {a}) = Cardinality(C) - 1 /\ IsFiniteSet(C \ {a}) /\ Cardinality(C) \in Nat
  BY FS_RemoveElement, FS_CardinalityType
<1>2. PICK D : D = C \ {a}
  OBVIOUS
<1>3. D # {}
  <2>1. Cardinality(D) # 0
    BY <1>1, <1>2
  <2> QED
    BY <2>1, FS_EmptySet
<1>4. PICK b : b \in D
  BY <1>3
<1>5. Cardinality(D \ {b}) = Cardinality(D) - 1 /\ IsFiniteSet(D \ {b})
  BY <1>1, <1>2, <1>4, FS_RemoveElement
<1>6. PICK E : E = D \ {b}
  OBVIOUS
<1>7. Cardinality(E) \in 0..1 /\ IsFiniteSet(E)
  BY <1>1, <1>2, <1>5, <1>6
<1>8. CASE E = {}
  BY <1>2, <1>4, <1>6, <1>8
<1>9. CASE E # {}
  <2>1. PICK c : c \in E
    BY <1>9
  <2>2. Cardinality(E \ {c}) = Cardinality(E) - 1 /\ IsFiniteSet(E \ {c})
    BY <1>7, <2>1, FS_RemoveElement
  <2>3. Cardinality(E \ {c}) \in Nat
    BY <2>2, FS_CardinalityType
  <2>4. Cardinality(E \ {c}) = 0
    BY <1>7, <2>2, <2>3
  <2>5. E \ {c} = {}
    BY <2>2, <2>4, FS_EmptySet
  <2> QED
    BY <1>2, <1>4, <1>6, <2>1, <2>5
<1> QED
  BY <1>8, <1>9

(* A set of two or three files that each import another of them holds two  *)
(* that import each other or is a circle.                                  *)
LEMMA CircleExists ==
  ASSUME NEW C, C \subseteq Path, NEW a \in C, NEW b \in C, NEW c \in C, b # a, C = {a, b, c},
         \A x \in C : \E y \in C : y # x /\ <<x, y>> \in imports
  PROVE  \E x, y \in C : /\ x # y /\ <<x, y>> \in imports
                         /\ <<y, x>> \in imports
                              \/ \E z \in C : <<y, z>> \in imports /\ <<z, x>> \in imports /\ z # x /\ z # y
<1>1. PICK u \in C : u # a /\ <<a, u>> \in imports
  OBVIOUS
<1>2. PICK v \in C : v # u /\ <<u, v>> \in imports
  OBVIOUS
<1>3. PICK w \in C : w # v /\ <<v, w>> \in imports
  OBVIOUS
<1>4. CASE v = a
  BY <1>1, <1>2, <1>4
<1>5. CASE v # a
  <2>1. w = a \/ w = u
    BY <1>1, <1>2, <1>3, <1>5
  <2> QED
    BY <1>1, <1>2, <1>3, <1>5, <2>1
<1> QED
  BY <1>4, <1>5

(* Every cycle of two or three files has a pair.                           *)
LEMMA CycleHasPair ==
  ASSUME AdaptersInStep, GraphTypeOK, NEW f \in Path,
         Cardinality(CycleOf(dependsOn, f)) \in 2..3
  PROVE  \E x, y \in Path : Matched(x, y) /\ {x, y} \subseteq CycleOf(dependsOn, f)
<1>1. PICK C : C = CycleOf(dependsOn, f)
  OBVIOUS
<1>2. C \subseteq Path /\ IsFiniteSet(C) /\ f \in C
  <2>1. C \subseteq Path /\ f \in C
    BY <1>1, CycleOfSelf DEF CycleOf
  <2> QED
    BY <2>1, QueriesAssumption, FS_Subset
<1>3. PICK b, c \in C : b # f /\ C = {f, b, c}
  <2>1. IsFiniteSet(C) /\ Cardinality(C) \in 2..3 /\ f \in C
    BY <1>1, <1>2
  <2> QED
    BY <2>1, TwoOrThree
<1>4. InPath(dependsOn)
  BY TypedInPath
<1>5. ASSUME NEW x \in C PROVE \E y \in C : y # x /\ <<x, y>> \in imports
  <2>1. x \in CycleOf(dependsOn, f)
    BY <1>1
  <2>2. CycleOf(dependsOn, x) = C
    BY <1>1, <2>1, CyclesMeet
  <2>3. \E g \in C : g # x
    BY <1>2, <1>3
  <2>4. x \in Path
    BY <1>2
  <2>5. PICK y \in C : y # x /\ y \in Get(dependsOn, x)
    BY <1>4, <2>2, <2>3, <2>4, NextInCycle
  <2>6. y \in Path
    BY <1>2
  <2> QED
    BY <2>4, <2>5, <2>6 DEF AdaptersInStep, SameEdges
<1>6. PICK x, y \in C : /\ x # y /\ <<x, y>> \in imports
                        /\ <<y, x>> \in imports
                             \/ \E z \in C : <<y, z>> \in imports /\ <<z, x>> \in imports /\ z # x /\ z # y
  BY <1>2, <1>3, <1>5, CircleExists
<1>7. \A p, q \in Path : p # q => Spelling[p] < Spelling[q] \/ Spelling[q] < Spelling[p]
  <2>1. \A p \in Path : Spelling[p] \in Nat
    BY Neo4jAssumption
  <2> QED
    BY <2>1, Neo4jAssumption
<1>8. CASE <<y, x>> \in imports
  <2>1. Matched(x, y) \/ Matched(y, x)
    BY <1>2, <1>6, <1>7, <1>8 DEF Matched
  <2> QED
    BY <1>1, <1>2, <2>1
<1>9. CASE \E z \in C : <<y, z>> \in imports /\ <<z, x>> \in imports /\ z # x /\ z # y
  <2>1. PICK z \in C : <<y, z>> \in imports /\ <<z, x>> \in imports
    BY <1>9
  <2>2. x \in Path /\ y \in Path /\ z \in Path
    BY <1>2
  <2>3. Spelling[x] \in Nat /\ Spelling[y] \in Nat /\ Spelling[z] \in Nat /\ Spelling[x] # Spelling[y]
    BY <1>6, <2>2, Neo4jAssumption
  <2>4. Spelling[x] < Spelling[y] \/ Spelling[y] < Spelling[z] \/ Spelling[z] < Spelling[x]
    BY <2>3
  <2>5. Matched(x, y) \/ Matched(y, z) \/ Matched(z, x)
    BY <1>6, <2>1, <2>2, <2>4 DEF Matched
  <2> QED
    BY <1>1, <2>1, <2>2, <2>5
<1> QED
  BY <1>6, <1>8, <1>9

(* The production store and the one that the tests run on answer a review  *)
(* alike, but for the cycles, where every pair of the one lies in a cycle  *)
(* of the other and every cycle of two or three files has a pair, after    *)
(* every sequence of reviews (neo4j_store.py:22-116, inmemory.py:25-119).  *)
THEOREM AdaptersHold == StoresSpec => []AdaptersAgree
<1>1. AdaptersInStep /\ GraphTypeOK /\ ReverseIndexAgrees => AdaptersAgree
  <2> SUFFICES ASSUME AdaptersInStep, GraphTypeOK, ReverseIndexAgrees PROVE AdaptersAgree
    OBVIOUS
  <2>1. ASSUME NEW p \in PR PROVE MatchedDependents(Touches[p]) = BlastRadius(dependents, Touches[p])
    <3>1. PICK paths : paths = Touches[p]
      OBVIOUS
    <3>2. paths \in SUBSET Path
      BY <3>1, MemoryAssumption
    <3> QED
      BY <3>1, <3>2, DependentsMatch
  <2>2. \A f \in Path : MatchedBugs(f) = Count(f)
    BY DEF AdaptersInStep, SameBugs, MatchedBugs
  <2>3. ASSUME NEW f \in DOMAIN lastBug PROVE Number[lastBug[f]] \in MatchedPRs(f)
    <3>1. f \in Path /\ Number[lastBug[f]] \in Range(Number)
      BY Neo4jAssumption DEF GraphTypeOK, Range
    <3>2. DOMAIN fixedIn[f] = Range(Number)
      BY <3>1 DEF AdaptersInStep, SameBugs
    <3> QED
      BY <3>1, <3>2 DEF AdaptersInStep, LastBugIn, MatchedPRs
  <2>4. PICK cycles : cycles = FindCycles(dependsOn)
    OBVIOUS
  <2>5. cycles = {CycleOf(dependsOn, f) : f \in {h \in Path : Cyclic(dependsOn, h)}}
    <3>1. InPath(dependsOn) /\ DOMAIN dependsOn \subseteq Path
      BY TypedInPath DEF GraphTypeOK, IsIndex
    <3> QED
      BY <2>4, <3>1, FindCyclesOf
  <2>6. MatchedCycles = {{e[1], e[2]} : e \in {x \in Path \X Path : Matched(x[1], x[2])}}
    BY MatchedAre DEF AdaptersInStep, SameEdges
  <2>7. ASSUME NEW pair \in MatchedCycles PROVE \E c \in cycles : pair \subseteq c
    <3>1. PICK e \in Path \X Path : Matched(e[1], e[2]) /\ pair = {e[1], e[2]}
      BY <2>6
    <3>2. PICK a, b \in Path : Matched(a, b) /\ pair = {a, b}
      BY <3>1
    <3>3. Cyclic(dependsOn, a) /\ pair \subseteq CycleOf(dependsOn, a)
      BY <3>2, PairInCycle
    <3> QED
      BY <2>5, <3>3
  <2>8. ASSUME NEW c \in cycles, Cardinality(c) \in 2..3 PROVE \E pair \in MatchedCycles : pair \subseteq c
    <3>1. PICK f \in Path : c = CycleOf(dependsOn, f)
      BY <2>5
    <3>2. PICK x, y \in Path : Matched(x, y) /\ {x, y} \subseteq c
      BY <2>8, <3>1, CycleHasPair
    <3>3. <<x, y>> \in {e \in Path \X Path : Matched(e[1], e[2])}
      BY <3>2
    <3>4. {x, y} \in MatchedCycles
      BY <2>6, <3>3
    <3> QED
      BY <3>2, <3>4
  <2> QED
    BY <2>1, <2>2, <2>3, <2>4, <2>7, <2>8 DEF AdaptersAgree
<1> QED
  BY <1>1, InStepHolds, StoresUseMemory, MemoryUsesGraph, GraphTypes, ReverseIndexHolds, PTL
=============================================================================
