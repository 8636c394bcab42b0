------------------------------ MODULE SumFacts ------------------------------
(***************************************************************************)
(* What the proofs share: a set of naturals has a least element, so what   *)
(* fails of a finite thing fails at a smallest one; and sums (SumFunction  *)
(* of Functions) do not depend on the order in which they are taken, nor   *)
(* on groups; the places of the members in an order are all taken; and of  *)
(* weighed members the heaviest can be taken.                              *)
(***************************************************************************)
EXTENDS Integers, FiniteSets, Functions, FiniteSetTheorems, WellFoundedInduction, TLAPS

Below == {p \in Nat \X Nat : p[1] < p[2]}

LEMMA LeastExists ==
  ASSUME NEW T, T \subseteq Nat, T # {}
  PROVE  \E m \in T : \A n \in T : m <= n
<1>1. IsWellFoundedOn(Below, Nat)
  <2>1. Below = OpToRel(<, Nat)
    BY DEF Below, OpToRel
  <2> QED
    BY NatLessThanWellFounded, <2>1
<1>2. PICK m \in T : \A n \in T : ~(<<n, m>> \in Below)
  BY <1>1, WFMin
<1>3. \A n \in T : ~(n < m)
  BY <1>2 DEF Below
<1> QED
  BY <1>3

(* Of the finite sets with a property, one is smallest.                    *)
LEMMA SmallestExists ==
  ASSUME NEW T, T # {}, \A s \in T : IsFiniteSet(s)
  PROVE  \E s \in T : \A t \in T : Cardinality(s) <= Cardinality(t)
<1>1. PICK C : C = {Cardinality(s) : s \in T}
  OBVIOUS
<1>2. C \subseteq Nat /\ C # {}
  BY <1>1, FS_CardinalityType
<1>3. PICK m \in C : \A n \in C : m <= n
  BY <1>2, LeastExists
<1> QED
  BY <1>1, <1>3

-----------------------------------------------------------------------------
(* Sums.  g holds the sums of f over the subsets of S with at most n       *)
(* members.                                                                *)

Small(S, n) == {s \in SUBSET S : Cardinality(s) <= n}

Chosen(s) == CHOOSE x \in s : TRUE

SumsUpTo(f, S, n, g) ==
  g = [s \in Small(S, n) |-> IF s = {} THEN 0 ELSE f[Chosen(s)] + g[s \ {Chosen(s)}]]

LEMMA WithoutOne ==
  ASSUME NEW S, IsFiniteSet(S), NEW s \in SUBSET S, NEW x \in s
  PROVE  /\ s \ {x} \in SUBSET S /\ IsFiniteSet(s) /\ IsFiniteSet(s \ {x})
         /\ Cardinality(s) \in Nat /\ Cardinality(s \ {x}) = Cardinality(s) - 1
         /\ Cardinality(s \ {x}) \in Nat
<1>1. IsFiniteSet(s)
  BY FS_Subset
<1> QED
  BY <1>1, FS_CardinalityType, FS_RemoveElement

LEMMA SumsGrow ==
  ASSUME NEW f, NEW S, IsFiniteSet(S), NEW n \in Nat, NEW g, SumsUpTo(f, S, n, g)
  PROVE  \E h : SumsUpTo(f, S, n + 1, h)
<1> DEFINE h == [s \in Small(S, n + 1) |->
                   IF s \in Small(S, n) THEN g[s] ELSE f[Chosen(s)] + g[s \ {Chosen(s)}]]
<1>1. ASSUME NEW s \in Small(S, n + 1), s # {}
      PROVE  Chosen(s) \in s /\ s \ {Chosen(s)} \in Small(S, n)
               /\ s \ {Chosen(s)} \in Small(S, n + 1)
  <2>1. Chosen(s) \in s
    BY <1>1 DEF Chosen
  <2>2. s \in SUBSET S /\ Cardinality(s) <= n + 1
    BY DEF Small
  <2> QED
    BY <2>1, <2>2, WithoutOne DEF Small
<1>2. {} \in Small(S, n)
  BY FS_EmptySet DEF Small
<1>3. \A s \in Small(S, n + 1) :
        h[s] = IF s = {} THEN 0 ELSE f[Chosen(s)] + h[s \ {Chosen(s)}]
  <2> SUFFICES ASSUME NEW s \in Small(S, n + 1)
               PROVE  h[s] = IF s = {} THEN 0 ELSE f[Chosen(s)] + h[s \ {Chosen(s)}]
    OBVIOUS
  <2>1. CASE s = {}
    BY <1>2, <2>1 DEF SumsUpTo
  <2>2. CASE s # {}
    <3>1. h[s \ {Chosen(s)}] = g[s \ {Chosen(s)}]
      BY <1>1, <2>2
    <3>2. CASE s \in Small(S, n)
      <4>1. g[s] = f[Chosen(s)] + g[s \ {Chosen(s)}]
        BY <2>2, <3>2 DEF SumsUpTo
      <4> QED
        BY <2>2, <3>1, <3>2, <4>1
    <3> QED
      BY <2>2, <3>1, <3>2
  <2> QED
    BY <2>1, <2>2
<1>4. h = [s \in Small(S, n + 1) |-> h[s]]
  OBVIOUS
<1> HIDE DEF h
<1>5. SumsUpTo(f, S, n + 1, h)
  BY <1>3, <1>4 DEF SumsUpTo
<1> QED
  BY <1>5

LEMMA SumsExist ==
  ASSUME NEW f, NEW S, IsFiniteSet(S), NEW n \in Nat
  PROVE  \E g : SumsUpTo(f, S, n, g)
<1>1. SUFFICES ASSUME NEW T, T = {m \in Nat : ~\E g : SumsUpTo(f, S, m, g)}, T # {}
               PROVE  FALSE
  BY <1>1
<1>2. PICK m \in T : \A k \in T : m <= k
  BY <1>1, LeastExists
<1>3. m \in Nat
  BY <1>1
<1>4. m # 0
  <2>1. ASSUME NEW s \in Small(S, 0) PROVE s = {}
    <3>1. IsFiniteSet(s) /\ Cardinality(s) <= 0
      BY FS_Subset DEF Small
    <3> QED
      BY <3>1, FS_CardinalityType, FS_EmptySet
  <2>2. PICK g : g = [s \in Small(S, 0) |-> 0]
    OBVIOUS
  <2>3. SumsUpTo(f, S, 0, g)
    BY <2>1, <2>2 DEF SumsUpTo
  <2> QED
    BY <1>1, <2>3
<1>5. m - 1 \in Nat /\ m - 1 \notin T /\ (m - 1) + 1 = m
  BY <1>2, <1>3, <1>4
<1>6. PICK g : SumsUpTo(f, S, m - 1, g)
  BY <1>1, <1>5
<1>7. \E h : SumsUpTo(f, S, m, h)
  BY <1>5, <1>6, SumsGrow
<1> QED
  BY <1>1, <1>7

(* What SumFunction computes: sums that split off any member.              *)
Sums(f, S, g) ==
  /\ g[{}] = 0
  /\ \A s \in SUBSET S : g[s] \in Nat
  /\ \A s \in SUBSET S : \A y \in s : g[s] = f[y] + g[s \ {y}]

LEMMA SumIs ==
  ASSUME NEW S, IsFiniteSet(S), NEW f \in [S -> Nat]
  PROVE  \E g : Sums(f, S, g) /\ SumFunction(f) = g[S]
<1>1. Cardinality(S) \in Nat /\ Small(S, Cardinality(S)) = SUBSET S
  BY FS_CardinalityType, FS_Subset DEF Small
<1>2. PICK h : SumsUpTo(f, S, Cardinality(S), h)
  BY <1>1, SumsExist
<1> DEFINE G == CHOOSE g : g = [s \in SUBSET S |->
                  IF s = {} THEN 0 ELSE LET x == CHOOSE x \in s : TRUE IN f[x] + g[s \ {x}]]
<1>3. h = [s \in SUBSET S |->
             IF s = {} THEN 0 ELSE LET x == CHOOSE x \in s : TRUE IN f[x] + h[s \ {x}]]
  BY <1>1, <1>2 DEF SumsUpTo, Chosen
<1>4. G = [s \in SUBSET S |->
             IF s = {} THEN 0 ELSE LET x == CHOOSE x \in s : TRUE IN f[x] + G[s \ {x}]]
  BY <1>3
<1>5. SumFunction(f) = G[S]
  <2>1. DOMAIN f = S
    OBVIOUS
  <2> QED
    BY <2>1 DEF SumFunction, SumFunctionOnSet, FoldFunctionOnSet, MapThenFoldSet
<1>6. PICK g : g = G
  OBVIOUS
<1> HIDE DEF G
<1>7. g[{}] = 0
  BY <1>4, <1>6
<1>8. \A s \in SUBSET S : s # {} => \E x \in s : g[s] = f[x] + g[s \ {x}]
  BY <1>4, <1>6
<1>9. \A s \in SUBSET S : g[s] \in Nat
  <2>0. SUFFICES ASSUME {s \in SUBSET S : g[s] \notin Nat} # {} PROVE FALSE
    OBVIOUS
  <2>1. PICK T : T = {s \in SUBSET S : g[s] \notin Nat} /\ T # {}
    BY <2>0
  <2>2. PICK s \in T : \A t \in T : Cardinality(s) <= Cardinality(t)
    <3>1. \A s \in T : IsFiniteSet(s)
      BY <2>1, FS_Subset
    <3> QED
      BY <2>1, <3>1, SmallestExists
  <2>3. s \in SUBSET S /\ g[s] \notin Nat
    BY <2>1
  <2>4. s # {}
    BY <1>7, <2>3
  <2>5. PICK x \in s : g[s] = f[x] + g[s \ {x}]
    BY <1>8, <2>3, <2>4
  <2>6. s \ {x} \in SUBSET S /\ s \ {x} \notin T
    BY <2>2, <2>3, WithoutOne
  <2>7. g[s \ {x}] \in Nat /\ f[x] \in Nat
    BY <2>1, <2>3, <2>6
  <2> QED
    BY <2>3, <2>5, <2>7
<1>10. \A s \in SUBSET S : \A y \in s : g[s] = f[y] + g[s \ {y}]
  <2>0. SUFFICES ASSUME {s \in SUBSET S : \E y \in s : g[s] # f[y] + g[s \ {y}]} # {}
                 PROVE  FALSE
    OBVIOUS
  <2>1. PICK T : T = {s \in SUBSET S : \E y \in s : g[s] # f[y] + g[s \ {y}]} /\ T # {}
    BY <2>0
  <2>2. PICK s \in T : \A t \in T : Cardinality(s) <= Cardinality(t)
    <3>1. \A s \in T : IsFiniteSet(s)
      BY <2>1, FS_Subset
    <3> QED
      BY <2>1, <3>1, SmallestExists
  <2>3. s \in SUBSET S
    BY <2>1
  <2>4. PICK y \in s : g[s] # f[y] + g[s \ {y}]
    BY <2>1
  <2>5. PICK x \in s : g[s] = f[x] + g[s \ {x}]
    BY <1>8, <2>3, <2>4
  <2>6. x # y
    BY <2>4, <2>5
  <2>7. PICK sx, sy, sxy : sx = s \ {x} /\ sy = s \ {y} /\ sxy = (s \ {x}) \ {y}
    OBVIOUS
  <2>8. sx \notin T /\ sy \notin T /\ sx \in SUBSET S /\ sy \in SUBSET S
    <3>1. /\ sx \in SUBSET S /\ sy \in SUBSET S /\ Cardinality(s) \in Nat
          /\ Cardinality(sx) = Cardinality(s) - 1 /\ Cardinality(sy) = Cardinality(s) - 1
      BY <2>3, <2>7, WithoutOne
    <3> QED
      BY <2>2, <3>1
  <2>9. y \in sx /\ x \in sy /\ sx \ {y} = sxy /\ sy \ {x} = sxy /\ sxy \in SUBSET S
    BY <2>3, <2>6, <2>7
  <2>10. g[sx] = f[y] + g[sxy] /\ g[sy] = f[x] + g[sxy]
    BY <2>1, <2>8, <2>9
  <2>11. f[x] \in Nat /\ f[y] \in Nat /\ g[sxy] \in Nat
    BY <1>9, <2>3, <2>9
  <2>12. g[s] = f[x] + g[sx]
    BY <2>5, <2>7
  <2>13. g[s] = f[y] + g[sy]
    BY <2>10, <2>11, <2>12
  <2> QED
    BY <2>4, <2>7, <2>13
<1>11. Sums(f, S, g)
  BY <1>7, <1>9, <1>10 DEF Sums
<1> QED
  BY <1>5, <1>6, <1>11

(* The sums of a function over subsets depend on its values there only.    *)
LEMMA SumsAgree ==
  ASSUME NEW R, NEW S, IsFiniteSet(S), R \subseteq S, NEW e, NEW f, NEW g, NEW h,
         Sums(e, R, g), Sums(f, S, h), \A x \in R : e[x] = f[x]
  PROVE  \A s \in SUBSET R : g[s] = h[s]
<1>0. SUFFICES ASSUME {s \in SUBSET R : g[s] # h[s]} # {} PROVE FALSE
  OBVIOUS
<1>1. PICK T : T = {s \in SUBSET R : g[s] # h[s]} /\ T # {}
  BY <1>0
<1>2. PICK s \in T : \A t \in T : Cardinality(s) <= Cardinality(t)
  <2>1. \A s \in T : IsFiniteSet(s)
    BY <1>1, FS_Subset
  <2> QED
    BY <1>1, <2>1, SmallestExists
<1>3. s \in SUBSET R /\ s \in SUBSET S /\ g[s] # h[s]
  BY <1>1
<1>4. s # {}
  BY <1>3 DEF Sums
<1>5. PICK x : x \in s
  BY <1>4
<1>6. s \ {x} \in SUBSET R /\ s \ {x} \notin T
  <2>1. Cardinality(s) \in Nat /\ Cardinality(s \ {x}) = Cardinality(s) - 1
    BY <1>3, <1>5, WithoutOne
  <2> QED
    BY <1>2, <1>3, <2>1
<1>7. g[s \ {x}] = h[s \ {x}] /\ e[x] = f[x]
  BY <1>1, <1>3, <1>5, <1>6
<1>8. g[s] = e[x] + g[s \ {x}] /\ h[s] = f[x] + h[s \ {x}]
  BY <1>3, <1>5 DEF Sums
<1> QED
  BY <1>3, <1>7, <1>8

LEMMA SumNat ==
  ASSUME NEW S, IsFiniteSet(S), NEW f \in [S -> Nat]
  PROVE  SumFunction(f) \in Nat
BY SumIs DEF Sums

LEMMA SumEmpty ==
  ASSUME NEW f \in [{} -> Nat]
  PROVE  SumFunction(f) = 0
BY SumIs, FS_EmptySet DEF Sums

(* R is S without x, and e is f there.                                     *)
TakesOut(R, e, S, f, x) == x \in S /\ R = S \ {x} /\ \A y \in R : e[y] = f[y]

(* Any summand can be taken out.                                           *)
LEMMA SumSplit ==
  ASSUME NEW S, IsFiniteSet(S), NEW f \in [S -> Nat], NEW R, NEW e \in [R -> Nat],
         NEW x, TakesOut(R, e, S, f, x)
  PROVE  SumFunction(f) = f[x] + SumFunction(e)
<1>1. x \in S /\ R = S \ {x} /\ \A y \in R : e[y] = f[y]
  BY DEF TakesOut
<1>2. R \subseteq S /\ IsFiniteSet(R)
  BY <1>1, FS_Subset
<1>3. PICK h : Sums(f, S, h) /\ SumFunction(f) = h[S]
  BY SumIs
<1>4. PICK g : Sums(e, R, g) /\ SumFunction(e) = g[R]
  BY <1>2, SumIs
<1>5. g[R] = h[R]
  BY <1>1, <1>2, <1>3, <1>4, SumsAgree
<1>6. h[S] = f[x] + h[R]
  BY <1>1, <1>3 DEF Sums
<1> QED
  BY <1>3, <1>4, <1>5, <1>6

(* Functions with the same values have the same sum.                       *)
LEMMA SumEqual ==
  ASSUME NEW S, IsFiniteSet(S), NEW e \in [S -> Nat], NEW f \in [S -> Nat],
         \A x \in S : e[x] = f[x]
  PROVE  SumFunction(e) = SumFunction(f)
<1>1. e = f
  OBVIOUS
<1> QED
  BY <1>1

(* f is e with m more at k.                                                *)
More(S, e, f, k, m) ==
  /\ k \in S /\ m \in Nat /\ e \in [S -> Nat] /\ f \in [S -> Nat]
  /\ f[k] = e[k] + m /\ \A n \in S \ {k} : f[n] = e[n]

LEMMA SumMore ==
  ASSUME NEW S, IsFiniteSet(S), NEW e, NEW f, NEW k, NEW m, More(S, e, f, k, m)
  PROVE  SumFunction(f) = SumFunction(e) + m
<1>1. /\ k \in S /\ m \in Nat /\ e \in [S -> Nat] /\ f \in [S -> Nat]
      /\ f[k] = e[k] + m /\ \A n \in S \ {k} : f[n] = e[n]
  BY DEF More
<1>2. PICK R : R = S \ {k}
  OBVIOUS
<1>3. PICK rest : rest = [n \in R |-> e[n]]
  OBVIOUS
<1>4. rest \in [R -> Nat]
  BY <1>1, <1>2, <1>3
<1>5. TakesOut(R, rest, S, e, k) /\ TakesOut(R, rest, S, f, k)
  BY <1>1, <1>2, <1>3 DEF TakesOut
<1>6. SumFunction(e) = e[k] + SumFunction(rest)
  BY <1>1, <1>4, <1>5, SumSplit
<1>7. SumFunction(f) = f[k] + SumFunction(rest)
  BY <1>1, <1>4, <1>5, SumSplit
<1>8. SumFunction(rest) \in Nat
  <2>1. IsFiniteSet(R)
    BY <1>2, FS_Subset
  <2> QED
    BY <1>4, <2>1, SumNat
<1>9. e[k] \in Nat
  BY <1>1
<1> QED
  BY <1>1, <1>6, <1>7, <1>8, <1>9

LEMMA SumZero ==
  ASSUME NEW S, IsFiniteSet(S), NEW f, f = [n \in S |-> 0]
  PROVE  SumFunction(f) = 0
<1>1. f \in [S -> Nat] /\ \A n \in S : f[n] = 0
  OBVIOUS
<1>2. PICK g : Sums(f, S, g) /\ SumFunction(f) = g[S]
  BY <1>1, SumIs
<1>3. SUFFICES ASSUME NEW T, T = {s \in SUBSET S : g[s] # 0}, T # {} PROVE FALSE
  BY <1>2
<1>4. PICK s \in T : \A t \in T : Cardinality(s) <= Cardinality(t)
  <2>1. \A s \in T : IsFiniteSet(s)
    BY <1>3, FS_Subset
  <2> QED
    BY <1>3, <2>1, SmallestExists
<1>5. s \in SUBSET S /\ g[s] # 0
  BY <1>3
<1>6. s # {}
  BY <1>2, <1>5 DEF Sums
<1>7. PICK x : x \in s
  BY <1>6
<1>8. Cardinality(s \ {x}) = Cardinality(s) - 1 /\ Cardinality(s) \in Nat
  BY <1>5, <1>7, WithoutOne
<1>9. s \ {x} \notin T
  BY <1>4, <1>8
<1>10. g[s \ {x}] = 0
  BY <1>3, <1>5, <1>9
<1>11. g[s] = f[x] + g[s \ {x}]
  BY <1>2, <1>5, <1>7 DEF Sums
<1> QED
  BY <1>1, <1>5, <1>7, <1>10, <1>11

-----------------------------------------------------------------------------
(* Sums by groups.  c tells the group of a member, K holds the groups.     *)

Part(w, T) == [x \in T |-> w[x]]
InGroup(c, T, k) == {x \in T : c[x] = k}
GroupSums(w, c, T, K) == [k \in K |-> SumFunction(Part(w, InGroup(c, T, k)))]

(* T is R and a member x.                                                  *)
Adds(R, T, x) == x \in T /\ R = T \ {x}

LEMMA PartMore ==
  ASSUME NEW S, IsFiniteSet(S), NEW w \in [S -> Nat], NEW T \in SUBSET S, NEW R, NEW x, Adds(R, T, x)
  PROVE  SumFunction(Part(w, T)) = w[x] + SumFunction(Part(w, R))
<1>1. x \in T /\ R = T \ {x}
  BY DEF Adds
<1>2. PICK e, f : e = Part(w, R) /\ f = Part(w, T)
  OBVIOUS
<1>3. e \in [R -> Nat] /\ f \in [T -> Nat] /\ f[x] = w[x]
  BY <1>1, <1>2 DEF Part
<1>4. TakesOut(R, e, T, f, x)
  BY <1>1, <1>2 DEF TakesOut, Part
<1>5. IsFiniteSet(T)
  BY FS_Subset
<1>6. SumFunction(f) = f[x] + SumFunction(e)
  BY <1>3, <1>4, <1>5, SumSplit
<1> QED
  BY <1>2, <1>3, <1>6

LEMMA PartNat ==
  ASSUME NEW S, IsFiniteSet(S), NEW w \in [S -> Nat], NEW T \in SUBSET S
  PROVE  SumFunction(Part(w, T)) \in Nat
<1>1. IsFiniteSet(T) /\ Part(w, T) \in [T -> Nat]
  BY FS_Subset DEF Part
<1> QED
  BY <1>1, SumNat

LEMMA GroupMore ==
  ASSUME NEW S, IsFiniteSet(S), NEW w \in [S -> Nat], NEW K, NEW c \in [S -> K],
         NEW T \in SUBSET S, NEW R, NEW x, Adds(R, T, x)
  PROVE  More(K, GroupSums(w, c, R, K), GroupSums(w, c, T, K), c[x], w[x])
<1>1. x \in T /\ R = T \ {x} /\ R \in SUBSET S /\ x \in S
  BY DEF Adds
<1>2. PICK e, f : e = GroupSums(w, c, R, K) /\ f = GroupSums(w, c, T, K)
  OBVIOUS
<1>3. /\ e = [k \in K |-> SumFunction(Part(w, InGroup(c, R, k)))]
      /\ f = [k \in K |-> SumFunction(Part(w, InGroup(c, T, k)))]
  BY <1>2 DEF GroupSums
<1>4. \A k \in K : InGroup(c, R, k) \in SUBSET S /\ InGroup(c, T, k) \in SUBSET S
  BY <1>1 DEF InGroup
<1>5. e \in [K -> Nat] /\ f \in [K -> Nat]
  BY <1>3, <1>4, PartNat
<1>6. c[x] \in K /\ w[x] \in Nat
  BY <1>1
<1>7. Adds(InGroup(c, R, c[x]), InGroup(c, T, c[x]), x)
  BY <1>1 DEF Adds, InGroup
<1>8. f[c[x]] = e[c[x]] + w[x]
  <2>1. SumFunction(Part(w, InGroup(c, T, c[x]))) = w[x] + SumFunction(Part(w, InGroup(c, R, c[x])))
    BY <1>4, <1>6, <1>7, PartMore
  <2> QED
    BY <1>3, <1>5, <1>6, <2>1
<1>9. \A k \in K \ {c[x]} : f[k] = e[k]
  <2>1. \A k \in K \ {c[x]} : InGroup(c, T, k) = InGroup(c, R, k)
    BY <1>1 DEF InGroup
  <2> QED
    BY <1>3, <2>1
<1> QED
  BY <1>2, <1>5, <1>6, <1>8, <1>9 DEF More

(* The sums of the groups add up to the sum.                               *)
LEMMA GroupsAddUp ==
  ASSUME NEW S, IsFiniteSet(S), NEW w \in [S -> Nat], NEW K, IsFiniteSet(K), NEW c \in [S -> K]
  PROVE  SumFunction(GroupSums(w, c, S, K)) = SumFunction(Part(w, S))
<1> DEFINE Differ(T) == SumFunction(GroupSums(w, c, T, K)) # SumFunction(Part(w, T))
<1> HIDE DEF Differ
<1>1. SUFFICES ASSUME NEW B, B = {T \in SUBSET S : Differ(T)}, B # {} PROVE FALSE
  <2>1. S \in {T \in SUBSET S : Differ(T)} => FALSE
    BY <1>1
  <2>2. S \in SUBSET S
    OBVIOUS
  <2> QED
    BY <2>1, <2>2 DEF Differ
<1>2. PICK T \in B : \A U \in B : Cardinality(T) <= Cardinality(U)
  <2>1. \A U \in B : IsFiniteSet(U)
    BY <1>1, FS_Subset
  <2> QED
    BY <1>1, <2>1, SmallestExists
<1>3. T \in SUBSET S /\ Differ(T)
  BY <1>1, <1>2
<1>4. T # {}
  <2> SUFFICES ASSUME T = {} PROVE FALSE
    OBVIOUS
  <2>1. Part(w, T) \in [{} -> Nat] /\ \A k \in K : InGroup(c, T, k) = {}
    BY DEF Part, InGroup
  <2>2. SumFunction(Part(w, T)) = 0
    BY <2>1, SumEmpty
  <2>3. GroupSums(w, c, T, K) = [k \in K |-> 0]
    BY <2>1, <2>2 DEF GroupSums
  <2>4. SumFunction(GroupSums(w, c, T, K)) = 0
    BY <2>3, SumZero
  <2> QED
    BY <1>3, <2>2, <2>4 DEF Differ
<1>5. PICK x : x \in T
  BY <1>4
<1>6. PICK R : R = T \ {x}
  OBVIOUS
<1>7. Adds(R, T, x) /\ R \in SUBSET S
  BY <1>3, <1>5, <1>6 DEF Adds
<1>8. ~Differ(R)
  <2>1. Cardinality(R) = Cardinality(T) - 1 /\ Cardinality(T) \in Nat
    BY <1>3, <1>5, <1>6, WithoutOne
  <2>2. R \notin B
    BY <1>2, <2>1
  <2> QED
    BY <1>1, <1>7, <2>2
<1>9. SumFunction(GroupSums(w, c, R, K)) = SumFunction(Part(w, R))
  BY <1>8 DEF Differ
<1>10. SumFunction(Part(w, T)) = w[x] + SumFunction(Part(w, R))
  BY <1>3, <1>7, PartMore
<1>11. SumFunction(GroupSums(w, c, T, K)) = SumFunction(GroupSums(w, c, R, K)) + w[x]
  <2>1. More(K, GroupSums(w, c, R, K), GroupSums(w, c, T, K), c[x], w[x])
    BY <1>3, <1>7, GroupMore
  <2> QED
    BY <2>1, SumMore
<1>12. SumFunction(Part(w, R)) \in Nat /\ w[x] \in Nat
  BY <1>3, <1>5, <1>7, PartNat
<1> QED
  BY <1>3, <1>9, <1>10, <1>11, <1>12 DEF Differ

(* A set counts as many members as there are.                              *)
LEMMA CountIsSum ==
  ASSUME NEW S, IsFiniteSet(S), NEW w, w = [x \in S |-> 1], NEW T \in SUBSET S
  PROVE  SumFunction(Part(w, T)) = Cardinality(T)
<1>1. w \in [S -> Nat] /\ \A x \in S : w[x] = 1
  OBVIOUS
<1> DEFINE Differ(U) == SumFunction(Part(w, U)) # Cardinality(U)
<1> HIDE DEF Differ
<1>2. SUFFICES ASSUME NEW B, B = {U \in SUBSET S : Differ(U)}, B # {} PROVE FALSE
  BY DEF Differ
<1>3. PICK U \in B : \A V \in B : Cardinality(U) <= Cardinality(V)
  <2>1. \A V \in B : IsFiniteSet(V)
    BY <1>2, FS_Subset
  <2> QED
    BY <1>2, <2>1, SmallestExists
<1>4. U \in SUBSET S /\ Differ(U)
  BY <1>2, <1>3
<1>5. U # {}
  <2> SUFFICES ASSUME U = {} PROVE FALSE
    OBVIOUS
  <2>1. Part(w, U) \in [{} -> Nat]
    BY DEF Part
  <2> QED
    BY <1>4, <2>1, SumEmpty, FS_EmptySet DEF Differ
<1>6. PICK x : x \in U
  BY <1>5
<1>7. PICK R : R = U \ {x}
  OBVIOUS
<1>8. Adds(R, U, x) /\ R \in SUBSET S
  BY <1>4, <1>6, <1>7 DEF Adds
<1>9. Cardinality(R) = Cardinality(U) - 1 /\ Cardinality(U) \in Nat
  BY <1>4, <1>6, <1>7, WithoutOne
<1>10. R \notin B
  BY <1>3, <1>9
<1>11. SumFunction(Part(w, R)) = Cardinality(R)
  BY <1>2, <1>8, <1>10 DEF Differ
<1>12. SumFunction(Part(w, U)) = w[x] + SumFunction(Part(w, R))
  BY <1>1, <1>4, <1>8, PartMore
<1>13. w[x] = 1
  BY <1>1, <1>4, <1>6
<1> QED
  BY <1>4, <1>9, <1>11, <1>12, <1>13 DEF Differ

(* And the groups of a set as many together as the set.                    *)
LEMMA GroupsCount ==
  ASSUME NEW S, IsFiniteSet(S), NEW K, IsFiniteSet(K), NEW c \in [S -> K],
         NEW f, f = [k \in K |-> Cardinality(InGroup(c, S, k))]
  PROVE  SumFunction(f) = Cardinality(S)
<1>1. PICK w : w = [x \in S |-> 1]
  OBVIOUS
<1>2. w \in [S -> Nat]
  BY <1>1
<1>3. \A k \in K : InGroup(c, S, k) \in SUBSET S
  BY DEF InGroup
<1>4. \A k \in K : SumFunction(Part(w, InGroup(c, S, k))) = Cardinality(InGroup(c, S, k))
  BY <1>1, <1>3, CountIsSum
<1>5. f = GroupSums(w, c, S, K)
  BY <1>4 DEF GroupSums
<1>6. SumFunction(Part(w, S)) = Cardinality(S)
  BY <1>1, CountIsSum
<1> QED
  BY <1>2, <1>5, <1>6, GroupsAddUp

-----------------------------------------------------------------------------
(* The members of a finite set that an order puts before x tell its place. *)

IsOrder(R, X) ==
  /\ \A x \in X : <<x, x>> \notin R
  /\ \A x, y, z \in X : <<x, y>> \in R /\ <<y, z>> \in R => <<x, z>> \in R
  /\ \A x, y \in X : x # y => <<x, y>> \in R \/ <<y, x>> \in R

Ahead(R, X, x) == {y \in X : <<y, x>> \in R}

LEMMA AheadCounts ==
  ASSUME NEW R, NEW X, IsFiniteSet(X), NEW x \in X, IsOrder(R, X)
  PROVE  /\ Cardinality(Ahead(R, X, x)) \in Nat /\ Cardinality(X) \in Nat
         /\ Cardinality(Ahead(R, X, x)) < Cardinality(X)
<1>1. PICK A : A = Ahead(R, X, x)
  OBVIOUS
<1>2. A \in SUBSET X /\ A # X
  BY <1>1 DEF Ahead, IsOrder
<1>3. Cardinality(A) \in Nat /\ Cardinality(X) \in Nat /\ Cardinality(A) <= Cardinality(X)
      /\ Cardinality(A) # Cardinality(X)
  BY <1>2, FS_Subset, FS_CardinalityType
<1> QED
  BY <1>1, <1>3

LEMMA AheadGrows ==
  ASSUME NEW R, NEW X, IsFiniteSet(X), IsOrder(R, X), NEW x \in X, NEW y \in X, <<x, y>> \in R
  PROVE  Cardinality(Ahead(R, X, x)) < Cardinality(Ahead(R, X, y))
<1>1. PICK A, B : A = Ahead(R, X, x) /\ B = Ahead(R, X, y)
  OBVIOUS
<1>2. A \subseteq B /\ x \in B /\ x \notin A
  BY <1>1 DEF Ahead, IsOrder
<1>3. B \in SUBSET X
  BY <1>1 DEF Ahead
<1>4. IsFiniteSet(B)
  BY <1>3, FS_Subset
<1>5. IsFiniteSet(A) /\ Cardinality(A) <= Cardinality(B) /\ Cardinality(A) # Cardinality(B)
  BY <1>2, <1>4, FS_Subset
<1>6. Cardinality(A) \in Nat /\ Cardinality(B) \in Nat
  BY <1>4, <1>5, FS_CardinalityType
<1> QED
  BY <1>1, <1>5, <1>6

LEMMA PlaceIsOne ==
  ASSUME NEW R, NEW X, IsFiniteSet(X), IsOrder(R, X), NEW x \in X, NEW y \in X,
         Cardinality(Ahead(R, X, x)) = Cardinality(Ahead(R, X, y))
  PROVE  x = y
<1> SUFFICES ASSUME x # y PROVE FALSE
  OBVIOUS
<1>1. <<x, y>> \in R \/ <<y, x>> \in R
  BY DEF IsOrder
<1>2. Cardinality(Ahead(R, X, x)) \in Nat
  BY AheadCounts
<1> QED
  BY <1>1, <1>2, AheadGrows

LEMMA PlacesTaken ==
  ASSUME NEW R, NEW X, IsFiniteSet(X), IsOrder(R, X), NEW i \in 0..(Cardinality(X) - 1)
  PROVE  \E x \in X : Cardinality(Ahead(R, X, x)) = i
<1>1. PICK n : n = Cardinality(X)
  OBVIOUS
<1>2. n \in Nat /\ i \in 0..(n - 1)
  BY <1>1, FS_CardinalityType
<1>3. PICK f : f = [x \in X |-> Cardinality(Ahead(R, X, x))]
  OBVIOUS
<1>4. f \in [X -> 0..(n - 1)]
  <2>1. \A x \in X : f[x] \in 0..(n - 1)
    BY <1>1, <1>2, <1>3, AheadCounts
  <2> QED
    BY <1>3, <2>1
<1>5. f \in Injection(X, 0..(n - 1))
  <2>1. \A x, y \in X : f[x] = f[y] => x = y
    BY <1>3, PlaceIsOne
  <2> QED
    BY <1>4, <2>1 DEF Injection, IsInjective
<1>6. IsFiniteSet(0..(n - 1)) /\ Cardinality(0..(n - 1)) = n
  BY <1>2, FS_Interval
<1>7. f \in Surjection(X, 0..(n - 1))
  BY <1>1, <1>5, <1>6, FS_Injection
<1>8. \E x \in X : f[x] = i
  BY <1>2, <1>7 DEF Surjection
<1> QED
  BY <1>3, <1>8

-----------------------------------------------------------------------------
(* Of a finite set with weights, any number of members can be taken such   *)
(* that none left out weighs more than one taken.                          *)
Heaviest(T, S, w) == T \in SUBSET S /\ \A x \in T, y \in S \ T : w[y] <= w[x]

LEMMA HeaviestOne ==
  ASSUME NEW S, IsFiniteSet(S), NEW w \in [S -> Nat], NEW R \in SUBSET S, R # {}
  PROVE  \E x \in R : \A y \in R : w[y] <= w[x]
<1>1. PICK bars : bars = {b \in Nat : \A y \in R : w[y] <= b}
  OBVIOUS
<1>2. bars # {}
  <2>1. SumFunction(w) \in Nat
    BY SumNat
  <2>2. \A y \in R : w[y] <= SumFunction(w)
    <3> TAKE y \in R
    <3>1. PICK T : T = S \ {y}
      OBVIOUS
    <3>2. PICK e : e = [z \in T |-> w[z]]
      OBVIOUS
    <3>3. e \in [T -> Nat] /\ TakesOut(T, e, S, w, y)
      BY <3>1, <3>2 DEF TakesOut
    <3>4. SumFunction(w) = w[y] + SumFunction(e)
      BY <3>3, SumSplit
    <3>5. SumFunction(e) \in Nat
      BY <3>1, <3>3, SumNat, FS_Subset
    <3> QED
      BY <3>4, <3>5
  <2> QED
    BY <1>1, <2>1, <2>2
<1>3. PICK b \in bars : \A a \in bars : b <= a
  BY <1>1, <1>2, LeastExists
<1>4. b \in Nat /\ \A y \in R : w[y] \in Nat /\ w[y] <= b
  BY <1>1
<1>5. \E x \in R : w[x] = b
  <2> SUFFICES ASSUME \A x \in R : w[x] # b PROVE FALSE
    OBVIOUS
  <2>1. \A x \in R : w[x] <= b - 1
    BY <1>4
  <2>2. b - 1 \in Nat
    BY <1>4, <2>1
  <2>3. b - 1 \in bars
    BY <1>1, <2>1, <2>2
  <2> QED
    BY <1>3, <1>4, <2>3
<1> QED
  BY <1>4, <1>5

LEMMA HeaviestExists ==
  ASSUME NEW S, IsFiniteSet(S), NEW w \in [S -> Nat], NEW n \in Nat, n <= Cardinality(S)
  PROVE  \E T : Heaviest(T, S, w) /\ Cardinality(T) = n
<1>1. PICK missing : missing = {k \in Nat : k <= Cardinality(S) /\ ~\E T : Heaviest(T, S, w) /\ Cardinality(T) = k}
  OBVIOUS
<1>2. SUFFICES ASSUME missing # {} PROVE FALSE
  BY <1>1
<1>3. PICK k \in missing : \A m \in missing : k <= m
  BY <1>1, <1>2, LeastExists
<1>4. k \in Nat /\ k <= Cardinality(S) /\ Cardinality(S) \in Nat
  BY <1>1, FS_CardinalityType
<1>5. k # 0
  <2>1. Heaviest({}, S, w) /\ Cardinality({}) = 0
    BY FS_EmptySet DEF Heaviest
  <2> QED
    BY <1>1, <2>1
<1>6. PICK T : Heaviest(T, S, w) /\ Cardinality(T) = k - 1
  BY <1>1, <1>3, <1>4, <1>5
<1>7. T \in SUBSET S /\ IsFiniteSet(T)
  BY <1>6, FS_Subset DEF Heaviest
<1>8. S \ T # {}
  BY <1>4, <1>6, <1>7
<1>9. PICK x \in S \ T : \A y \in S \ T : w[y] <= w[x]
  BY <1>8, HeaviestOne
<1>10. PICK U : U = T \cup {x}
  OBVIOUS
<1>11. Heaviest(U, S, w)
  BY <1>6, <1>7, <1>9, <1>10 DEF Heaviest
<1>12. Cardinality(U) = k
  <2>1. x \notin T
    BY <1>9
  <2>2. Cardinality(T \cup {x}) = Cardinality(T) + 1
    BY <1>7, <2>1, FS_AddElement
  <2> QED
    BY <1>4, <1>6, <1>10, <2>2
<1>13. ~\E V : Heaviest(V, S, w) /\ Cardinality(V) = k
  BY <1>1, <1>3
<1> QED
  BY <1>11, <1>12, <1>13
=============================================================================
