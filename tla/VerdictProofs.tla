--------------------------- MODULE VerdictProofs ----------------------------
(***************************************************************************)
(* The verdict, for every set of candidate findings, every review length   *)
(* and every history of feedback.  That each issue has a representative is *)
(* an invariant of the growing list, not a fact about lists: one more      *)
(* finding either beats the representative of its issue or leaves it.      *)
(***************************************************************************)
EXTENDS Verdict, SumFacts

HasReps == \A k \in Keys(findings) : \E i \in DOMAIN findings : IsRep(findings, k, i)

VInv == TypeOK /\ HasReps

-----------------------------------------------------------------------------
(* Findings and their order.                                               *)

LEMMA WeightIsNat == \A s \in Severity : SeverityWeight[s] \in Nat
BY DEF Severity, SeverityWeight

LEMMA CandidateIsFinding ==
  \A f \in Candidate :
    SeverityWeight[f.sev] \in Nat /\ f.conf \in Nat /\ f.conf <= 97 /\ f \in Finding
BY VerdictAssumption, WeightIsNat DEF Finding

(* One issue has one representative.                                       *)
LEMMA RepIsUnique ==
  ASSUME NEW fs \in Seq(Candidate), NEW k, NEW i, NEW j, IsRep(fs, k, i), IsRep(fs, k, j)
  PROVE  i = j
<1>1. i \in 1..Len(fs) /\ j \in 1..Len(fs)
  BY DEF IsRep, Group
<1> QED
  BY <1>1 DEF IsRep

LEMMA RepIs ==
  ASSUME NEW fs \in Seq(Candidate), NEW k, NEW i, IsRep(fs, k, i)
  PROVE  Rep(fs, k) = fs[i]
<1> DEFINE c == CHOOSE j \in Group(fs, k) : IsRep(fs, k, j)
<1>1. i \in Group(fs, k)
  BY DEF IsRep
<1>2. IsRep(fs, k, c)
  BY <1>1
<1>3. c = i
  BY <1>2, RepIsUnique
<1> QED
  BY <1>3 DEF Rep

-----------------------------------------------------------------------------
(* One more finding.                                                       *)

LEMMA AppendFinding ==
  ASSUME NEW fs \in Seq(Candidate), NEW f \in Candidate, NEW gs, gs = Append(fs, f)
  PROVE  /\ gs \in Seq(Candidate)
         /\ Len(gs) = Len(fs) + 1 /\ gs[Len(gs)] = f
         /\ \A i \in 1..Len(fs) : gs[i] = fs[i]
         /\ DOMAIN fs = 1..Len(fs) /\ DOMAIN gs = 1..Len(gs) /\ Len(fs) \in Nat
OBVIOUS

LEMMA OtherGroup ==
  ASSUME NEW fs \in Seq(Candidate), NEW f \in Candidate, NEW gs, gs = Append(fs, f),
         NEW k, k # DedupeKey(f)
  PROVE  Group(gs, k) = Group(fs, k)
<1>1. /\ gs[Len(gs)] = f /\ DOMAIN gs = DOMAIN fs \cup {Len(gs)}
      /\ \A i \in DOMAIN fs : gs[i] = fs[i]
  OBVIOUS
<1> QED
  BY <1>1 DEF Group

LEMMA OwnGroup ==
  ASSUME NEW fs \in Seq(Candidate), NEW f \in Candidate, NEW gs, gs = Append(fs, f)
  PROVE  Group(gs, DedupeKey(f)) = Group(fs, DedupeKey(f)) \cup {Len(gs)}
<1>1. /\ gs[Len(gs)] = f /\ DOMAIN gs = DOMAIN fs \cup {Len(gs)}
      /\ \A i \in DOMAIN fs : gs[i] = fs[i]
  OBVIOUS
<1> QED
  BY <1>1 DEF Group

(* The representative of another issue stays.                              *)
LEMMA OtherRepStays ==
  ASSUME NEW fs \in Seq(Candidate), NEW f \in Candidate, NEW gs, gs = Append(fs, f),
         NEW k, k # DedupeKey(f), NEW i, IsRep(fs, k, i)
  PROVE  IsRep(gs, k, i)
<1>1. Group(gs, k) = Group(fs, k)
  BY OtherGroup
<1>2. \A j \in Group(fs, k) : gs[j] = fs[j]
  BY AppendFinding DEF Group
<1> QED
  BY <1>1, <1>2 DEF IsRep

(* Its own issue: the new finding represents it if it is stronger than the *)
(* representative so far, which otherwise stays.                           *)
LEMMA OwnRep ==
  ASSUME NEW fs \in Seq(Candidate), NEW f \in Candidate, NEW gs, gs = Append(fs, f),
         NEW k, DedupeKey(f) = k, NEW i, IsRep(fs, k, i)
  PROVE  IF Stronger(f, fs[i]) THEN IsRep(gs, k, Len(gs)) ELSE IsRep(gs, k, i)
<1>1. Group(gs, k) = Group(fs, k) \cup {Len(gs)}
  BY OwnGroup
<1>2. /\ Len(gs) = Len(fs) + 1 /\ gs[Len(gs)] = f /\ Len(fs) \in Nat
      /\ \A j \in Group(fs, k) : j \in 1..Len(fs) /\ gs[j] = fs[j] /\ fs[j] \in Candidate
  BY AppendFinding DEF Group
<1>3. \A j \in Group(fs, k) : SeverityWeight[fs[j].sev] \in Nat /\ fs[j].conf \in Nat
  BY <1>2, CandidateIsFinding
<1>4. i \in Group(fs, k) /\ \A j \in Group(fs, k) : ~Stronger(fs[j], fs[i])
  BY DEF IsRep
<1>5. SeverityWeight[f.sev] \in Nat /\ f.conf \in Nat
  BY CandidateIsFinding
<1>6. ~Stronger(f, f)
  BY <1>5 DEF Stronger
<1>7. CASE Stronger(f, fs[i])
  <2>1. \A j \in Group(fs, k) : Stronger(f, fs[j]) /\ ~Stronger(fs[j], f)
    BY <1>3, <1>4, <1>5, <1>7 DEF Stronger
  <2> QED
    BY <1>1, <1>2, <1>6, <1>7, <2>1 DEF IsRep
<1>8. CASE ~Stronger(f, fs[i])
  <2>1. \A j \in Group(fs, k) : ~Stronger(fs[j], fs[i]) /\ (j < i => Stronger(fs[i], fs[j]))
    BY DEF IsRep
  <2>2. ~(Len(gs) < i)
    BY <1>2, <1>4
  <2> QED
    BY <1>1, <1>2, <1>4, <1>8, <2>1, <2>2 DEF IsRep
<1> QED
  BY <1>7, <1>8

(* A new issue is represented by its only finding.                         *)
LEMMA FirstRep ==
  ASSUME NEW fs \in Seq(Candidate), NEW f \in Candidate, NEW gs, gs = Append(fs, f),
         DedupeKey(f) \notin Keys(fs)
  PROVE  IsRep(gs, DedupeKey(f), Len(gs))
<1>1. Group(fs, DedupeKey(f)) = {}
  BY DEF Group, Keys
<1>2. Len(gs) = Len(fs) + 1 /\ Len(fs) \in Nat /\ gs[Len(gs)] = f
  BY AppendFinding
<1>3. Group(gs, DedupeKey(f)) = Group(fs, DedupeKey(f)) \cup {Len(gs)}
  BY OwnGroup
<1>4. ~Stronger(f, f)
  BY CandidateIsFinding DEF Stronger
<1> QED
  BY <1>1, <1>2, <1>3, <1>4 DEF IsRep

LEMMA AppendKeepsReps ==
  ASSUME VInv, NEW f \in Candidate, findings' = Append(findings, f)
  PROVE  HasReps'
<1> SUFFICES ASSUME NEW k \in Keys(findings')
             PROVE  \E i \in DOMAIN findings' : IsRep(findings', k, i)
  BY DEF HasReps
<1>0. findings \in Seq(Candidate)
  BY DEF VInv, TypeOK
<1>1. \A i : IsRep(findings', k, i) => i \in DOMAIN findings'
  BY DEF IsRep, Group
<1>2. CASE k \in Keys(findings)
  <2>1. PICK i \in DOMAIN findings : IsRep(findings, k, i)
    BY <1>2 DEF VInv, HasReps
  <2> QED
    BY <1>0, <1>1, <2>1, OtherRepStays, OwnRep
<1>3. CASE k \notin Keys(findings)
  <2>1. k = DedupeKey(f)
    BY <1>0, <1>3, AppendFinding DEF Keys
  <2> QED
    BY <1>0, <1>1, <1>3, <2>1, FirstRep
<1> QED
  BY <1>2, <1>3

-----------------------------------------------------------------------------
LEMMA VerdictInit == Init => VInv
BY DEF Init, VInv, TypeOK, HasReps, Keys, FeedbackInit, FeedbackTypeOK

LEMMA VerdictStep == VInv /\ [Next]_vars => VInv'
<1> SUFFICES ASSUME VInv, [Next]_vars PROVE VInv'
  OBVIOUS
<1>1. ASSUME NEW f \in Candidate, Report(f) PROVE VInv'
  <2>1. findings' = Append(findings, f) /\ feedback' = feedback
    BY <1>1 DEF Report
  <2>2. TypeOK'
    BY <2>1 DEF VInv, TypeOK, FeedbackTypeOK
  <2> QED
    BY <2>1, <2>2, AppendKeepsReps DEF VInv
<1>2. ASSUME NEW c \in Rated, NEW action \in FeedbackAction, Submit(c, action) PROVE VInv'
  <2>1. c \in Category
    BY VerdictAssumption
  <2>2. FeedbackTypeOK'
    BY <1>2, <2>1 DEF Submit, RecordFeedback, VInv, TypeOK, FeedbackTypeOK, FeedbackAction
  <2>3. findings' = findings
    BY <1>2 DEF Submit
  <2> QED
    BY <2>2, <2>3 DEF VInv, TypeOK, HasReps
<1>3. CASE UNCHANGED vars
  BY <1>3 DEF vars, VInv, TypeOK, HasReps, FeedbackTypeOK
<1> QED
  BY <1>1, <1>2, <1>3 DEF Next

LEMMA VerdictInvHolds == Spec => []VInv
BY VerdictInit, VerdictStep, PTL DEF Spec

(* The list of findings and the feedback are well typed.                   *)
THEOREM VerdictTypes == Spec => []TypeOK
<1>1. VInv => TypeOK
  BY DEF VInv
<1> QED
  BY VerdictInvHolds, <1>1, PTL

(* Every issue found is represented by a finding of its own that none of   *)
(* its findings beats.                                                     *)
LEMMA RepOfFinding ==
  ASSUME VInv, NEW i \in DOMAIN findings
  PROVE  \E r \in DOMAIN findings :
           /\ IsRep(findings, DedupeKey(findings[i]), r)
           /\ Rep(findings, DedupeKey(findings[i])) = findings[r]
           /\ findings[r] \in Candidate /\ findings[i] \in Candidate
           /\ DedupeKey(findings[r]) = DedupeKey(findings[i])
           /\ ~Stronger(findings[i], findings[r])
<1> DEFINE k == DedupeKey(findings[i])
<1>0. findings \in Seq(Candidate) /\ k \in Keys(findings)
  BY DEF VInv, TypeOK, Keys
<1>1. PICK r \in DOMAIN findings : IsRep(findings, k, r)
  BY <1>0 DEF VInv, HasReps
<1>2. Rep(findings, k) = findings[r]
  BY <1>0, <1>1, RepIs
<1>3. r \in Group(findings, k) /\ i \in Group(findings, k)
  BY <1>1 DEF IsRep, Group
<1>4. ~Stronger(findings[i], findings[r])
  BY <1>1, <1>3 DEF IsRep
<1>5. findings[r] \in Candidate /\ findings[i] \in Candidate
  BY <1>0
<1> QED
  BY <1>1, <1>2, <1>3, <1>4, <1>5 DEF Group

(* Merging duplicates hides no severity.                                   *)
THEOREM MergeKeepsSeverity == Spec => []SeverityKept
<1>1. VInv => SeverityKept
  <2> SUFFICES ASSUME VInv, NEW i \in DOMAIN findings
               PROVE  SeverityWeight[findings[i].sev]
                        <= SeverityWeight[Verdict(DedupeKey(findings[i])).finding.sev]
    BY DEF SeverityKept
  <2>1. PICK r \in DOMAIN findings :
          /\ Rep(findings, DedupeKey(findings[i])) = findings[r]
          /\ findings[r] \in Candidate /\ findings[i] \in Candidate
          /\ ~Stronger(findings[i], findings[r])
    BY RepOfFinding
  <2>2. Verdict(DedupeKey(findings[i])).finding = findings[r]
    BY <2>1 DEF Verdict, Item
  <2> QED
    BY <2>1, <2>2, CandidateIsFinding DEF Stronger
<1> QED
  BY VerdictInvHolds, <1>1, PTL

-----------------------------------------------------------------------------
(* Agreement, learned multipliers and gates.                               *)

LEMMA AgreementFacts ==
  ASSUME NEW fs \in Seq(Candidate), NEW gs \in Seq(Candidate), NEW k,
         Group(fs, k) \subseteq Group(gs, k), \A i \in Group(fs, k) : gs[i] = fs[i]
  PROVE  /\ Agreement(fs, k) \in Nat /\ Agreement(gs, k) \in Nat
         /\ Agreement(fs, k) <= Agreement(gs, k)
         /\ Group(fs, k) # {} => Agreement(fs, k) >= 1
<1> DEFINE A == {fs[i].agent : i \in Group(fs, k)}
           B == {gs[i].agent : i \in Group(gs, k)}
<1>1. A \subseteq AgentName /\ B \subseteq AgentName /\ A \subseteq B
  BY VerdictAssumption DEF Group, Finding
<1>2. IsFiniteSet(A) /\ IsFiniteSet(B)
  BY <1>1, FS_Subset, VerdictAssumption
<1>3. Cardinality(A) \in Nat /\ Cardinality(B) \in Nat /\ Cardinality(A) <= Cardinality(B)
  BY <1>1, <1>2, FS_CardinalityType, FS_Subset
<1>4. Group(fs, k) # {} => A # {}
  OBVIOUS
<1>5. A # {} => Cardinality(A) # 0
  BY <1>2, FS_EmptySet
<1> QED
  BY <1>3, <1>4, <1>5 DEF Agreement

(* A learned multiplier lies between 0.4 and 1.                            *)
LEMMA LearnedBounds ==
  ASSUME FeedbackTypeOK, NEW c \in Category
  PROVE  LET m == Multiplier(Adjustments, c)
         IN  m.num \in Nat /\ m.den \in Nat /\ m.den > 0 /\ m.num <= m.den /\ 4 * m.den <= 10 * m.num
<1> DEFINE s == feedback[c]
<1>1. s["accepted"] \in Nat /\ s["rejected"] \in Nat /\ s["edited"] \in Nat
  BY DEF FeedbackTypeOK, FeedbackAction
<1>2. CASE c \in DOMAIN Adjustments
  <2>1. Total(s) > 0 /\ Multiplier(Adjustments, c) = Learned(s)
    BY <1>2 DEF Adjustments, Multiplier
  <2> QED
    BY <1>1, <2>1 DEF Learned, Total
<1>3. CASE c \notin DOMAIN Adjustments
  BY <1>3 DEF Multiplier
<1> QED
  BY <1>2, <1>3

(* The raw confidence of a finding, before feedback.                       *)
Raw(f, a) == f.conf * DimensionWeight[f.dim] * SourceMultiplier[f.src] * (19 + a)

LEMMA RawIsNat ==
  ASSUME NEW f \in Candidate, NEW a \in Nat
  PROVE  /\ f.conf * DimensionWeight[f.dim] * SourceMultiplier[f.src] \in Nat
         /\ Raw(f, a) \in Nat
<1>1. DimensionWeight[f.dim] \in Nat /\ SourceMultiplier[f.src] \in Nat /\ f.conf \in Nat
  BY CandidateIsFinding DEF Finding, Dimension, Source, DimensionWeight, SourceMultiplier
<1>2. f.conf * DimensionWeight[f.dim] \in Nat
  BY <1>1
<1>3. f.conf * DimensionWeight[f.dim] * SourceMultiplier[f.src] \in Nat
  BY <1>1, <1>2
<1> QED
  BY <1>3 DEF Raw

LEMMA ShrinkingOnlyLowers ==
  ASSUME NEW P \in Nat, NEW T \in Nat, NEW n \in Nat, NEW d \in Nat, d > 0, n <= d,
         P * n >= T * d
  PROVE  P >= T
<1>1. P * n <= P * d
  OBVIOUS
<1>2. P * d >= T * d
  BY <1>1
<1>3. SUFFICES ASSUME P + 1 <= T PROVE FALSE
  OBVIOUS
<1>4. T * d >= (P + 1) * d
  BY <1>3
<1> QED
  BY <1>2, <1>4

(* What reaches every bar another reaches has at least its gate.           *)
LEMMA GateMonotone ==
  ASSUME NEW w, NEW v, NEW sev,
         AtLeast(w, 15) => AtLeast(v, 15), AtLeast(w, 10) => AtLeast(v, 10),
         AtLeast(w, 8) => AtLeast(v, 8)
  PROVE  GateRank[Gate(sev, w)] <= GateRank[Gate(sev, v)]
BY DEF Gate, GateRank

-----------------------------------------------------------------------------
(* Feedback never moves an issue to a louder gate.                         *)
THEOREM FeedbackNeverPromotes == Spec => []FeedbackOnlyQuiets
<1>1. VInv => FeedbackOnlyQuiets
  <2> SUFFICES ASSUME VInv, NEW i \in DOMAIN findings
               PROVE  LET k == DedupeKey(findings[i])
                      IN  GateRank[Verdict(k).gate] <= GateRank[Unadjusted(k).gate]
    BY DEF FeedbackOnlyQuiets, Keys
  <2> DEFINE k == DedupeKey(findings[i])
             f == Rep(findings, k)
             a == Agreement(findings, k)
             m == Multiplier(Adjustments, f.cat)
             w == Weighted(f, a, m)
             u == Weighted(f, a, Multiplier(NoAdjustments, f.cat))
  <2>0. findings \in Seq(Candidate) /\ FeedbackTypeOK
    BY DEF VInv, TypeOK
  <2>1. f \in Candidate
    BY RepOfFinding
  <2>2. a \in Nat
    BY <2>0, AgreementFacts
  <2>3. m.num \in Nat /\ m.den \in Nat /\ m.den > 0 /\ m.num <= m.den
    <3>1. f.cat \in Category
      BY <2>1, VerdictAssumption DEF Finding
    <3> QED
      BY <2>0, <3>1, LearnedBounds
  <2>4. Raw(f, a) \in Nat
    BY <2>1, <2>2, RawIsNat
  <2>5. w = [num |-> Raw(f, a) * m.num, den |-> 400000 * m.den]
    BY DEF Weighted, Raw
  <2>6. u = [num |-> Raw(f, a) * 1, den |-> 400000 * 1]
    BY DEF Weighted, Raw, Multiplier, NoAdjustments
  <2>7. ASSUME NEW t \in Nat, AtLeast(w, t) PROVE AtLeast(u, t)
    <3> DEFINE P == 20 * Raw(f, a)
               T == t * 400000
    <3>1. P \in Nat /\ T \in Nat
      BY <2>4
    <3>2. P * m.num >= T * m.den
      BY <2>3, <2>4, <2>5, <2>7 DEF AtLeast
    <3>3. P >= T
      BY <2>3, <3>1, <3>2, ShrinkingOnlyLowers
    <3> QED
      BY <2>4, <2>6, <3>3 DEF AtLeast
  <2>8. GateRank[Gate(f.sev, w)] <= GateRank[Gate(f.sev, u)]
    BY <2>7, GateMonotone
  <2> QED
    BY <2>8 DEF Verdict, Unadjusted, Item
<1> QED
  BY VerdictInvHolds, <1>1, PTL

(* A larger multiplier reaches every bar a smaller one reaches.            *)
LEMMA LargerReaches ==
  ASSUME NEW P \in Nat, NEW T \in Nat, NEW n \in Nat, NEW d \in Nat, d > 0,
         NEW n1 \in Nat, NEW d1 \in Nat, n * d1 <= n1 * d, P * n >= T * d
  PROVE  P * n1 >= T * d1
<1>1. PICK x \in Nat, y \in Nat : x = P * n1 /\ y = T * d1
  OBVIOUS
<1>2. P * (n1 * d) >= P * (n * d1)
  <2>1. PICK q \in Nat, r \in Nat : q = n1 * d /\ r = n * d1
    OBVIOUS
  <2>2. P * q >= P * r
    BY <2>1
  <2> QED
    BY <2>1, <2>2
<1>3. (P * n) * d1 >= (T * d) * d1
  <2>1. PICK q \in Nat, r \in Nat : q = P * n /\ r = T * d
    OBVIOUS
  <2>2. q * d1 >= r * d1
    BY <2>1
  <2> QED
    BY <2>1, <2>2
<1>4. x * d = P * (n1 * d) /\ y * d = (T * d) * d1 /\ P * (n * d1) = (P * n) * d1
  BY <1>1
<1>5. x * d >= y * d
  BY <1>2, <1>3, <1>4
<1>6. SUFFICES ASSUME x + 1 <= y PROVE FALSE
  BY <1>1
<1>7. y * d >= (x + 1) * d
  BY <1>6
<1> QED
  BY <1>5, <1>7

Clicked(c, action) == feedback' = [feedback EXCEPT ![c][action] = @ + 1]

(* A click adds to the multiplier's fraction of a category that adapted.   *)
LEMMA ClickOnAdapted ==
  ASSUME FeedbackTypeOK, NEW c \in Category, NEW action \in FeedbackAction,
         Clicked(c, action), c \in DOMAIN Adjustments
  PROVE  LET m  == Multiplier(Adjustments, c)
             m1 == Multiplier(Adjustments', c)
         IN  /\ m1.den = m.den + 10
             /\ action = "accepted" => m1.num = m.num + 10
             /\ action = "rejected" => m1.num = m.num + 4
             /\ m1.num \in Nat
<1> DEFINE s == feedback[c]
<1>1. s["accepted"] \in Nat /\ s["rejected"] \in Nat /\ s["edited"] \in Nat
  BY DEF FeedbackTypeOK, FeedbackAction
<1>2. feedback'[c] = [s EXCEPT ![action] = @ + 1]
  BY DEF Clicked, FeedbackTypeOK
<1>3. s \in [FeedbackAction -> Nat]
  BY DEF FeedbackTypeOK
<1>4. PICK z : z = feedback'[c]
  OBVIOUS
<1>5. /\ action = "accepted" => z["accepted"] = s["accepted"] + 1 /\ z["rejected"] = s["rejected"]
                                /\ z["edited"] = s["edited"]
      /\ action = "rejected" => z["accepted"] = s["accepted"] /\ z["rejected"] = s["rejected"] + 1
                                /\ z["edited"] = s["edited"]
      /\ action = "edited" => z["accepted"] = s["accepted"] /\ z["rejected"] = s["rejected"]
                              /\ z["edited"] = s["edited"] + 1
  BY <1>2, <1>3, <1>4 DEF FeedbackAction
<1>6. /\ Total(z) = Total(s) + 1 /\ Total(s) \in Nat /\ Total(s) > 0 /\ Total(s) >= MinSamples
  BY <1>1, <1>5 DEF FeedbackAction, Total, Adjustments
<1>7. Multiplier(Adjustments, c) = Learned(s)
  BY DEF Adjustments, Multiplier
<1>8. Multiplier(Adjustments', c) = Learned(z)
  <2>1. c \in DOMAIN Adjustments'
    BY <1>4, <1>6, GoldenPathAssumption DEF Adjustments
  <2>2. Adjustments'[c] = Learned(z)
    BY <1>4, <2>1 DEF Adjustments
  <2> QED
    BY <2>1, <2>2 DEF Multiplier
<1> QED
  BY <1>1, <1>5, <1>6, <1>7, <1>8 DEF Learned, FeedbackAction

(* Clicks change their own category, in the direction of the click.        *)
THEOREM ClicksSteerVerdicts == Spec => ClicksSteer
<1>1. ASSUME VInv, NEW c \in Category, NEW action \in FeedbackAction, findings' = findings,
             Clicked(c, action), NEW i \in DOMAIN findings
      PROVE  LET k == DedupeKey(findings[i])
                 before == Verdict(k).gate
                 after  == Verdict(k)'.gate
             IN  /\ k[2] # c => Verdict(k)' = Verdict(k)
                 /\ c \in DOMAIN Adjustments /\ action = "accepted"
                      => GateRank[before] <= GateRank[after]
                 /\ c \in DOMAIN Adjustments /\ action = "rejected"
                      => GateRank[after] <= GateRank[before]
  <2> DEFINE k == DedupeKey(findings[i])
             f == Rep(findings, k)
             a == Agreement(findings, k)
             m == Multiplier(Adjustments, f.cat)
             m1 == Multiplier(Adjustments', f.cat)
             w == Weighted(f, a, m)
             w1 == Weighted(f, a, m1)
  <2>0. findings \in Seq(Candidate) /\ FeedbackTypeOK
    BY <1>1 DEF VInv, TypeOK
  <2>1. f \in Candidate /\ f.cat = k[2] /\ f.cat \in Category
    <3>1. PICK r \in DOMAIN findings : /\ f = findings[r] /\ findings[r] \in Candidate
                                       /\ DedupeKey(findings[r]) = k
      BY <1>1, RepOfFinding
    <3> QED
      BY <3>1, VerdictAssumption DEF Finding, DedupeKey
  <2>2. a \in Nat
    BY <2>0, AgreementFacts
  <2>3. m.num \in Nat /\ m.den \in Nat /\ m.den > 0 /\ m.num <= m.den /\ 4 * m.den <= 10 * m.num
    BY <2>0, <2>1, LearnedBounds
  <2>4. Raw(f, a) \in Nat
    BY <2>1, <2>2, RawIsNat
  <2>5. /\ w = [num |-> Raw(f, a) * m.num, den |-> 400000 * m.den]
        /\ w1 = [num |-> Raw(f, a) * m1.num, den |-> 400000 * m1.den]
    BY DEF Weighted, Raw
  <2>6. /\ Verdict(k) = [finding |-> f, weighted |-> w, agreement |-> a, gate |-> Gate(f.sev, w)]
        /\ Verdict(k)' = [finding |-> f, weighted |-> w1, agreement |-> a, gate |-> Gate(f.sev, w1)]
    BY <1>1 DEF Verdict, Item
  <2>7. f.cat # c => m1 = m
    <3> SUFFICES ASSUME f.cat # c PROVE m1 = m
      OBVIOUS
    <3>1. feedback'[f.cat] = feedback[f.cat]
      BY <1>1, <2>0, <2>1 DEF Clicked, FeedbackTypeOK
    <3>2. /\ f.cat \in DOMAIN Adjustments' <=> f.cat \in DOMAIN Adjustments
          /\ f.cat \in DOMAIN Adjustments => Adjustments'[f.cat] = Adjustments[f.cat]
      BY <3>1 DEF Adjustments
    <3> QED
      BY <3>2 DEF Multiplier
  <2>8. ASSUME f.cat = c, c \in DOMAIN Adjustments
        PROVE  /\ m1.den = m.den + 10
               /\ action = "accepted" => m1.num = m.num + 10
               /\ action = "rejected" => m1.num = m.num + 4
               /\ m1.num \in Nat
    BY <1>1, <2>0, <2>8, ClickOnAdapted
  <2>9. ASSUME f.cat = c, c \in DOMAIN Adjustments, action = "accepted", NEW t \in Nat, AtLeast(w, t)
        PROVE  AtLeast(w1, t)
    <3> DEFINE P == 20 * Raw(f, a)
               T == t * 400000
    <3>1. P \in Nat /\ T \in Nat
      BY <2>4
    <3>2. P * m.num >= T * m.den
      BY <2>3, <2>4, <2>5, <2>9 DEF AtLeast
    <3>3. m1.den \in Nat /\ m1.num \in Nat /\ m1.num = m.num + 10 /\ m1.den = m.den + 10
      BY <2>3, <2>8, <2>9
    <3>4. m.num * m1.den <= m1.num * m.den
      BY <2>3, <3>3
    <3> HIDE DEF P, T
    <3>5. P * m1.num >= T * m1.den
      BY <2>3, <3>1, <3>2, <3>3, <3>4, LargerReaches
    <3> QED
      BY <2>4, <2>5, <3>3, <3>5 DEF AtLeast, P, T
  <2>10. ASSUME f.cat = c, c \in DOMAIN Adjustments, action = "rejected", NEW t \in Nat, AtLeast(w1, t)
         PROVE  AtLeast(w, t)
    <3> DEFINE P == 20 * Raw(f, a)
               T == t * 400000
    <3>1. P \in Nat /\ T \in Nat
      BY <2>4
    <3>2. /\ m1.den \in Nat /\ m1.den > 0
          /\ m1.num \in Nat /\ m1.num = m.num + 4 /\ m1.den = m.den + 10
      BY <2>3, <2>8, <2>10
    <3>3. P * m1.num >= T * m1.den
      BY <2>4, <2>5, <2>10, <3>2 DEF AtLeast
    <3>4. m1.num * m.den <= m.num * m1.den
      BY <2>3, <3>2
    <3> HIDE DEF P, T
    <3>5. P * m.num >= T * m.den
      BY <2>3, <3>1, <3>2, <3>3, <3>4, LargerReaches
    <3> QED
      BY <2>3, <2>4, <2>5, <3>5 DEF AtLeast, P, T
  <2>11. ASSUME c \in DOMAIN Adjustments, action = "accepted"
         PROVE  GateRank[Gate(f.sev, w)] <= GateRank[Gate(f.sev, w1)]
    <3>1. CASE f.cat = c
      BY <2>9, <2>11, <3>1, GateMonotone
    <3>2. CASE f.cat # c
      BY <2>7, <3>2, GateMonotone
    <3> QED
      BY <3>1, <3>2
  <2>12. ASSUME c \in DOMAIN Adjustments, action = "rejected"
         PROVE  GateRank[Gate(f.sev, w1)] <= GateRank[Gate(f.sev, w)]
    <3>1. CASE f.cat = c
      BY <2>10, <2>12, <3>1, GateMonotone
    <3>2. CASE f.cat # c
      BY <2>7, <3>2, GateMonotone
    <3> QED
      BY <3>1, <3>2
  <2> HIDE DEF f, a, m, m1, w, w1, k
  <2>13. k[2] # c => Verdict(k)' = Verdict(k)
    BY <2>1, <2>6, <2>7 DEF w, w1
  <2> QED
    BY <2>6, <2>11, <2>12, <2>13 DEF k
<1>2. ASSUME VInv, NEW c \in Category, NEW action \in FeedbackAction, findings' = findings,
             Clicked(c, action)
      PROVE  ClickSteers(c, action)
  BY <1>1, <1>2 DEF ClickSteers, Keys
<1>3. VInv => \A c \in Category, action \in FeedbackAction :
                findings' = findings /\ Clicked(c, action) => ClickSteers(c, action)
  BY <1>2
<1>4. VInv => \A c \in Category, action \in FeedbackAction :
                findings' = findings /\ feedback' = [feedback EXCEPT ![c][action] = @ + 1]
                  => ClickSteers(c, action)
  BY <1>3 DEF Clicked
<1> QED
  BY VerdictInvHolds, <1>4, PTL DEF Spec, ClicksSteer

(* A leaked secret blocks, whatever the model says of its line and however *)
(* the team reacts.                                                        *)
THEOREM SecretsAlwaysBlock == Spec => []SecretsBlock
<1>1. VInv => SecretsBlock
  <2> SUFFICES ASSUME VInv, NEW i \in DOMAIN findings, Secret(findings[i])
               PROVE  Verdict(DedupeKey(findings[i])).gate = "post"
                        /\ Blocking(findings, Adjustments)
    BY DEF SecretsBlock
  <2> DEFINE k == DedupeKey(findings[i])
             f == Rep(findings, k)
             a == Agreement(findings, k)
             m == Multiplier(Adjustments, f.cat)
             w == Weighted(f, a, m)
  <2>0. findings \in Seq(Candidate) /\ FeedbackTypeOK
    BY DEF VInv, TypeOK
  <2>1. PICK r \in DOMAIN findings :
          /\ f = findings[r] /\ f \in Candidate /\ findings[i] \in Candidate
          /\ DedupeKey(f) = k /\ ~Stronger(findings[i], f)
    BY RepOfFinding
  <2>2. f.sev = "critical" /\ f.conf = 97
    <3>1. findings[i].sev = "critical" /\ findings[i].conf = 97
      BY <2>1, VerdictAssumption
    <3>2. f.sev \in Severity /\ f.conf \in Nat /\ f.conf <= 97
      BY <2>1, CandidateIsFinding DEF Finding
    <3> QED
      BY <2>1, <3>1, <3>2 DEF Stronger, SeverityWeight, Severity
  <2>3. f.dim = "security" /\ f.src = "deterministic"
    <3>1. f.dim = "security"
      BY <2>1 DEF DedupeKey, Secret
    <3>2. f.src \in Source /\ f.src # "hybrid" /\ f.src # "llm"
      BY <2>1, <2>2, VerdictAssumption DEF Finding
    <3> QED
      BY <3>1, <3>2 DEF Source
  <2>4. a \in Nat /\ a >= 1
    BY <2>0, AgreementFacts DEF Group
  <2>5. m.num \in Nat /\ m.den \in Nat /\ 4 * m.den <= 10 * m.num
    <3>1. f.cat \in Category
      BY <2>1, VerdictAssumption DEF Finding
    <3> QED
      BY <2>0, <3>1, LearnedBounds
  <2>6. AtLeast(w, 10)
    <3>1. w = [num |-> 25220 * (19 + a) * m.num, den |-> 400000 * m.den]
      BY <2>2, <2>3, <2>4 DEF Weighted, DimensionWeight, SourceMultiplier
    <3>2. (19 + a) * m.num >= 20 * m.num
      BY <2>4, <2>5
    <3>3. 25220 * (19 + a) * m.num = 25220 * ((19 + a) * m.num) /\ (19 + a) * m.num \in Nat
      BY <2>4, <2>5
    <3> QED
      BY <2>5, <3>1, <3>2, <3>3 DEF AtLeast
  <2>7. Verdict(k) = Item(findings, Adjustments, k) /\ Verdict(k).gate = "post"
          /\ Verdict(k).finding = f
    BY <2>2, <2>6 DEF Verdict, Item, Gate, Serious
  <2>8. Verdict(k) \in Posted(findings, Adjustments)
    BY <2>7 DEF Posted, Items, Keys
  <2> QED
    BY <2>2, <2>7, <2>8 DEF Blocking, Serious
<1> QED
  BY VerdictInvHolds, <1>1, PTL

-----------------------------------------------------------------------------
(* What one more finding does.                                             *)

LEMMA OtherItemStays ==
  ASSUME VInv, NEW f \in Candidate, findings' = Append(findings, f), feedback' = feedback,
         NEW k \in Keys(findings), k # DedupeKey(f)
  PROVE  Verdict(k)' = Verdict(k)
<1>0. findings \in Seq(Candidate) /\ findings' \in Seq(Candidate)
  BY AppendFinding DEF VInv, TypeOK
<1>1. PICK r \in DOMAIN findings : IsRep(findings, k, r)
  BY DEF VInv, HasReps
<1>2. IsRep(findings', k, r)
  BY <1>0, <1>1, OtherRepStays
<1>3. findings'[r] = findings[r]
  BY <1>0, AppendFinding
<1>4. Rep(findings, k) = findings[r] /\ Rep(findings', k) = findings[r]
  BY <1>0, <1>1, <1>2, <1>3, RepIs
<1>5. Group(findings', k) = Group(findings, k)
  <2>1. /\ findings'[Len(findings')] = f
        /\ DOMAIN findings' = DOMAIN findings \cup {Len(findings')}
        /\ \A i \in DOMAIN findings : findings'[i] = findings[i]
    BY <1>0
  <2> QED
    BY <2>1 DEF Group
<1>6. \A i \in Group(findings, k) : findings'[i] = findings[i]
  BY <1>0, AppendFinding DEF Group
<1>7. Agreement(findings', k) = Agreement(findings, k)
  BY <1>5, <1>6 DEF Agreement
<1>8. Adjustments' = Adjustments
  BY DEF Adjustments
<1> QED
  BY <1>4, <1>7, <1>8 DEF Verdict, Item

(* Evidence on one issue leaves the verdict on every other issue alone.    *)
THEOREM EvidenceStaysLocal == Spec => EvidenceIsLocal
<1>1. ASSUME VInv, [Next]_vars, findings' # findings PROVE OthersUntouched
  <2>1. PICK f \in Candidate : findings' = Append(findings, f) /\ feedback' = feedback
    BY <1>1 DEF Next, Report, Submit, vars
  <2>2. findings \in Seq(Candidate)
    BY <1>1 DEF VInv, TypeOK
  <2>3. findings'[Len(findings')] = f
    BY <2>1, <2>2
  <2>4. ASSUME NEW i \in DOMAIN findings, ~SameIssue(findings[i], f)
        PROVE  Verdict(DedupeKey(findings[i]))' = Verdict(DedupeKey(findings[i]))
    <3> DEFINE k == DedupeKey(findings[i])
    <3>1. k \in Keys(findings) /\ k # DedupeKey(f)
      BY <2>4 DEF Keys, DedupeKey, SameIssue
    <3>2. (findings[i])' = findings[i]
      BY <2>1, <2>2
    <3> QED
      BY <1>1, <2>1, <3>1, <3>2, OtherItemStays
  <2> QED
    BY <2>3, <2>4 DEF OthersUntouched
<1> QED
  BY VerdictInvHolds, <1>1, PTL DEF Spec, EvidenceIsLocal

(* More agreement never lowers a gate.                                     *)
LEMMA AgreementOnlyRaises ==
  ASSUME NEW f \in Candidate, NEW a \in Nat, NEW b \in Nat, a <= b,
         NEW m, m.num \in Nat, m.den \in Nat
  PROVE  GateRank[Gate(f.sev, Weighted(f, a, m))] <= GateRank[Gate(f.sev, Weighted(f, b, m))]
<1> DEFINE p == f.conf * DimensionWeight[f.dim] * SourceMultiplier[f.src]
<1>1. p \in Nat /\ Raw(f, a) \in Nat /\ Raw(f, b) \in Nat
  BY RawIsNat
<1>2. p * (19 + a) <= p * (19 + b)
  BY <1>1
<1>3. Raw(f, a) <= Raw(f, b)
  BY <1>2 DEF Raw
<1>4. Raw(f, a) * m.num <= Raw(f, b) * m.num
  BY <1>1, <1>3
<1>5. /\ Weighted(f, a, m) = [num |-> Raw(f, a) * m.num, den |-> 400000 * m.den]
      /\ Weighted(f, b, m) = [num |-> Raw(f, b) * m.num, den |-> 400000 * m.den]
  BY DEF Weighted, Raw
<1>6. Raw(f, a) * m.num \in Nat /\ Raw(f, b) * m.num \in Nat /\ 400000 * m.den \in Nat
  BY <1>1
<1>7. ASSUME NEW t \in Nat, AtLeast(Weighted(f, a, m), t)
      PROVE  AtLeast(Weighted(f, b, m), t)
  <2>1. t * (400000 * m.den) \in Nat
    BY <1>6
  <2> QED
    BY <1>4, <1>5, <1>6, <1>7, <2>1 DEF AtLeast
<1> QED
  BY <1>7, GateMonotone

(* An issue is quieted by a rival only, never by agreement.                *)
THEOREM DemotionIsByRival == Spec => DemotionNeedsRival
<1>1. ASSUME VInv, [Next]_vars PROVE RivalDemotes
  <2>0. findings \in Seq(Candidate) /\ FeedbackTypeOK
    BY <1>1 DEF VInv, TypeOK
  <2> SUFFICES ASSUME NEW k \in Keys(findings), feedback' = feedback,
                      GateRank[Verdict(k).gate]' < GateRank[Verdict(k).gate]
               PROVE  LET f == findings'[Len(findings')]
                      IN  Verdict(k).finding' = f /\ Stronger(f, Verdict(k).finding)
    BY DEF RivalDemotes
  <2>1. PICK r \in DOMAIN findings : IsRep(findings, k, r)
    BY <1>1 DEF VInv, HasReps
  <2> DEFINE g == findings[r]
             m == Multiplier(Adjustments, g.cat)
             a == Agreement(findings, k)
  <2>2. g \in Candidate /\ Rep(findings, k) = g
    BY <2>0, <2>1, RepIs
  <2>3. Verdict(k).finding = g /\ Verdict(k).gate = Gate(g.sev, Weighted(g, a, m))
    BY <2>2 DEF Verdict, Item
  <2>4. m.num \in Nat /\ m.den \in Nat /\ GateRank[Verdict(k).gate] \in Nat
    <3>1. g.cat \in Category
      BY <2>2, VerdictAssumption DEF Finding
    <3>2. m.num \in Nat /\ m.den \in Nat
      BY <2>0, <3>1, LearnedBounds
    <3> QED
      BY <2>3, <3>2 DEF Gate, GateRank
  <2>5. Adjustments' = Adjustments
    BY DEF Adjustments
  <2>6. CASE findings' = findings
    <3>1. GateRank[Verdict(k).gate]' = GateRank[Verdict(k).gate]
      BY <2>5, <2>6 DEF Verdict
    <3> QED
      BY <2>4, <3>1
  <2>7. ASSUME NEW f \in Candidate, findings' = Append(findings, f), k # DedupeKey(f)
        PROVE  FALSE
    <3>1. Verdict(k)' = Verdict(k)
      BY <1>1, <2>7, OtherItemStays
    <3>2. GateRank[Verdict(k).gate]' = GateRank[Verdict(k).gate]
      BY <3>1
    <3> QED
      BY <2>4, <3>2
  <2>8. ASSUME NEW f \in Candidate, findings' = Append(findings, f), k = DedupeKey(f)
        PROVE  findings'[Len(findings')] = f /\ Verdict(k).finding' = f /\ Stronger(f, g)
    <3>0. findings' \in Seq(Candidate) /\ findings'[Len(findings')] = f
      BY <2>0, <2>8, AppendFinding
    <3>1. CASE Stronger(f, g)
      <4>1. IsRep(findings', k, Len(findings'))
        BY <2>0, <2>1, <2>8, <3>1, OwnRep
      <4>2. Rep(findings', k) = f
        BY <3>0, <4>1, RepIs
      <4>3. Verdict(k)' = Item(findings', Adjustments', k)
        BY DEF Verdict
      <4> QED
        BY <3>0, <3>1, <4>2, <4>3 DEF Item
    <3>2. CASE ~Stronger(f, g)
      <4> DEFINE b == Agreement(findings', k)
      <4>1. IsRep(findings', k, r) /\ findings'[r] = g
        <5>1. IsRep(findings', k, r)
          BY <2>0, <2>1, <2>8, <3>2, OwnRep
        <5>2. findings'[r] = g
          BY <2>0, <2>8
        <5> QED
          BY <5>1, <5>2
      <4>2. Rep(findings', k) = g
        BY <3>0, <4>1, RepIs
      <4>3. \A i \in Group(findings, k) : i \in Group(findings', k) /\ findings'[i] = findings[i]
        BY <2>0, <2>8, AppendFinding DEF Group
      <4>4. a \in Nat /\ b \in Nat /\ a <= b
        BY <2>0, <3>0, <4>3, AgreementFacts
      <4>5. Verdict(k)' = Item(findings', Adjustments, k)
        BY <2>5 DEF Verdict
      <4>6. Verdict(k)'.gate = Gate(g.sev, Weighted(g, b, m))
        BY <4>2, <4>5 DEF Item
      <4>7. GateRank[Verdict(k).gate] <= GateRank[Verdict(k)'.gate]
        BY <2>2, <2>3, <2>4, <4>4, <4>6, AgreementOnlyRaises
      <4>8. GateRank[Verdict(k)'.gate] \in Nat
        BY <4>6 DEF Gate, GateRank
      <4> QED
        BY <2>4, <4>7, <4>8
    <3> QED
      BY <3>1, <3>2
  <2>9. findings' = findings \/ \E f \in Candidate : findings' = Append(findings, f)
    BY <1>1 DEF Next, Report, Submit, vars
  <2> QED
    BY <2>3, <2>6, <2>7, <2>8, <2>9
<1> QED
  BY VerdictInvHolds, <1>1, PTL DEF Spec, DemotionNeedsRival

-----------------------------------------------------------------------------
(* The scorecard.                                                          *)

OneMore(gs, fs, f) == gs = Append(fs, f)

LEMMA CostIsNat ==
  ASSUME NEW f \in Candidate
  PROVE  \E k \in Nat : Cost(f) = 10 * k
<1>1. PICK w \in Nat : w = SeverityWeight[f.sev]
  BY CandidateIsFinding
<1>2. PICK c \in Nat : c = (IF f.conf < 10 THEN 10 ELSE f.conf)
  BY CandidateIsFinding
<1>3. w * c \in Nat
  OBVIOUS
<1>4. Cost(f) = (w * c) * 10
  BY <1>1, <1>2 DEF Cost
<1> QED
  BY <1>3, <1>4

LEMMA InFacts ==
  ASSUME NEW fs \in Seq(Candidate), NEW d
  PROVE  /\ IsFiniteSet(In(fs, d))
         /\ [i \in In(fs, d) |-> Cost(fs[i])] \in [In(fs, d) -> Nat]
<1>1. In(fs, d) \subseteq 1..Len(fs) /\ Len(fs) \in Nat
  BY DEF In
<1>2. IsFiniteSet(In(fs, d))
  <2>1. IsFiniteSet(1..Len(fs))
    BY <1>1, FS_Interval
  <2> QED
    BY <1>1, <2>1, FS_Subset
<1>3. \A i \in In(fs, d) : Cost(fs[i]) \in Nat
  <2> SUFFICES ASSUME NEW i \in In(fs, d) PROVE Cost(fs[i]) \in Nat
    OBVIOUS
  <2>1. fs[i] \in Candidate
    BY <1>1
  <2> QED
    BY <2>1, CostIsNat
<1> QED
  BY <1>2, <1>3

LEMMA PenaltyIsNat ==
  ASSUME NEW fs \in Seq(Candidate), NEW d
  PROVE  Penalty(fs, d) \in Nat
BY InFacts, SumNat DEF Penalty

(* One more finding adds its cost to its dimension and to no other.        *)
LEMMA PenaltyAppend ==
  ASSUME NEW fs \in Seq(Candidate), NEW f \in Candidate, NEW gs, OneMore(gs, fs, f), NEW d
  PROVE  /\ d = f.dim => Penalty(gs, d) = Penalty(fs, d) + Cost(f)
         /\ d # f.dim => Penalty(gs, d) = Penalty(fs, d)
<1>1. /\ gs \in Seq(Candidate) /\ Len(gs) = Len(fs) + 1 /\ gs[Len(gs)] = f /\ Len(fs) \in Nat
      /\ \A i \in DOMAIN fs : gs[i] = fs[i]
      /\ DOMAIN fs = 1..Len(fs) /\ DOMAIN gs = DOMAIN fs \cup {Len(gs)}
  BY AppendFinding DEF OneMore
<1>2. PICK n : n = Len(gs) /\ n \notin DOMAIN fs /\ gs[n] = f /\ DOMAIN gs = DOMAIN fs \cup {n}
  BY <1>1
<1>3. PICK R, T : R = In(fs, d) /\ T = In(gs, d)
  OBVIOUS
<1>4. PICK e, g : e = [i \in R |-> Cost(fs[i])] /\ g = [i \in T |-> Cost(gs[i])]
  OBVIOUS
<1>5. e \in [R -> Nat] /\ g \in [T -> Nat] /\ IsFiniteSet(R) /\ IsFiniteSet(T)
  BY <1>1, <1>3, <1>4, InFacts
<1>6. Penalty(fs, d) = SumFunction(e) /\ Penalty(gs, d) = SumFunction(g)
  BY <1>3, <1>4 DEF Penalty
<1>7. \A i \in R : i \in DOMAIN fs /\ i # n
  BY <1>2, <1>3 DEF In
<1>8. CASE d = f.dim
  <2>1. n \in T /\ T \ {n} = R /\ g[n] = Cost(f)
    BY <1>1, <1>2, <1>3, <1>4, <1>8 DEF In
  <2>2. \A i \in T \ {n} : e[i] = g[i]
    BY <1>1, <1>4, <1>7, <2>1
  <2>4. SumFunction(g) = g[n] + SumFunction(e)
    <3>1. TakesOut(R, e, T, g, n)
      BY <2>1, <2>2 DEF TakesOut
    <3> QED
      BY <1>5, <3>1, SumSplit
  <2>5. PICK c \in Nat : c = Cost(f)
    <3>1. PICK k \in Nat : Cost(f) = 10 * k
      BY CostIsNat
    <3>2. Cost(f) \in Nat
      BY <3>1
    <3> QED
      BY <3>2
  <2>6. SumFunction(e) \in Nat
    BY <1>5, SumNat
  <2>7. PICK p \in Nat : p = SumFunction(e)
    BY <2>6
  <2>8. Penalty(fs, d) = p
    BY <1>6, <2>7
  <2>9. Penalty(gs, d) = c + p
    BY <1>6, <2>1, <2>4, <2>5, <2>7
  <2>10. Penalty(gs, d) = p + c
    BY <2>9
  <2> QED
    BY <1>8, <2>5, <2>8, <2>10
<1>9. CASE d # f.dim
  <2>1. T = R
    BY <1>1, <1>2, <1>3, <1>9 DEF In
  <2>2. \A i \in R : e[i] = g[i]
    BY <1>1, <1>4, <1>7, <2>1
  <2>3. e = g
    BY <1>4, <2>1, <2>2
  <2>4. SumFunction(e) \in Nat
    BY <1>5, SumNat
  <2> QED
    BY <1>6, <1>9, <2>3, <2>4
<1> QED
  BY <1>8, <1>9

(* What one finding costs each dimension.                                  *)
LEMMA PenaltiesAppend ==
  ASSUME NEW fs \in Seq(Candidate), NEW f \in Candidate, NEW gs, OneMore(gs, fs, f),
         NEW k \in Nat, Cost(f) = 10 * k, NEW d
  PROVE  \E p \in Nat, c \in Nat :
           /\ c = IF d = f.dim THEN k ELSE 0
           /\ Penalty(fs, d) = p /\ Penalty(gs, d) = p + 10 * c
<1>1. /\ d = f.dim => Penalty(gs, d) = Penalty(fs, d) + Cost(f)
      /\ d # f.dim => Penalty(gs, d) = Penalty(fs, d)
  BY PenaltyAppend
<1>2. Penalty(fs, d) \in Nat
  BY PenaltyIsNat
<1>3. PICK p \in Nat : p = Penalty(fs, d)
  BY <1>2
<1>4. CASE d = f.dim
  <2>1. Penalty(gs, d) = p + 10 * k
    BY <1>1, <1>3, <1>4
  <2> QED
    BY <1>3, <1>4, <2>1
<1>5. CASE d # f.dim
  <2>1. Penalty(gs, d) = p + 10 * 0
    BY <1>1, <1>3, <1>5
  <2> QED
    BY <1>3, <1>5, <2>1
<1> QED
  BY <1>4, <1>5

(* A dimension's own row falls by the cost until it is at zero.            *)
LEMMA ScoreFalls ==
  ASSUME NEW fs \in Seq(Candidate), NEW f \in Candidate, NEW gs, OneMore(gs, fs, f),
         NEW k \in Nat, Cost(f) = 10 * k, NEW d
  PROVE  /\ Score(fs, d) \in Nat /\ Score(gs, d) \in Nat
         /\ Score(gs, d) <= Score(fs, d)
         /\ d # f.dim => Score(gs, d) = Score(fs, d)
         /\ Score(fs, d) - 10 * k <= Score(gs, d)
         /\ d = f.dim => Score(gs, d) = Score(fs, d) - 10 * k \/ Score(gs, d) = 0
<1>1. PICK p \in Nat, c \in Nat :
        /\ c = IF d = f.dim THEN k ELSE 0
        /\ Penalty(fs, d) = p /\ Penalty(gs, d) = p + 10 * c
  BY PenaltiesAppend
<1>2. c <= k /\ (d # f.dim => c = 0) /\ (d = f.dim => c = k)
  BY <1>1
<1>3. Score(fs, d) = Clamp(100000 - p) /\ Score(gs, d) = Clamp(100000 - (p + 10 * c))
  BY <1>1 DEF Score, Start
<1> QED
  BY <1>2, <1>3 DEF Clamp, Start

(* The derived rows fall by six and by eight tenths of it.                 *)
LEMMA DebtRowsFall ==
  ASSUME NEW fs \in Seq(Candidate), NEW f \in Candidate, NEW gs, OneMore(gs, fs, f),
         NEW k \in Nat, Cost(f) = 10 * k
  PROVE  /\ Maintainability(fs) \in Nat /\ Maintainability(gs) \in Nat
         /\ Maintainability(gs) <= Maintainability(fs)
         /\ Maintainability(fs) - 6 * k <= Maintainability(gs)
         /\ IF f.dim \in {"architecture", "documentation", "testing", "devops"}
              THEN Maintainability(gs) = Maintainability(fs) - 6 * k \/ Maintainability(gs) = 0
              ELSE Maintainability(gs) = Maintainability(fs)
         /\ TechDebt(fs) \in Nat /\ TechDebt(gs) \in Nat
         /\ TechDebt(gs) <= TechDebt(fs)
         /\ TechDebt(fs) - 8 * k <= TechDebt(gs)
         /\ IF f.dim \in {"architecture", "testing", "devops"}
              THEN TechDebt(gs) = TechDebt(fs) - 8 * k \/ TechDebt(gs) = 0
              ELSE TechDebt(gs) = TechDebt(fs)
<1>0. PICK po \in Nat, ko \in Nat :
        /\ ko = IF "devops" = f.dim THEN k ELSE 0
        /\ Penalty(fs, "devops") = po /\ Penalty(gs, "devops") = po + 10 * ko
  BY PenaltiesAppend
<1>1. PICK pa \in Nat, ka \in Nat :
        /\ ka = IF "architecture" = f.dim THEN k ELSE 0
        /\ Penalty(fs, "architecture") = pa /\ Penalty(gs, "architecture") = pa + 10 * ka
  BY PenaltiesAppend
<1>2. PICK pd \in Nat, kd \in Nat :
        /\ kd = IF "documentation" = f.dim THEN k ELSE 0
        /\ Penalty(fs, "documentation") = pd /\ Penalty(gs, "documentation") = pd + 10 * kd
  BY PenaltiesAppend
<1>3. PICK pt \in Nat, kt \in Nat :
        /\ kt = IF "testing" = f.dim THEN k ELSE 0
        /\ Penalty(fs, "testing") = pt /\ Penalty(gs, "testing") = pt + 10 * kt
  BY PenaltiesAppend
<1>4. PICK m \in Nat, t \in Nat :
        /\ m = (6 * (pa + pd + pt + po)) \div 10 /\ t = (8 * (pa + pt + po)) \div 10
  OBVIOUS
<1>5. PICK x \in Nat, y \in Nat : x = 6 * (ka + kd + kt + ko) /\ y = 8 * (ka + kt + ko)
  OBVIOUS
<1>6. /\ (6 * ((pa + 10 * ka) + (pd + 10 * kd) + (pt + 10 * kt) + (po + 10 * ko))) \div 10 = m + x
      /\ (8 * ((pa + 10 * ka) + (pt + 10 * kt) + (po + 10 * ko))) \div 10 = t + y
  BY <1>4, <1>5
<1>7. /\ Maintainability(fs) = Clamp(100000 - m) /\ TechDebt(fs) = Clamp(100000 - t)
      /\ Maintainability(gs) = Clamp(100000 - (m + x)) /\ TechDebt(gs) = Clamp(100000 - (t + y))
  <2> DEFINE debt(s) == (6 * (Penalty(s, "architecture") + Penalty(s, "documentation")
                              + Penalty(s, "testing") + Penalty(s, "devops"))) \div 10
             tech(s) == (8 * (Penalty(s, "architecture") + Penalty(s, "testing")
                              + Penalty(s, "devops"))) \div 10
  <2>1. \A s : Maintainability(s) = Clamp(100000 - debt(s)) /\ TechDebt(s) = Clamp(100000 - tech(s))
    BY DEF Maintainability, TechDebt, Start
  <2>2. debt(fs) = m /\ tech(fs) = t
    BY <1>0, <1>1, <1>2, <1>3, <1>4
  <2>3. debt(gs) = m + x /\ tech(gs) = t + y
    BY <1>0, <1>1, <1>2, <1>3, <1>6
  <2> HIDE DEF debt, tech
  <2> QED
    BY <2>1, <2>2, <2>3
<1>8. /\ x = IF f.dim \in {"architecture", "documentation", "testing", "devops"} THEN 6 * k ELSE 0
      /\ y = IF f.dim \in {"architecture", "testing", "devops"} THEN 8 * k ELSE 0
  BY <1>0, <1>1, <1>2, <1>3, <1>5
<1>9. /\ Maintainability(fs) \in Nat /\ Maintainability(gs) \in Nat
      /\ Maintainability(gs) <= Maintainability(fs)
      /\ Maintainability(fs) - x <= Maintainability(gs)
      /\ Maintainability(gs) = Maintainability(fs) - x \/ Maintainability(gs) = 0
      /\ x = 0 => Maintainability(gs) = Maintainability(fs)
  BY <1>7 DEF Clamp, Start
<1>10. /\ TechDebt(fs) \in Nat /\ TechDebt(gs) \in Nat
       /\ TechDebt(gs) <= TechDebt(fs)
       /\ TechDebt(fs) - y <= TechDebt(gs)
       /\ TechDebt(gs) = TechDebt(fs) - y \/ TechDebt(gs) = 0
       /\ y = 0 => TechDebt(gs) = TechDebt(fs)
  BY <1>7 DEF Clamp, Start
<1>11. /\ Maintainability(fs) - 6 * k <= Maintainability(gs)
       /\ IF f.dim \in {"architecture", "documentation", "testing", "devops"}
            THEN Maintainability(gs) = Maintainability(fs) - 6 * k \/ Maintainability(gs) = 0
            ELSE Maintainability(gs) = Maintainability(fs)
  BY <1>8, <1>9
<1>12. /\ TechDebt(fs) - 8 * k <= TechDebt(gs)
       /\ IF f.dim \in {"architecture", "testing", "devops"}
            THEN TechDebt(gs) = TechDebt(fs) - 8 * k \/ TechDebt(gs) = 0
            ELSE TechDebt(gs) = TechDebt(fs)
  BY <1>8, <1>10
<1> QED
  BY <1>9, <1>10, <1>11, <1>12

(* What rounding to a tenth of u units does: the result is within half a   *)
(* tenth, and rounding keeps an order.                                     *)
LEMMA RoundedIsNear ==
  ASSUME NEW u \in {100, 10000}, NEW x \in Nat
  PROVE  /\ Rounded(x, u) \in Nat
         /\ 2 * Rounded(x, u) * u <= 2 * x + u /\ 2 * x <= 2 * Rounded(x, u) * u + u
<1> DEFINE near(t) == 2 * t * u <= 2 * x + u /\ 2 * x <= 2 * t * u + u
<1>1. ASSUME u = 100 PROVE \E t \in {x \div u, x \div u + 1} : near(t)
  <2>1. PICK q \in Nat : q = x \div 100 /\ 100 * q <= x /\ x < 100 * q + 100
    OBVIOUS
  <2>2. CASE 2 * (x - 100 * q) <= 100
    <3>1. 2 * q * 100 <= 2 * x + 100 /\ 2 * x <= 2 * q * 100 + 100
      BY <2>1, <2>2
    <3> QED
      BY <1>1, <2>1, <3>1
  <2>3. CASE 2 * (x - 100 * q) > 100
    <3>1. 2 * (q + 1) * 100 <= 2 * x + 100 /\ 2 * x <= 2 * (q + 1) * 100 + 100
      BY <2>1, <2>3
    <3> QED
      BY <1>1, <2>1, <3>1
  <2> QED
    BY <2>1, <2>2, <2>3
<1>2. ASSUME u = 10000 PROVE \E t \in {x \div u, x \div u + 1} : near(t)
  <2>1. PICK q \in Nat : q = x \div 10000 /\ 10000 * q <= x /\ x < 10000 * q + 10000
    OBVIOUS
  <2>2. CASE 2 * (x - 10000 * q) <= 10000
    <3>1. 2 * q * 10000 <= 2 * x + 10000 /\ 2 * x <= 2 * q * 10000 + 10000
      BY <2>1, <2>2
    <3> QED
      BY <1>2, <2>1, <3>1
  <2>3. CASE 2 * (x - 10000 * q) > 10000
    <3>1. 2 * (q + 1) * 10000 <= 2 * x + 10000 /\ 2 * x <= 2 * (q + 1) * 10000 + 10000
      BY <2>1, <2>3
    <3> QED
      BY <1>2, <2>1, <3>1
  <2> QED
    BY <2>1, <2>2, <2>3
<1>3. Rounded(x, u) \in {x \div u, x \div u + 1} /\ near(Rounded(x, u))
  <2>1. Rounded(x, u) = CHOOSE t \in {x \div u, x \div u + 1} : near(t)
    BY DEF Rounded
  <2>2. \E t \in {x \div u, x \div u + 1} : near(t)
    BY <1>1, <1>2
  <2> HIDE DEF near
  <2> QED
    BY <2>1, <2>2
<1>4. x \div u \in Nat
  <2>1. CASE u = 100
    BY <2>1
  <2>2. CASE u = 10000
    BY <2>2
  <2> QED
    BY <2>1, <2>2
<1> QED
  BY <1>3, <1>4

LEMMA RoundedKeepsOrder ==
  ASSUME NEW u \in {100, 10000}, NEW x \in Nat, NEW y \in Nat, y <= x
  PROVE  Rounded(y, u) <= Rounded(x, u)
<1>0. /\ Rounded(x, u) \in Nat
      /\ 2 * Rounded(x, u) * u <= 2 * x + u /\ 2 * x <= 2 * Rounded(x, u) * u + u
  BY RoundedIsNear
<1>1. /\ Rounded(y, u) \in Nat
      /\ 2 * Rounded(y, u) * u <= 2 * y + u /\ 2 * y <= 2 * Rounded(y, u) * u + u
  BY RoundedIsNear
<1>2. PICK s \in Nat, t \in Nat : s = Rounded(y, u) /\ t = Rounded(x, u)
  BY <1>0, <1>1
<1>3. CASE y = x
  BY <1>2, <1>3
<1>4. CASE y < x /\ u = 100
  <2>1. /\ 2 * s * 100 <= 2 * y + 100 /\ 2 * y <= 2 * s * 100 + 100
        /\ 2 * t * 100 <= 2 * x + 100 /\ 2 * x <= 2 * t * 100 + 100
    BY <1>0, <1>1, <1>2, <1>4
  <2> QED
    BY <1>2, <1>4, <2>1
<1>5. CASE y < x /\ u = 10000
  <2>1. /\ 2 * s * 10000 <= 2 * y + 10000 /\ 2 * y <= 2 * s * 10000 + 10000
        /\ 2 * t * 10000 <= 2 * x + 10000 /\ 2 * x <= 2 * t * 10000 + 10000
    BY <1>0, <1>1, <1>2, <1>5
  <2> QED
    BY <1>2, <1>5, <2>1
<1> QED
  BY <1>3, <1>4, <1>5

(* The rows that are returned.                                             *)
LEMMA RowsFall ==
  ASSUME NEW fs \in Seq(Candidate), NEW f \in Candidate, NEW gs, OneMore(gs, fs, f)
  PROVE  /\ \A row \in DOMAIN Scores(fs) \ {"overall"} : Scores(gs)[row] <= Scores(fs)[row]
         /\ \A row \in Unrelated(f.dim) : Scores(gs)[row] = Scores(fs)[row]
<1>1. PICK k \in Nat : Cost(f) = 10 * k
  BY CostIsNat
<1>2. \A d : /\ Score(fs, d) \in Nat /\ Score(gs, d) \in Nat /\ Score(gs, d) <= Score(fs, d)
             /\ d # f.dim => Score(gs, d) = Score(fs, d)
  BY <1>1, ScoreFalls
<1>3. \A d : /\ Rounded(Score(gs, d), 100) <= Rounded(Score(fs, d), 100)
             /\ d # f.dim => Rounded(Score(gs, d), 100) = Rounded(Score(fs, d), 100)
  BY <1>2, RoundedKeepsOrder
<1>4. /\ Maintainability(fs) \in Nat /\ Maintainability(gs) \in Nat
      /\ Maintainability(gs) <= Maintainability(fs)
      /\ f.dim \notin {"architecture", "documentation", "testing", "devops"}
           => Maintainability(gs) = Maintainability(fs)
      /\ TechDebt(fs) \in Nat /\ TechDebt(gs) \in Nat
      /\ TechDebt(gs) <= TechDebt(fs)
      /\ f.dim \notin {"architecture", "testing", "devops"} => TechDebt(gs) = TechDebt(fs)
  BY <1>1, DebtRowsFall
<1>5. /\ Rounded(Maintainability(gs), 100) <= Rounded(Maintainability(fs), 100)
      /\ Rounded(TechDebt(gs), 100) <= Rounded(TechDebt(fs), 100)
  BY <1>4, RoundedKeepsOrder
<1>6. ASSUME NEW row \in DOMAIN Scores(fs) \ {"overall"} PROVE Scores(gs)[row] <= Scores(fs)[row]
  BY <1>3, <1>5 DEF Scores
<1>7. ASSUME NEW row \in Unrelated(f.dim) PROVE Scores(gs)[row] = Scores(fs)[row]
  <2>1. CASE row \in {"security", "architecture", "performance", "documentation"}
    <3>1. row # f.dim
      BY <1>7, <2>1 DEF Unrelated
    <3> QED
      BY <1>3, <2>1, <3>1 DEF Scores
  <2>2. CASE row = "maintainability"
    <3>1. f.dim \notin {"architecture", "documentation", "testing", "devops"}
      BY <1>7, <2>2 DEF Unrelated
    <3> QED
      BY <1>4, <2>2, <3>1 DEF Scores
  <2>3. CASE row = "tech_debt"
    <3>1. f.dim \notin {"architecture", "testing", "devops"}
      BY <1>7, <2>3 DEF Unrelated
    <3> QED
      BY <1>4, <2>3, <3>1 DEF Scores
  <2> QED
    BY <1>7, <2>1, <2>2, <2>3 DEF Unrelated
<1> QED
  BY <1>6, <1>7

(* The blend falls by at most the price, and by no less unless a row that  *)
(* counts the finding ends at zero.                                        *)
LEMMA BlendFalls ==
  ASSUME NEW fs \in Seq(Candidate), NEW f \in Candidate, NEW gs, OneMore(gs, fs, f)
  PROVE  /\ Blend(fs) \in Nat /\ Blend(gs) \in Nat /\ Price(f) \in Nat
         /\ Blend(gs) <= Blend(fs)
         /\ Blend(fs) - Blend(gs) <= Price(f)
         /\ Blend(fs) - Blend(gs) = Price(f) \/ Exhausted(gs, f.dim)
<1>1. PICK k \in Nat : Cost(f) = 10 * k
  BY CostIsNat
<1>2. \A d : /\ Score(fs, d) \in Nat /\ Score(gs, d) \in Nat
             /\ Score(gs, d) <= Score(fs, d)
             /\ d # f.dim => Score(gs, d) = Score(fs, d)
             /\ Score(fs, d) - 10 * k <= Score(gs, d)
             /\ d = f.dim => Score(gs, d) = Score(fs, d) - 10 * k \/ Score(gs, d) = 0
  BY <1>1, ScoreFalls
<1>3. /\ Maintainability(fs) \in Nat /\ Maintainability(gs) \in Nat
      /\ Maintainability(gs) <= Maintainability(fs)
      /\ Maintainability(fs) - 6 * k <= Maintainability(gs)
      /\ IF f.dim \in {"architecture", "documentation", "testing", "devops"}
           THEN Maintainability(gs) = Maintainability(fs) - 6 * k \/ Maintainability(gs) = 0
           ELSE Maintainability(gs) = Maintainability(fs)
      /\ TechDebt(fs) \in Nat /\ TechDebt(gs) \in Nat
      /\ TechDebt(gs) <= TechDebt(fs)
      /\ TechDebt(fs) - 8 * k <= TechDebt(gs)
      /\ IF f.dim \in {"architecture", "testing", "devops"}
           THEN TechDebt(gs) = TechDebt(fs) - 8 * k \/ TechDebt(gs) = 0
           ELSE TechDebt(gs) = TechDebt(fs)
  BY <1>1, DebtRowsFall
<1>4. PICK se \in Nat, co \in Nat, ar \in Nat, pe \in Nat, ma \in Nat, te \in Nat,
           dc \in Nat, ac \in Nat :
        /\ se = Score(fs, "security") /\ co = Score(fs, "correctness")
        /\ ar = Score(fs, "architecture") /\ pe = Score(fs, "performance")
        /\ ma = Maintainability(fs) /\ te = TechDebt(fs)
        /\ dc = Score(fs, "documentation") /\ ac = Score(fs, "accessibility")
  BY <1>2, <1>3
<1>5. PICK tse \in Nat, tco \in Nat, tar \in Nat, tpe \in Nat, tma \in Nat, tte \in Nat,
           tdc \in Nat, tac \in Nat :
        /\ tse = Score(gs, "security") /\ tco = Score(gs, "correctness")
        /\ tar = Score(gs, "architecture") /\ tpe = Score(gs, "performance")
        /\ tma = Maintainability(gs) /\ tte = TechDebt(gs)
        /\ tdc = Score(gs, "documentation") /\ tac = Score(gs, "accessibility")
  BY <1>2, <1>3
<1>6. /\ Blend(fs) = 28 * se + 18 * co + 12 * ar + 12 * pe + 12 * ma + 10 * te + 5 * dc + 3 * ac
      /\ Blend(gs) = 28 * tse + 18 * tco + 12 * tar + 12 * tpe + 12 * tma + 10 * tte + 5 * tdc
                      + 3 * tac
  BY <1>4, <1>5 DEF Blend
<1>7. /\ tse <= se /\ tco <= co /\ tar <= ar /\ tpe <= pe /\ tma <= ma /\ tte <= te
      /\ tdc <= dc /\ tac <= ac
  BY <1>2, <1>3, <1>4, <1>5
<1>8. f.dim \in Dimension
  BY CandidateIsFinding DEF Finding
<1>9. CASE f.dim = "security"
  <2>1. Price(f) = 280 * k
    BY <1>1, <1>9 DEF Price, Share
  <2>2. tco = co /\ tar = ar /\ tpe = pe /\ tdc = dc /\ tac = ac /\ tma = ma /\ tte = te
    BY <1>2, <1>3, <1>4, <1>5, <1>9
  <2>3. /\ se - 10 * k <= tse
        /\ tse = se - 10 * k \/ tse = 0
    BY <1>2, <1>3, <1>4, <1>5, <1>9
  <2>4. Exhausted(gs, f.dim) <=> tse = 0
    BY <1>5, <1>9 DEF Exhausted
  <2> QED
    BY <1>6, <1>7, <2>1, <2>2, <2>3, <2>4
<1>10. CASE f.dim = "correctness"
  <2>1. Price(f) = 180 * k
    BY <1>1, <1>10 DEF Price, Share
  <2>2. tse = se /\ tar = ar /\ tpe = pe /\ tdc = dc /\ tac = ac /\ tma = ma /\ tte = te
    BY <1>2, <1>3, <1>4, <1>5, <1>10
  <2>3. /\ co - 10 * k <= tco
        /\ tco = co - 10 * k \/ tco = 0
    BY <1>2, <1>3, <1>4, <1>5, <1>10
  <2>4. Exhausted(gs, f.dim) <=> tco = 0
    BY <1>5, <1>10 DEF Exhausted
  <2> QED
    BY <1>6, <1>7, <2>1, <2>2, <2>3, <2>4
<1>11. CASE f.dim = "architecture"
  <2>1. Price(f) = 272 * k
    BY <1>1, <1>11 DEF Price, Share
  <2>2. tse = se /\ tco = co /\ tpe = pe /\ tdc = dc /\ tac = ac
    BY <1>2, <1>3, <1>4, <1>5, <1>11
  <2>3. /\ ar - 10 * k <= tar
        /\ tar = ar - 10 * k \/ tar = 0
        /\ ma - 6 * k <= tma
        /\ tma = ma - 6 * k \/ tma = 0
        /\ te - 8 * k <= tte
        /\ tte = te - 8 * k \/ tte = 0
    BY <1>2, <1>3, <1>4, <1>5, <1>11
  <2>4. Exhausted(gs, f.dim) <=> tar = 0 \/ tma = 0 \/ tte = 0
    BY <1>5, <1>11 DEF Exhausted
  <2> QED
    BY <1>6, <1>7, <2>1, <2>2, <2>3, <2>4
<1>12. CASE f.dim = "performance"
  <2>1. Price(f) = 120 * k
    BY <1>1, <1>12 DEF Price, Share
  <2>2. tse = se /\ tco = co /\ tar = ar /\ tdc = dc /\ tac = ac /\ tma = ma /\ tte = te
    BY <1>2, <1>3, <1>4, <1>5, <1>12
  <2>3. /\ pe - 10 * k <= tpe
        /\ tpe = pe - 10 * k \/ tpe = 0
    BY <1>2, <1>3, <1>4, <1>5, <1>12
  <2>4. Exhausted(gs, f.dim) <=> tpe = 0
    BY <1>5, <1>12 DEF Exhausted
  <2> QED
    BY <1>6, <1>7, <2>1, <2>2, <2>3, <2>4
<1>13. CASE f.dim = "documentation"
  <2>1. Price(f) = 122 * k
    BY <1>1, <1>13 DEF Price, Share
  <2>2. tse = se /\ tco = co /\ tar = ar /\ tpe = pe /\ tac = ac /\ tte = te
    BY <1>2, <1>3, <1>4, <1>5, <1>13
  <2>3. /\ dc - 10 * k <= tdc
        /\ tdc = dc - 10 * k \/ tdc = 0
        /\ ma - 6 * k <= tma
        /\ tma = ma - 6 * k \/ tma = 0
    BY <1>2, <1>3, <1>4, <1>5, <1>13
  <2>4. Exhausted(gs, f.dim) <=> tdc = 0 \/ tma = 0
    BY <1>5, <1>13 DEF Exhausted
  <2> QED
    BY <1>6, <1>7, <2>1, <2>2, <2>3, <2>4
<1>14. CASE f.dim = "testing"
  <2>1. Price(f) = 152 * k
    BY <1>1, <1>14 DEF Price, Share
  <2>2. tse = se /\ tco = co /\ tar = ar /\ tpe = pe /\ tdc = dc /\ tac = ac
    BY <1>2, <1>3, <1>4, <1>5, <1>14
  <2>3. /\ ma - 6 * k <= tma
        /\ tma = ma - 6 * k \/ tma = 0
        /\ te - 8 * k <= tte
        /\ tte = te - 8 * k \/ tte = 0
    BY <1>2, <1>3, <1>4, <1>5, <1>14
  <2>4. Exhausted(gs, f.dim) <=> tma = 0 \/ tte = 0
    BY <1>5, <1>14 DEF Exhausted
  <2> QED
    BY <1>6, <1>7, <2>1, <2>2, <2>3, <2>4
<1>15. CASE f.dim = "devops"
  <2>1. Price(f) = 152 * k
    BY <1>1, <1>15 DEF Price, Share
  <2>2. tse = se /\ tco = co /\ tar = ar /\ tpe = pe /\ tdc = dc /\ tac = ac
    BY <1>2, <1>3, <1>4, <1>5, <1>15
  <2>3. /\ ma - 6 * k <= tma
        /\ tma = ma - 6 * k \/ tma = 0
        /\ te - 8 * k <= tte
        /\ tte = te - 8 * k \/ tte = 0
    BY <1>2, <1>3, <1>4, <1>5, <1>15
  <2>4. Exhausted(gs, f.dim) <=> tma = 0 \/ tte = 0
    BY <1>5, <1>15 DEF Exhausted
  <2> QED
    BY <1>6, <1>7, <2>1, <2>2, <2>3, <2>4
<1>16. CASE f.dim = "accessibility"
  <2>1. Price(f) = 30 * k
    BY <1>1, <1>16 DEF Price, Share
  <2>2. tse = se /\ tco = co /\ tar = ar /\ tpe = pe /\ tdc = dc /\ tma = ma /\ tte = te
    BY <1>2, <1>3, <1>4, <1>5, <1>16
  <2>3. /\ ac - 10 * k <= tac
        /\ tac = ac - 10 * k \/ tac = 0
    BY <1>2, <1>3, <1>4, <1>5, <1>16
  <2>4. Exhausted(gs, f.dim) <=> tac = 0
    BY <1>5, <1>16 DEF Exhausted
  <2> QED
    BY <1>6, <1>7, <2>1, <2>2, <2>3, <2>4
<1> QED
  BY <1>8, <1>9, <1>10, <1>11, <1>12, <1>13, <1>14, <1>15, <1>16 DEF Dimension

(* No row rises, no row of another dimension moves, and the overall score  *)
(* falls by the price of the finding, give or take a tenth of a point,     *)
(* until a row that counts it is exhausted: in reviews of any length.      *)
THEOREM FindingsCost == Spec => EveryFindingCosts
<1>1. ASSUME VInv, NEW f \in Candidate, findings' = Append(findings, f)
      PROVE  LET before == Scores(findings)
                 after  == Scores(findings')
                 drop   == (before.overall - after.overall) * Tenth
             IN  /\ \A row \in DOMAIN before : after[row] <= before[row]
                 /\ \A row \in Unrelated(f.dim) : after[row] = before[row]
                 /\ drop <= Price(f) + Tenth
                 /\ drop >= Price(f) - Tenth \/ Exhausted(findings', f.dim)
  <2>1. PICK fs, gs : fs = findings /\ gs = findings' /\ OneMore(gs, fs, f) /\ fs \in Seq(Candidate)
    BY <1>1 DEF VInv, TypeOK, OneMore
  <2>2. /\ \A row \in DOMAIN Scores(fs) \ {"overall"} : Scores(gs)[row] <= Scores(fs)[row]
        /\ \A row \in Unrelated(f.dim) : Scores(gs)[row] = Scores(fs)[row]
    BY <2>1, RowsFall
  <2>3. PICK x \in Nat, y \in Nat, p \in Nat :
          /\ x = Blend(fs) /\ y = Blend(gs) /\ p = Price(f)
          /\ y <= x /\ x - y <= p
          /\ x - y = p \/ Exhausted(gs, f.dim)
    BY <2>1, BlendFalls
  <2>4. PICK s \in Nat, t \in Nat :
          /\ s = Rounded(x, 10000) /\ t = Rounded(y, 10000)
          /\ 2 * s * 10000 <= 2 * x + 10000 /\ 2 * x <= 2 * s * 10000 + 10000
          /\ 2 * t * 10000 <= 2 * y + 10000 /\ 2 * y <= 2 * t * 10000 + 10000
    <3>1. /\ Rounded(x, 10000) \in Nat /\ Rounded(y, 10000) \in Nat
          /\ 2 * Rounded(x, 10000) * 10000 <= 2 * x + 10000
          /\ 2 * x <= 2 * Rounded(x, 10000) * 10000 + 10000
          /\ 2 * Rounded(y, 10000) * 10000 <= 2 * y + 10000
          /\ 2 * y <= 2 * Rounded(y, 10000) * 10000 + 10000
      BY RoundedIsNear
    <3> QED
      BY <3>1
  <2>6. t <= s
    BY <2>3, <2>4, RoundedKeepsOrder
  <2>7. Scores(fs).overall = s /\ Scores(gs).overall = t
    BY <2>3, <2>4 DEF Scores, Overall, Tenth
  <2>8. \A row \in DOMAIN Scores(fs) : Scores(gs)[row] <= Scores(fs)[row]
    BY <2>2, <2>6, <2>7
  <2>9. /\ (s - t) * 10000 <= p + 10000
        /\ (s - t) * 10000 >= p - 10000 \/ Exhausted(gs, f.dim)
    BY <2>3, <2>4
  <2> QED
    BY <2>1, <2>2, <2>3, <2>7, <2>8, <2>9 DEF Tenth
<1>2. VInv => CostsPoints
  BY <1>1 DEF CostsPoints
<1> QED
  BY VerdictInvHolds, <1>2, PTL DEF Spec, EveryFindingCosts
=============================================================================
