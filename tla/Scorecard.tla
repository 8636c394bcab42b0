----------------------------- MODULE Scorecard ------------------------------
(***************************************************************************)
(* build_scorecard (review/scoring.py): penalties and unrounded rows in    *)
(* thousandths of a point, the blend in hundred-thousandths, and what is   *)
(* returned in tenths of a point.                                          *)
(***************************************************************************)
EXTENDS Findings, Functions

Start == 100000

(* Severity weight times confidence, at least 0.1.                         *)
Cost(f) == SeverityWeight[f.sev] * (IF f.conf < 10 THEN 10 ELSE f.conf) * 10

In(fs, dim) == {i \in DOMAIN fs : fs[i].dim = dim}

(* Mutant of Penalty: findings of the same cost count once.                *)
PenaltyOfDistinct(fs, dim) == SumFunction([c \in {Cost(fs[i]) : i \in In(fs, dim)} |-> c])

Penalty(fs, dim) == SumFunction([i \in In(fs, dim) |-> Cost(fs[i])])

Clamp(x) == IF x < 0 THEN 0 ELSE IF x > Start THEN Start ELSE x

Score(fs, dim) == Clamp(Start - Penalty(fs, dim))

Maintainability(fs) ==
  Clamp(Start - (6 * (Penalty(fs, "architecture") + Penalty(fs, "documentation")
                      + Penalty(fs, "testing") + Penalty(fs, "devops"))) \div 10)

TechDebt(fs) ==
  Clamp(Start - (8 * (Penalty(fs, "architecture") + Penalty(fs, "testing")
                      + Penalty(fs, "devops"))) \div 10)

(* The weighted blend of the rows, before it is rounded.                   *)
Blend(fs) ==
  28 * Score(fs, "security") + 18 * Score(fs, "correctness")
    + 12 * Score(fs, "architecture") + 12 * Score(fs, "performance")
    + 12 * Maintainability(fs) + 10 * TechDebt(fs)
    + 5 * Score(fs, "documentation") + 3 * Score(fs, "accessibility")

(* round(x, 1) of an x counted in units, u of them to a tenth.  Which      *)
(* neighbour of a tie is nearer is decided by x's floating point: any one. *)
Rounded(x, u) ==
  CHOOSE t \in {x \div u, x \div u + 1} : 2 * t * u <= 2 * x + u /\ 2 * x <= 2 * t * u + u

Tenth == 10000   \* of the blend's units; a row has 100 to a tenth

Overall(fs) == Rounded(Blend(fs), Tenth)

Scores(fs) ==
  [security |-> Rounded(Score(fs, "security"), 100),
   architecture |-> Rounded(Score(fs, "architecture"), 100),
   performance |-> Rounded(Score(fs, "performance"), 100),
   documentation |-> Rounded(Score(fs, "documentation"), 100),
   maintainability |-> Rounded(Maintainability(fs), 100),
   tech_debt |-> Rounded(TechDebt(fs), 100),
   overall |-> Overall(fs)]
=============================================================================
