------------------------------ MODULE Findings ------------------------------
(***************************************************************************)
(* Findings as the agents report them (domain/findings.py).  Texts are     *)
(* left out; a place stands for file_path and line.  Confidences are in    *)
(* percent.                                                                *)
(***************************************************************************)
EXTENDS Integers, Sequences, FiniteSets

CONSTANTS
  AgentName,   \* agents that report findings
  Category,    \* categories of findings
  Place        \* (file_path, line) pairs, and the absent place

(* Severity.weight.                                                        *)
SeverityWeight == [info |-> 0, low |-> 1, medium |-> 3, high |-> 7, critical |-> 12]
Severity == DOMAIN SeverityWeight

Dimension == {"security", "architecture", "performance", "documentation", "testing",
              "devops", "accessibility", "correctness"}

Source == {"deterministic", "llm", "hybrid"}

Finding == [agent : AgentName, dim : Dimension, cat : Category, sev : Severity,
            conf : 0..100, src : Source, place : Place]

(* Same dimension, category and place: the same issue.                     *)
DedupeKey(f) == <<f.dim, f.cat, f.place>>
=============================================================================
