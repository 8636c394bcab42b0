----------------------------- MODULE MCVerdict ------------------------------
(* Findings the agents really report, for TLC. *)
EXTENDS Verdict

CONSTANTS line, file, nowhere

F(agent, dim, cat, sev, conf, src, place) ==
  [agent |-> agent, dim |-> dim, cat |-> cat, sev |-> sev, conf |-> conf, src |-> src, place |-> place]

(* Rules of every gate, and model findings that meet them on their line.   *)
Reports ==
  {F("security", "security", "hardcoded-secret", "critical", 97, "deterministic", line),
   F("security", "security", "hardcoded-secret", "critical", 90, "llm", line),
   F("security", "security", "sql-injection", "high", 90, "deterministic", line),
   F("security", "security", "sql-injection", "critical", 30, "llm", line),
   F("architecture", "architecture", "broad-except", "medium", 90, "deterministic", line),
   F("architecture", "architecture", "broad-except", "medium", 90, "llm", line),
   F("testing", "testing", "missing-tests", "medium", 70, "deterministic", line),
   F("documentation", "documentation", "missing-docstring", "low", 70, "deterministic", line),
   F("memory", "correctness", "regression-risk", "medium", 80, "deterministic", file),
   F("ai_reviewer", "correctness", "regression-risk", "medium", 60, "llm", file),
   F("memory", "architecture", "blast-radius", "info", 90, "deterministic", nowhere)}

(* Nine leaked secrets exhaust the security row; a tenth finding follows.  *)
Leaks == {f \in Reports : Secret(f)}

(* One rule's finding, and the model's on the same line.                   *)
RuleAndModel ==
  {F("architecture", "architecture", "broad-except", "medium", 90, "deterministic", line),
   F("architecture", "architecture", "broad-except", "high", 30, "llm", line)}

Names == {"security", "architecture", "testing", "documentation", "memory", "ai_reviewer"}
Categories == {"hardcoded-secret", "sql-injection", "broad-except", "missing-tests",
               "missing-docstring", "regression-risk", "blast-radius"}
=============================================================================
