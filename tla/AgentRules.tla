------------------------------ MODULE AgentRules -------------------------------
(***************************************************************************)
(* What the rules of the agents (agents/*.py) report of a diff, what a     *)
(* parsed answer of the model adds, and what the repository's memory       *)
(* reports (memory/service.py).  A line of code is the set of what the     *)
(* regular expressions find in it, a rule is known by its category.        *)
(***************************************************************************)
EXTENDS Findings, Triage, SequencesExt

CONSTANTS
  Path,       \* paths of files
  LongLines,  \* _LONG_FUNCTION_LINES
  MaxItems    \* findings read from an answer of the model

ASSUME RulesAssumption == LongLines \in Nat /\ MaxItems \in Nat

NoPath == "no path"

(* A place is a path and a line, either of which may be absent.            *)
NoLine == 0

(* A file of a diff: its kind, its path, whether that is one of a test     *)
(* file, and its added lines.                                              *)
AddedLine == [n : Nat \ {0}, text : SUBSET STRING]
FileDiff == [lang : STRING, name : STRING, suffix : STRING, workflow : BOOLEAN,
             path : Path, test : BOOLEAN, added : Seq(AddedLine)]
KindOf(f) == [lang |-> f.lang, name |-> f.name, suffix |-> f.suffix, workflow |-> f.workflow]
IsDiff(diff) == diff \in Seq(FileDiff) /\ \A f \in DOMAIN diff : KindOf(diff[f]) \in Kind

Paths(diff) == {diff[f].path : f \in DOMAIN diff}

(* A finding of a's rules.                                                 *)
Report(a, category, severity, confidence, path, line) ==
  [agent |-> a, dim |-> DimensionOf[a], cat |-> category, sev |-> severity,
   conf |-> confidence, src |-> "deterministic", place |-> <<path, line>>]

(* What a loop over candidates appends for one of them.                    *)
Maybe(found, x) == IF found THEN <<x>> ELSE <<>>

Those(diff, Test(_)) == FlattenSeq([f \in DOMAIN diff |-> Maybe(Test(diff[f]), diff[f])])

-----------------------------------------------------------------------------
Script == {"javascript", "typescript", "html"}
Python == {"python"}

Rule(category, severity, languages) == [cat |-> category, sev |-> severity, langs |-> languages]

SecurityRules ==
  <<Rule("dangerous-eval", "high", Language), Rule("shell-injection", "high", Language),
    Rule("insecure-deserialization", "high", Language), Rule("sql-injection", "high", Language),
    Rule("weak-hash", "medium", Language), Rule("tls-verification-disabled", "high", Language),
    Rule("xss-innerhtml", "medium", Script), Rule("debug-enabled", "medium", Language)>>

ArchitectureRules ==
  <<Rule("wildcard-import", "low", Python), Rule("broad-except", "medium", Python),
    Rule("global-mutable-state", "medium", Python)>>

PerformanceRules ==
  <<Rule("select-star", "low", Language), Rule("blocking-io-in-async", "medium", Python),
    Rule("unbounded-readall", "low", Language)>>

DockerRules ==
  <<Rule("docker-unpinned-base", "medium", Language), Rule("docker-curl-pipe-sh", "high", Language)>>

InfraRules ==
  <<Rule("open-ingress", "high", Language), Rule("privileged-container", "high", Language)>>

AccessibilityRules ==
  <<Rule("img-missing-alt", "medium", Script), Rule("non-semantic-interactive", "low", Script),
    Rule("positive-tabindex", "low", Script)>>

(* _SECRET_PATTERNS of core/security/redaction.py, in order.               *)
SecretTypes ==
  <<"github_token", "github_pat", "openai_key", "anthropic_key", "aws_access_key",
    "google_api_key", "slack_token", "private_key_block", "jwt", "bearer", "url_credentials">>

(* scan_rules: every rule on every added line; no rule of an agent states  *)
(* a confidence of its own.                                                *)
ScanRules(diff, rules, a) ==
  LET OnLine(file, line) ==
        FlattenSeq([r \in DOMAIN rules |->
          Maybe(file.lang \in rules[r].langs /\ rules[r].cat \in line.text,
                Report(a, rules[r].cat, rules[r].sev, 90, file.path, line.n))])
      OnFile(file) == FlattenSeq([l \in DOMAIN file.added |-> OnLine(file, file.added[l])])
  IN FlattenSeq([f \in DOMAIN diff |-> OnFile(diff[f])])

(* _scan_secrets: one finding per type of secret on a line.                *)
ScanSecrets(diff) ==
  LET OnLine(file, line) ==
        FlattenSeq([t \in DOMAIN SecretTypes |->
          Maybe(SecretTypes[t] \in line.text,
                Report("security", "hardcoded-secret", "critical", 97, file.path, line.n))])
      OnFile(file) == FlattenSeq([l \in DOMAIN file.added |-> OnLine(file, file.added[l])])
  IN FlattenSeq([f \in DOMAIN diff |-> OnFile(diff[f])])

(* _long_functions.                                                        *)
LongFunctions(diff) ==
  LET Long(file) == /\ Len(file.added) > LongLines
                    /\ \E l \in DOMAIN file.added : "func-def" \in file.added[l].text
  IN FlattenSeq([f \in DOMAIN diff |->
       Maybe(Long(diff[f]),
             Report("architecture", "large-change-surface", "low", 60, diff[f].path, diff[f].added[1].n))])

(* Mutant of CircularDependencies: the finding is put at the cycle's first *)
(* file.                                                                   *)
CircularDependenciesAtHead(diff, context) ==
  [c \in DOMAIN context.cycles |->
    Report("architecture", "circular-dependency", "medium", 85, context.cycles[c][1], NoLine)]

(* _circular_dependencies: at the cycle's first file that is in the diff.  *)
CircularDependencies(diff, context) ==
  LET Touched(cycle) == {p \in DOMAIN cycle : cycle[p] \in Paths(diff)}
      Anchor(cycle) == cycle[IF Touched(cycle) = {} THEN 1 ELSE Min(Touched(cycle))]
  IN [c \in DOMAIN context.cycles |->
       Report("architecture", "circular-dependency", "medium", 85, Anchor(context.cycles[c]), NoLine)]

(* _detect_n_plus_one: per file, the first loop with a database call among *)
(* the eleven added lines after it, at the first such call.                *)
NPlusOne(diff) ==
  LET Calls(file, l) == {m \in DOMAIN file.added : m \in (l + 1)..(l + 11) /\ "db-call" \in file.added[m].text}
      Loops(file) == {l \in DOMAIN file.added : "loop" \in file.added[l].text /\ Calls(file, l) # {}}
      FirstCall(file) == Min(Calls(file, Min(Loops(file))))
  IN FlattenSeq([f \in DOMAIN diff |->
       Maybe(Loops(diff[f]) # {},
             Report("performance", "n-plus-one-query", "medium", 60, diff[f].path,
                    diff[f].added[FirstCall(diff[f])].n))])

(* _missing_docstrings: a public definition whose next added line that is  *)
(* not blank, of three, starts no docstring.                               *)
MissingDocstrings(diff) ==
  LET Next3(file, l) == {m \in DOMAIN file.added : m \in (l + 1)..(l + 3) /\ "blank" \notin file.added[m].text}
      Documented(file, l) == Next3(file, l) # {} /\ "docstring" \in file.added[Min(Next3(file, l))].text
      OnLine(file, l) ==
        Maybe(file.lang = "python" /\ "public-def" \in file.added[l].text /\ ~Documented(file, l),
              Report("documentation", "missing-docstring", "low", 70, file.path, file.added[l].n))
      OnFile(file) == FlattenSeq([l \in DOMAIN file.added |-> OnLine(file, l)])
  IN FlattenSeq([f \in DOMAIN diff |-> OnFile(diff[f])])

(* _CODE_EXT: the extensions of these languages.                           *)
IsProduction(f) ==
  ~f.test /\ f.lang \in {"python", "javascript", "typescript", "go", "ruby", "java", "rust"}

(* TestingAgent.run: production code without a test file.                  *)
MissingTests(diff) ==
  LET production == {f \in DOMAIN diff : IsProduction(diff[f])}
      first == diff[Min(production)]
  IN Maybe(production # {} /\ \A f \in DOMAIN diff : ~diff[f].test,
           Report("testing", "missing-tests", "medium", 70, first.path,
                  IF first.added = <<>> THEN NoLine ELSE first.added[1].n))

(* DevOpsAgent, whose Dockerfiles include those of the suffix.             *)
IsDockerfile(f) == f.name = "dockerfile" \/ f.suffix = "dockerfile"
IsDeployment(f) == f.lang \in {"yaml", "terraform"} \/ f.workflow \/ IsDockerfile(f)

DevOpsFindings(diff) ==
  ScanRules(Those(diff, IsDockerfile), DockerRules, "devops")
    \o ScanRules(Those(diff, IsDeployment), InfraRules, "devops")

(* What the rules of agent a report, up to its await of the model.         *)
RulesOf(a, diff, context) ==
  CASE a = "security" -> ScanRules(diff, SecurityRules, a) \o ScanSecrets(diff)
    [] a = "architecture" -> ScanRules(diff, ArchitectureRules, a) \o LongFunctions(diff)
                               \o CircularDependencies(diff, context)
    [] a = "performance" -> ScanRules(diff, PerformanceRules, a) \o NPlusOne(diff)
    [] a = "documentation" -> MissingDocstrings(diff)
    [] a = "testing" -> MissingTests(diff)
    [] a = "devops" -> DevOpsFindings(diff)
    [] a = "accessibility" -> ScanRules(diff, AccessibilityRules, a)
    [] a = "ai_reviewer" -> <<>>

-----------------------------------------------------------------------------
(* An answer of the model is its list of items; one that is no JSON, no    *)
(* dictionary, or has no list of findings reads as none.  valid: the item  *)
(* passes LLMFinding's validation.                                         *)
AnswerItem == [valid : BOOLEAN, cat : STRING, sev : STRING, conf : Nat, path : STRING, line : Nat]

Smaller(m, n) == IF m < n THEN m ELSE n

Located(diff, item) ==
  IF item.path \in Paths(diff) \cup {NoPath} THEN <<item.path, item.line>> ELSE <<NoPath, NoLine>>

(* _parse_llm_findings.                                                    *)
ParseAnswer(a, diff, items) ==
  LET Parsed(i) == [agent |-> a, dim |-> DimensionOf[a], cat |-> i.cat, sev |-> i.sev,
                    conf |-> Smaller(i.conf, 90), src |-> "llm", place |-> Located(diff, i)]
      first == SubSeq(items, 1, Smaller(MaxItems, Len(items)))
  IN FlattenSeq([i \in DOMAIN first |-> Maybe(first[i].valid, Parsed(first[i]))])

-----------------------------------------------------------------------------
(* MemoryContext; similar past findings and the summary only reach the     *)
(* prompt.                                                                 *)
NoMemory == [blast |-> <<>>, regression |-> <<>>, cycles |-> <<>>]

(* RepositoryMemory.insights.                                              *)
InsightsOf(context) ==
  LET Insight(dim, cat, sev, conf, path) ==
        [agent |-> "memory", dim |-> dim, cat |-> cat, sev |-> sev, conf |-> conf,
         src |-> "deterministic", place |-> <<path, NoLine>>]
      risky == context.regression
  IN (IF context.blast = <<>> THEN <<>>
      ELSE <<Insight("architecture", "blast-radius", "info", 90, NoPath)>>)
     \o [r \in DOMAIN risky |->
          Insight("correctness", "regression-risk", IF risky[r].bugs >= 3 THEN "medium" ELSE "low",
                  Smaller(50 + 10 * risky[r].bugs, 90), risky[r].path)]
=============================================================================
