---------------------------- MODULE MCReviewGraph ----------------------------
(* Diffs, contexts and answers for TLC. *)
EXTENDS AgentReview

(* s, which TLC then keeps as a tuple instead of computing it at each use. *)
Tabled(s) == s \o <<>>

File(path, lang, name, suffix, texts) ==
  [path |-> path, lang |-> lang, name |-> name, suffix |-> suffix, workflow |-> FALSE, test |-> FALSE,
   added |-> Tabled([l \in DOMAIN texts |-> [n |-> l + 1, text |-> texts[l]]])]

Readme == File("readme", "markdown", "plain", "docs", <<{"blank"}, {"github_token", "debug-enabled"}>>)
Guide == File("guide", "markdown", "plain", "docs", <<{"select-star"}>>)
DockerNotes == File("dockernotes", "markdown", "dockerfile", "docs", <<{"docker-unpinned-base"}>>)
Requirements == File("requirements", "other", "lockfile", "docs", <<{}>>)
Yarn == File("yarn", "other", "lockfile", "plain", <<{"url_credentials"}>>)
Cargo == File("cargo", "other", "lockfile", "plain", <<>>)
Pnpm == File("pnpm", "yaml", "lockfile", "plain", <<{"open-ingress"}>>)
Page == File("page", "html", "plain", "plain", <<{"img-missing-alt", "xss-innerhtml"}, {"broad-except"}>>)
Schema == File("schema", "sql", "plain", "plain", <<{}>>)
Vue == File("vue", "other", "plain", "component", <<{"img-missing-alt"}>>)
Image == File("image", "other", "plain", "dockerfile", <<{"docker-unpinned-base"}>>)
Lib == File("lib", "python", "plain", "plain",
  <<{"public-def", "func-def"}, {"blank"}, {"docstring"}, {"loop"}>> \o [l \in 1..11 |-> {}]
    \o <<{"db-call"}, {"loop"}, {"public-def"}, {"db-call", "dangerous-eval"}, {"broad-except"}>>)
Tests == [File("tests", "python", "plain", "plain", <<{"weak-hash"}>>) EXCEPT !.test = TRUE]

AllPaths == {"readme", "guide", "dockernotes", "requirements", "yarn", "cargo", "pnpm", "page", "schema", "vue",
             "image", "lib", "tests", "elsewhere"}

Remembered == [blast |-> <<"elsewhere">>,
               regression |-> <<[path |-> "lib", bugs |-> 3]>>,
               cycles |-> <<<<"elsewhere", "lib">>, <<"lib">>>>]
Buggy == [NoMemory EXCEPT !.regression = <<[path |-> "readme", bugs |-> 1]>>]

In(diff, context, llm) == [diff |-> diff, context |-> context, llm |-> llm]

(* Documentation, with a Dockerfile's notes: three agents and the model.   *)
(* Lock files and code: five to seven agents, offline.                     *)
Reviews ==
  [readme |-> In(<<Readme>>, Buggy, TRUE),
   guides |-> In(<<Guide, DockerNotes>>, NoMemory, TRUE),
   requirements |-> In(<<Requirements>>, NoMemory, TRUE),
   nothing |-> In(<<>>, NoMemory, FALSE),
   yarn |-> In(<<Yarn>>, NoMemory, FALSE),
   locks |-> In(<<Cargo, Requirements>>, NoMemory, FALSE),
   page |-> In(<<Pnpm, Page>>, NoMemory, FALSE),
   lib |-> In(<<Lib, Image>>, Remembered, FALSE),
   tests |-> In(<<Tests, Lib>>, NoMemory, FALSE),
   schema |-> In(<<Guide, Schema>>, NoMemory, FALSE),
   vue |-> In(<<Vue, Guide>>, NoMemory, FALSE)]

AllInputs == DOMAIN Reviews

Places == (AllPaths \cup {NoPath}) \X (0..25)

Categories ==
  {r.cat : r \in ToSet(SecurityRules \o ArchitectureRules \o PerformanceRules \o DockerRules
                         \o InfraRules \o AccessibilityRules)}
    \cup {"hardcoded-secret", "large-change-surface", "circular-dependency", "n-plus-one-query",
          "missing-docstring", "missing-tests", "blast-radius", "regression-risk"}

I(cat, sev, conf, path, line) ==
  [valid |-> TRUE, cat |-> cat, sev |-> sev, conf |-> conf, path |-> path, line |-> line]

Guesses ==
  [a \in Agent |->
    IF a = "security"
    THEN {<<I("hardcoded-secret", "critical", 99, "readme", 3), I("weak-hash", "high", 30, "elsewhere", 7),
            I("debug-enabled", "high", 80, "readme", 9)>>,
          <<[I("debug-enabled", "high", 80, "readme", 3) EXCEPT !.valid = FALSE],
            I("debug-enabled", "high", 30, "readme", 3)>>}
    ELSE IF a = "documentation" THEN {<<>>, <<I("missing-docstring", "low", 80, "guide", NoLine)>>}
    ELSE {<<>>}]

RuleTable == [x \in Agent \X Inputs |-> Tabled(RulesOf(x[1], Given[x[2]].diff, Given[x[2]].context))] @@ <<>>
AnswerTable ==
  [x \in Agent \X Inputs |-> {Tabled(ParseAnswer(x[1], Given[x[2]].diff, s)) : s \in Guesses[x[1]]}] @@ <<>>
InsightTable == [in \in Inputs |-> Tabled(InsightsOf(Given[in].context))] @@ <<>>

(* The tables under a second name: TLC evaluates the definition a constant *)
(* is given at each use, and keeps the value of the one that refers to.    *)
MCGiven == Reviews
MCScans == RuleTable
MCAnswers == AnswerTable
MCInsights == InsightTable
MCRawAnswers == Guesses
MCPlace == Places
MCCategory == Categories
=============================================================================
