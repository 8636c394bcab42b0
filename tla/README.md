# CodeGuardian, specified

TLA+ specifications of CodeGuardian AI (`backend/app`), the TLC models that
check them on small instances, and the TLAPS proofs of what holds in every
instance. Paths below are relative to the repository's `backend/app` unless
they start with another directory.

CodeGuardian receives GitHub webhooks, queues a review of the pull request,
reviews it with a set of parallel agents (rules first, a language model
second), merges their findings into a verdict, and posts a review and a check
run.

    tlc -config Delivery.cfg MCReviewDelivery      # a run; the table is below
    tlapm ReviewDeliveryProofs.tla                 # the proofs of one component

`PROJECT.json` lists the components, the runs, the source lines behind every
definition, the mutants that show each property can fail, the hazards and the
theorems.

## 1. Inventory

### The parts, their state and their operations

| part | source | state it keeps | operations |
| --- | --- | --- | --- |
| webhook gateway | `api/routes/webhooks.py`, `core/security/webhook.py` | ids in the replay guard, per API process | `POST /webhooks/github` |
| task queue | `worker/enqueue.py`, `worker/celery_app.py` | messages in Redis | publish, deliver, acknowledge, requeue |
| review worker | `worker/tasks.py`, `worker/pipeline.py`, `publish/publisher.py` | `_processed` per process; reviews and checks on GitHub | `review_pull_request`, retry |
| review graph | `review/graph.py`, `review/triage.py`, `agents/base.py` | findings and errors of one review | triage, agent nodes, join, verdict |
| LLM router and budget | `llm/router.py`, `llm/base.py` | tokens used, per agent | `complete`, `precheck`, `charge` |
| consensus and scorecard | `review/consensus.py`, `review/scoring.py` | none | `build_consensus`, `build_scorecard` |
| golden path | `feedback/store.py`, `feedback/learner.py` | clicks per category | `record`, `adjustments` |
| diff parser, patches, comments | `review/diff.py`, `patch/generator.py`, `publish/publisher.py` | position in a diff | `parse_unified_diff`, `generate_patches`, `build_inline_comments` |
| agents | `agents/*.py` | none | `run`: rules, detectors, the model's answer |
| repository memory | `memory/service.py`, `memory/graph/inmemory.py` | imports, reverse index, touches, bug counts | `update_structure`, `context_for`, `record_outcome`, `insights` |
| Neo4j graph store | `memory/graph/neo4j_store.py` | nodes and relationships per tenant and repository | the same interface, in Cypher |
| vector memory | `memory/vector/` | embedded findings, symbols, discussions, per tenant | `upsert`, `search` |
| dashboard | `dashboard/store.py`, `api/routes/dashboard.py` | summaries per tenant | `record`, views |
| audit log | `dashboard/audit.py` | a hash chain per tenant | `record`, `verify` |
| feedback route | `api/routes/feedback.py` | none | `POST /feedback` |
| chat, analyze and rate limiter | `chat/`, `api/routes/analyze.py` | a token bucket per thread or host | `answer`, `/code`, `/pr`, `allow` |
| access | `api/auth.py`, `core/security/rbac.py`, `github/auth.py` | tokens | `get_principal`, `require_role` |
| text and process hygiene | `core/security/redaction.py`, `sandbox.py`, `llm/prompting.py` | none | pure functions |
| providers, GitHub client, Qdrant | `llm/providers/`, `github/client.py`, `memory/vector/qdrant_store.py` | external | one call each |
| database | `db/`, `backend/migrations/` | tables not yet used by the application | |
| wiring, metrics, web page, front end, infra, evals | the rest | counters | |

### How they interact

    GitHub --POST--> gateway --publish--> queue --deliver--> worker
                        |                   ^ requeue, retry    |
                   replay guard             +-------------------+
                                                                |
        run_review:  triage -> agents (parallel) -> join -> consensus -> event
                        |          |
                     memory     router -> providers      (one budget per review)
                                                                |
                        worker --create_review, create_check_run--> GitHub

The gateway and the workers share only the queue. API handlers, the agents of a
review and the router's callers are coroutines of one event loop: what lies
between two awaits is atomic, and any other coroutine may run at an await.
Worker processes share nothing but the queue and GitHub. Agents share the
budget, the router and the list their results are appended to. Reviews of one
repository share its memory, and the repositories of one tenant share the
findings remembered. The API process keeps the stores of the dashboard, the
audit log and the feedback, per tenant and in memory. Two paths are built and not connected at present. Feedback would
reach the consensus as adjustments, which no caller passes. Reviews would reach
the dashboard as summaries, but the worker runs in a process of its own and gives
`process_pull_request` no analytics store (`worker/tasks.py:85-87`): what
`Analytics` and `ReviewDone` say is about a caller that gives one, as
`worker/pipeline.py:47` provides for.

### What is hard, and what makes each part correct

* **Delivery** (`ReviewDelivery`): at-least-once queue, retries, process
  deaths, answers of GitHub lost after they took effect, duplicate deliveries,
  a guard that forgets. Correct when nothing accepted is lost silently, what is
  skipped really was published, checks agree with reviews, what keeps failing is
  given up, and the number of posts and enqueues stays bounded.
* **Router** (`LLMRouter`): a check before an await and the charge after it,
  failover in between. Correct when overspending is bounded by what overlapped,
  a refusal is final, failure means the chain was tried, and every call ends.
* **Review graph** (`ReviewGraph`): parallel agents, any of which fails at any
  point. Correct when rules' findings survive, the order of answers decides
  nothing, a secret blocks, an approval is harmless, and the review ends.
* **Verdict** (`Consensus`, `Scorecard`, `GoldenPath`, `Verdict`): merging,
  thresholds and weights spread over four files. Correct when merging hides no
  severity, feedback mutes no secret and moves what was rated its own way, evidence
  stays local and costs points.
* **Diff to suggestion** (`UnifiedDiff`, `SuggestedFixes`): one counter carried
  over a whole diff. Correct when each added line is found at its number and a
  suggestion replaces the line it was made from.
* **Agents** (`AgentRules`, `AgentReview`): ten files of predicates that must fit
  together. Correct when findings are about the diff, a secret in any file
  blocks, and triage leaves out no rule made for the kind of a file.
* **Memory** (`KnowledgeGraph`, `GraphQueries`, `RepositoryMemory`,
  `Neo4jGraph`, `VectorMemory`, `MemoryStores`): two indices kept in step,
  Tarjan's search, a second implementation in another language, records shared
  by repositories, reviews that overlap and repeat. Correct when the indices
  agree, the searches are exact, the two adapters answer alike, and a review
  recalls what was recorded last.
* **API process** (`ApiServer`, `Access`, `AuditLog`, `Analytics`): one request
  writes to several stores. Correct when the counts and the audit tell the same
  story for the same tenant, a verified chain is what was recorded, and the
  pages of the dashboard agree.
* **Limited calls** (`RateLimiter`, `PublicCalls`): a clock read outside the
  lock. Correct when exactly the calls that fit burst and rate are granted, and
  every call is answered.

## 2. Modules

    Broker <- WebhookGateway, ReviewWorker <- ReviewDelivery --implements--> ReviewPromise
    Findings <- Consensus, Scorecard, GoldenPath <- Verdict
    LLMRouter, Consensus, Triage <- ReviewGraph
    ReviewGraph, AgentRules <- AgentReview
    UnifiedDiff <- SuggestedFixes
    KnowledgeGraph <- GraphQueries <- RepositoryMemory, Neo4jGraph
    RepositoryMemory, Neo4jGraph, VectorMemory <- MemoryStores
    RateLimiter <- PublicCalls
    Access <- AuditLog, Analytics <- ApiServer (with GoldenPath per tenant and repository)
    SumFacts <- ReviewGraphProofs, VerdictProofs, KnowledgeGraphProofs, ApiServerProofs

`MC*` modules give TLC the constants a cfg cannot write, `*Proofs` modules hold the theorems,
and `SumFacts` the lemmas these share. A definition named after a mutation ("Mutant of ...") is used by no
specification; it is the plausible bug that shows a property can fail.

**Broker, WebhookGateway, ReviewWorker.** A message is one execution of the
task still owed; the queue is a set, as Celery promises no order.
`task_acks_late` keeps a message with its holder until the task ends, a death
gives it back (`task_reject_on_worker_lost`). The gateway's handler gives up the
event loop only while it reads the body, so each of its outcomes is one action,
in the order of the code's gates; an enqueue that raises may have had no effect or
may have queued the message (`EnqueueFails`, `EnqueueAnswerLost`). The worker's
task is interruptible at each await: `pc` names the points (running, posting, checking, recording, failed,
retried). `CreateReview` and `CreateCheckRun` take effect and then either
return or raise, which is how a lost answer is modelled; `Raise` is any
exception without an effect; `RetryFails` is `self.retry` when the broker is down:
Celery rejects the message in hand, and only the log tells; `Crash` empties `_processed`; the hard time limit
ends a task as failed without a retry.

**ReviewPromise** is the abstract specification: per review key, owed, then
reviewed, then complete, or given up; settled in the end. `ReviewDelivery`
implements it under the mapping `stage <- PublicStage`, `gaveUp <- dropped`.

**LLMRouter.** One call per agent. `TryNext` is a round of the loop up to the
await (estimate, precheck, call), `Answered` charges, `ProviderFails` goes to
the next provider in the same step, `ProviderBreaks` is any exception that is
not a `ProviderError`. Tokens are counted; micros follow them.

**Triage, ReviewGraph.** A file is what the routing predicates tell apart. A
lock file has the language of its name's extension (`Kind`). What the rules, a
model's answer and the memory report are constants of `ReviewGraph` (`Scans`, `Answers`, `Insights`), so that its theorems hold for any
rules that keep to their agent's dimension and confidence.
`Run` executes an agent's rules and calls the router, `Resume` goes on after the
provider, `Enrich` is `run_llm_enrichment` with its error paths, `Conclude` is
the join, the memory's findings and the event of the review request. LangGraph
merges the results of parallel nodes in an order of its own; here it is the
order in which they return, and nothing reads the list before the join.

**AgentRules, AgentReview.** A line of code is the set of what the regular
expressions find in it; everything the agents do with that is modelled: the rule
tables with severities and languages, the detectors that look at several lines
(`NPlusOne`, `MissingDocstrings`, `LongFunctions`) or at the graph
(`CircularDependencies`), the secret scan, the parser of the model's answer with
its cap on confidence and its check of paths, and the memory's insights.
`AgentReview` puts them in the place of the constants of `ReviewGraph`.

**Findings, Consensus, Scorecard, GoldenPath, Verdict.** The weights are decimal
fractions, so confidences are compared as exact fractions of integers, and the
rows and the overall score are rounded as `build_scorecard` rounds what it returns
(`Rounded`; which way floating point takes a tie is left open). `Verdict` lets
findings and clicks arrive one at a time, so that what one more of either does is a
statement about a step. A finding of `Repeated` may also arrive up to `MaxRepeats`
times, which is how a row runs out of points.

**UnifiedDiff, SuggestedFixes.** One action per kind of line git writes, with
git's own count beside the parser's. `Fixable` stands for the regular
expressions of the fixes and their validation. Publication may happen after any
line, as the parser stops after `max_lines`. The comments and the page of the
analyze API look the patch of a line up in the same way (`Suggestion`).

**KnowledgeGraph, GraphQueries, RepositoryMemory.** Dictionaries are functions
on their keys. Each search is the record of its local variables, what one round
of its loop does to them, and the loop: `Served` is a round of the breadth-first
search, `Round` one of Tarjan's, with stack, indices and low links as in the
code; the calls of `strongconnect` that have not returned are a list, and the
imports their loops have yet to take a set of pairs. The list may grow as long as
it must: that Python stops a recursion at about a thousand calls, so that a longer
chain of imports ends the search with an exception
(`memory/graph/inmemory.py:94-101`), is not modelled. What the searches are compared
with is `Reaches`: g is in every set of files that holds f and whatever its
members import. A review updates the structure and reads its context in one step
(there is no await between them) and records its outcome in another; others run in
between.

**Neo4jGraph, VectorMemory, MemoryStores.** `Neo4jGraph` has the File nodes, the
DEPENDS_ON relationships and the Bug nodes, one operator per statement; modules
and symbols are written and never read. A pattern of relationships of any length
is `Reaches` again, over the relationships. `VectorMemory` has the records of
PAST_FINDINGS, per pull request number as their ids are; how alike two texts are
is a constant, and which of equals a search returns is left open.
`MemoryStores` sends every review to both graph adapters alike, so that the two
can be compared, and lets another repository of the tenant record findings.

**Access, AuditLog, Analytics, ApiServer.** No handler of the API process awaits
between its first and its last effect, so each is one action. A sha256 is taken
as injective: a chain hash is the sequence of payloads it was computed from. The
faults in `AuditLog` are those of the storage under the list; `written` is the
history they are compared with. The views of `Analytics` are functions of one
tenant's records, as in the code; a record carries its place in the list, which is
all that the order of the list decides (`InForce`, `Earlier`, `Quicker`), and
averages stay fractions. The hotspots are the files that lead the heatmap, ten in the
code (`MaxHotspots`); which of files with one risk lead is left open. The clicks are
`GoldenPath` once more, its categories keyed by tenant and repository.

**RateLimiter, PublicCalls.** `ReadClock` and `Allow` are two steps, since the
code reads `time.monotonic()` before it takes the lock: a call that waited brings
an older reading, refills a negative amount and sets the bucket's time back. A
token is `Period` units, so that refills are integers. `PublicCalls` has the two
users of the limiter: the chat, which then awaits the model, and the analyze
endpoints, which then await the diff.

## 3. Runs

All passing runs are exhaustive on their instance.

| run | cfg | what it shows | instance |
| --- | --- | --- | --- |
| delivery | `Delivery` | guard, agreement, settlement, refinement of the promise | 1 API process, 1 worker, 2 requests of every kind, both verdicts, 1 retry, 1 death |
| delivery_workers | `DeliveryWorkers` | enqueues, loss, skipping and number of posts | 2 workers, 1 delivery enqueued again, 1 forgotten id or restart, 1 retry, 1 death |
| verdict | `Verdict` | merging, gates, feedback, score | up to 3 of 11 findings, or up to 9 leaks and 1 more, up to 2 clicks on 2 categories |
| review | `Review` | the graph with the agents' rules, the router and the budget | 11 diffs: documentation with the model (3 agents, 2 providers, budget 2, slack 1), lock files, pages, libraries, containers offline (5 to 7 agents) |
| memory | `Memory` | the graph in both adapters, its searches, the contexts, the findings recalled | 3 files, all import graphs, 2 pull requests that share a file, 2 reviews, 1 review in another repository |
| fixes | `Fixes` | lines, patches, comments | 2 files of up to 2 lines, 2 findings, 3 kinds of text |
| public | `Public` | exact rate limit, every call answered | 2 callers, buckets of 1 and 2 tokens, 3 ticks, 5 calls |
| api | `Api` | audit chain, feedback, views | 2 tenants, 3 tokens, 2 repositories, 3 requests, 1 storage fault, a clock of 2 times, a page of 1 hotspot |
| delivery_double_post | `DeliveryDoublePost` | *violated*, see section 5 | 1 delivery, 1 worker, 1 retry |
| verdict_model | `VerdictModel` | *violated* | a rule's and a model's finding |
| review_approval | `ReviewApproval` | *violated* | a documentation diff |
| fixes_misplaced | `FixesMisplaced` | *violated* | 1 file of up to 2 lines |

**Why these bounds.** Every hazard of section 1 happens within them. Delivery: the
questions are split over two runs, because their product has too many states. In
`Delivery` one accepted message is reviewed with either verdict while everything that
can fail does: the broker at the enqueue and at the retry, GitHub before and after
an effect, the process; one retry is enough for a failure that is retried and one
that is given up, and one death for all orders of "published, died, published
again". In `DeliveryWorkers` the same delivery is accepted again, since its id was
forgotten or the process restarted, so that two workers hold two messages of one
key, with a retry of each and a death between them. One key is enough for the
properties, which all speak of one key. Each run has one API process; what several
may accept between them is the theorem `AcceptsAreBounded`. Worker processes may be
permuted (`SameWorkers`): no definition names one, and the run checks no liveness.
Verdict: three findings give agreement of two agents with a rival on the same
issue; a leaked secret costs over 11 of the security row's 100 points, so nine
exhaust it and a tenth finding meets an empty row; the learner's minimum is one
click here (five in the code), so a second click meets a category that has
adapted; the theorems hold for any number of each. Review:
agents meet only in the budget and in the list, and two calls in flight overspend
while a third is refused in the middle of them; two providers give a first, a
middle and an end of the chain; larger selections are checked offline, one diff
per shape that triage or a detector tells apart. Memory: three files give every
shape of cycle with a file outside; two reviews let each order of update and
outcome happen; a search returns one record (five in the code) so that records
compete. Public: a bucket of one token and one of two, with a refill faster and
slower than the calls; two callers can overtake each other. Api: one fault is
enough to break a chain of three, and three requests give a click, a second
click or a repeated review, and something in between; two files are one more than
the page of hotspots shows.
Fixes: two files show that a position does not leak from one to the next, two
lines that a shift meets a neighbour, two findings that the last patch wins.
`FileSymmetry` is sound there: no definition names a file, and the run checks no
liveness.

`CHECK_DEADLOCK FALSE` is set where the system stops by itself: no request is
left to send, all calls have ended, a review is complete, a diff is read.
Counters that grow are cut off in guards by the constants named `Max...`.

**Fairness.** `FairSpec` of the delivery: weak fairness of each worker process's
own steps, as Celery processes keep consuming and GitHub calls have timeouts;
requests, failures, crashes and forgetting are never forced. A retry is an
ordinary message, its delay left out. `ReviewFairSpec`: weak fairness of each
coroutine, as the event loop resumes whatever is ready and every provider call
has a timeout; which of an answer, an outage or a break ends a call is never
forced. `CallsSpec`: weak fairness of each call that was made; no lock is held
across an await, and the model and the fetch have timeouts.

## 4. Proofs

Assumptions: the `ASSUME`s on the constants, each named in the module that
declares the constants, and nothing else. Beside the obvious ones on types, they
say that the sets of API processes and of delivery ids are finite
(`GatewayAssumption`: a bound is a number only then), and so are the files and
the pull requests of a repository (`QueriesAssumption`, `Neo4jAssumption`: a
search ends and a count is a number only then) and the decisions of a summary
(`SummaryAssumption`); that the wall clock reads naturals and what a handler writes
into the audit log is one of the payloads (`ServerAssumption`); and that the
model's answer is a list of items, valid or not (`AgentReviewAssumption`). Each
module's argument is an inductive invariant that TLC checks the consequences of.

| module | theorem | says |
| --- | --- | --- |
| `ReviewDeliveryProofs` | `TypeCorrect` | types; a process holds a message exactly while busy |
| | `NothingIsLost` | `NoSilentLoss` |
| | `SkipIsSafe`, `ChecksMatch`, `NoRestartOfPublished`, `GuardIsClean` | the properties of the same runs |
| | `AcceptsAreBounded`, `PostsAreBounded` | what one delivery can cost, for any number of processes, ids, retries and deaths |
| | `DeliveryKeepsPromise` | every step of the delivery is a step or a stutter of `ReviewPromise` |
| `ReviewGraphProofs` | `FallbackIsComplete`, `OverspendNeedsOverlap`, `RefusalIsFinal` | the router's safety |
| | `ReviewKeepsBudget` | the same of the calls of a whole review |
| | `ReviewTypes`, `NothingIsLost` | types; no rule's finding is lost silently |
| | `OrderIsIrrelevant`, `SecretsBlock`, `ApprovalsAreHarmless` | the verdict of the joined list, for any agents, reports and order |
| | `FindingsStayInDiff`, `SpecialistsAreKept` | the agents' rules, for any diff, memory and answers |
| `VerdictProofs` | `VerdictTypes`, `MergeKeepsSeverity`, `SecretsAlwaysBlock`, `FeedbackNeverPromotes`, `EvidenceStaysLocal`, `DemotionIsByRival` | the verdict, for any findings and feedback |
| | `ClicksSteerVerdicts` | what one more click does, to its own category and to the others |
| | `FindingsCost` | what one more finding does to the rounded score, for reviews of any length |
| `KnowledgeGraphProofs` | `GraphTypes`, `ReverseIndexHolds`, `BugsHaveCauseHolds` | the store under any sequence of operations |
| | `BlastRadiusHolds`, `CyclesHold` | both searches end and find what they promise, in every import graph |
| | `MemoryUsesGraph`, `StoresUseMemory` | the stores implement the memory, and the memory the graph |
| | `ContextHolds` | a review is told what the graph says when it asks |
| | `AdaptersHold` | the production store answers like the one in memory |
| | `ReviewsOKHolds`, `PastIsRecalled` | the vector memory, for any number of reviews and repositories |
| `UnifiedDiffProofs` | `DiffTypes`, `DiffInvHolds`, `LinesAreFoundHolds` | the parser, for diffs of any length |
| | `SuggestionsFit`, `OneFixPerLine` | the comments, for any diff, findings and fixes |
| `PublicCallsProofs` | `LimiterSafe`, `LimiterGrantsExactly` | the token bucket, for any rate, capacity, callers and order of clock readings |
| | `CallsImplementLimiter`, `CallsGrantExactly` | chat and analyze take their tokens as `RateLimiter` says, so they inherit it |
| `ApiServerProofs` | `AuditLogIsIntact` | the audit log, for chains of any length and any number of faults |
| | `ServerImplementsAuditLog`, `ServerLogIsIntact` | every request writes the log as `AuditLog` says |
| | `ClicksAreAudited` | the counts of the Golden Path are the clicks of the log |
| | `ViewsHold` | the pages of a dashboard agree, for any reviews and any clock |

*Delivery.* `NoSilentLoss` is not inductive: a process that has published its
retry still holds the old message, which may go at any time. `LiveCopy` counts
only the copies that no retry replaced. With `Progress` (what a process has on
GitHub at each stage) and the types it is inductive. The refinement follows from
the same invariant: only `CreateReview`, `CreateCheckRun`, an enqueue and a
give-up change the public stage. The two bounds are invariants on what is still to
come. `AcceptBudget`: a key was enqueued at most once for each process that knows
one of its ids at present, and once per id for each time a guard forgot.
`PostBudget`: a message owes one ticket for its present attempt, until that has
posted, and one for each retry left; posts and tickets together never exceed
what enqueues and deaths brought in. A post spends a ticket, a retry hands its
tickets on, a death brings new ones. It needs `TagsUnique`, that no two holders
hold the same message.

*Router.* `RInv`: a call in flight was prechecked against `base`, and `base` is
at most `used`; so what an answer takes beyond the limit was charged to others
since, plus the slack. In `ReviewGraph` every call is made of the router's own
actions, so a lemma carries this over to the review (`ReviewKeepsBudget`).

*Review graph.* `GInv`: the list holds, in one piece, the findings of the rules
of every agent that returned. It survives appending, which the lemmas on
`Contains` state once.

`AInv` says in addition that the list is the reports of the agents that returned,
each in one piece (`Joins`), then the insights, and that a report is the rules'
findings with one of the model's answers or with none. The rest are facts about
such lists. `SameVerdict`: the weight of an issue depends on the findings of its
own dimension, in their order, and on the agents that agree; only one agent and
the memory report in a dimension, so joining changes nothing
(`OrderIsIrrelevant`). `SecretsBlock`: a secret on an added line puts a critical
finding of 97 percent into the security agent's report (`ScanSecretsIs`); what
else is reported of that issue has at most that rank, and agreement only raises
the gate. `ApprovalsAreHarmless`: an issue posted by its agent's report alone
is still posted with the insights (`PostedStays`): either its representative
stays, and agreement only raises it, or an insight takes its place, and every
insight passes the bar as soon as two agree (60 * 12 * 20 * 21 >= 300000). The
agents' rules are concatenations over files, lines and rules; `FlattenIs` and
`FlattenElements` say what is in one, and each detector then has a lemma that says
of every finding which file, line and rule it is about (`RulesOfIs`).

*Verdict.* That every issue has a representative would need an induction over
lists. `HasReps` makes it an invariant of the growing list instead: a new
finding beats the representative of its issue or leaves it. Then secrets: no
other finding can beat a critical one of 97 percent, and 97 * 1.3 * 0.4 exceeds
the bar of 50.

The score: a row of the scorecard is 100 less what the findings it counts
weigh, and never less than nothing. What one more finding adds is one more term
of a sum (`SumMore`), so a row stays or goes down, and a row with points left
goes down by what it is charged. The blend then falls by the finding's price, the
sum of its dimension's shares in the rows. What the code returns is rounded
to a tenth, on which a cheap finding may not show at all and
a dearer one may show by up to a tenth more or less: the property says so. A row
that is exhausted charges nothing more; the others keep their price.

Clicks: a category has adapted once it has the learner's minimum of clicks. Then one
more accepted click makes its share of accepted ones larger and one more rejected
click smaller (`ClickOnAdapted`), and the weight of a larger share reaches
every bar the smaller one reaches (`LargerReaches`).

*Knowledge graph.* `ReverseIndexAgrees` is inductive by itself. `BugsHaveCause`
needs the types: a count must be a number to stay positive. The theorems are
about `GraphSpec`; that `RepositoryMemory` changes the graph through its
operations only is `MemoryUsesGraph`.

*The two searches.* Each is a recursive function, so first it must be shown to
have a value: a round makes a measure smaller, and among the states on which the
search is not defined one would have the least measure. For the breadth-first search
the measure is twice the files not seen plus the queue (`WalkCost`), and what a round
keeps is that a file seen is reached and that what imports a file seen or of the
change is seen, unless that file is still in the queue (`Searched`).

For Tarjan's search the measure is twice the files not visited, plus the calls
that run, plus the imports not taken (`SearchCost`), which is less than the
number of rounds `FindCycles` runs. `SearchOK` is what every round keeps, written
in the terms of the algorithm's correctness. Of the files on the stack, the calls
that run are an ascending part; the files that are gone from it
import only files that are gone. A low link is the index of a file on the stack that the
file reaches (`LowIsReached`), and that of a call covers the imports already taken
between files on the stack, from any file entered since and before the next call that
still runs (`LowCovers`). Every file on the stack reaches a
call below it, and every call reaches what is above it (`ReachesCall`,
`CallReaches`). When a loop ends and the low link is the file's own index, what is
above it on the stack is therefore its component: it is reached, it reaches back, and nothing
outside it does both. The result is the components of the files that are gone,
as far as they are cycles (`ResultIs`).

*Context and adapters.* `ContextIsCurrent` then follows from the two searches and
the reverse index, in the state after the update. `AdaptersInStep` relates the
stores: the relationships are the imports and the nodes hold them, the Bug nodes
of a file add up to its bug count, and the last bug's pull request is one of
theirs. The answers follow, with one lemma on cycles: in a component of two
or three files some file imports another one, and is led back to within two
relationships (`CycleHasPair`), which is what the Cypher pattern matches.

*Vector memory.* `LatestLeads`: the records of the last review under a number are
the first of its bucket, whatever longer reviews left behind them. A search
returns the best that are alike, so what is alike and missing is outranked by as
many as a search returns.

*Diff.* `DiffInv`: inside a hunk the parser's file and line are git's, up to the
markers met in the hunk, until a line strays; a strayed parser reads into a file
of no path git named. Both sides of `LinesAreFound` then grow by the same line.
`FixInv` adds that a diff is published once and not read after it, and
`SuggestionIsParsed` that a fix is made from a line the parser found.

*Limited calls.* `GrantsExactly` speaks of the whole history of a bucket.
`BucketsExact` makes it a state invariant: each served call leaves room for what
a full bucket held at that call, plus what came back up to the last refill, less
a token per call granted since; the level of the bucket is the least of these
rooms. A refill moves all of them alike and caps them by a new one at the
capacity, also when a late call brings an older clock; a grant takes a token from
all. So a token is there exactly when every window has room for one more call.

*API process.* `HashesAreWritten`: the hash of every event in the list was
computed by `record`, for no fault makes one up. A chain that verifies then has
the hash of its last event in the history, and a hash tells all payloads before
it: were there a position at which it did not, there would be a first one, whose
predecessor it is linked to (`HashTellsPayloads`). The clicks are counted along the
same steps as the chain grows: `ClicksAppend` says what one more event does to the
number of clicks of a key and an action.

*Dashboard.* `RecordsOK`: a record's id is its place in the tenant's list. So the
records of a pull request are in a strict order, by time and then by id, and one
of them is in force (the others are beaten by it). The totals agree because a sum over
records is the sum, over repositories or files, of the sums of their records
(`GroupsAddUp`, `GroupsCount`). The sorted lists are defined by counting what
comes before; in a strict order of n members every place from 1 to n is taken
by exactly one (`PlaceIsOne`, `PlacesTaken`), so the timeline has every record
once, in order, and the record in force is the last of its pull request. That files
to lead the heatmap can be chosen at all is an argument of the same kind
(`HeaviestExists`): take the riskiest of those not taken yet.

The types are proved and not listed among the runs' properties, with the
exception of the review's; so is `ProcessedIsFinal`, that a process never starts
what it has completed.

**How far the proofs reach.** The library's induction theorems take an operator as
a parameter, which the provers cannot instantiate. The least counterexample does
instead (`LeastExists`, `SmallestExists`, from the minimal elements of a
well-founded relation): there is a least length, or a smallest set, at which a
statement fails, and one member less refutes that. That is how sums, flattened
lists, representatives, the searches and the chain of hashes are dealt with. For this
the searches and the views are written as recursive functions and as sets, not as
`RECURSIVE` operators or selections of lists.

**Only model-checked.** Every safety property of the passing runs is a theorem.
Liveness is not: `AcceptedIsSettled`, `ReviewEnds`, `EveryCallIsAnswered`, and the
fairness part of `KeepsPromise`, of which `DeliveryKeepsPromise` is the rest.
That a definition is the code's is not proved either; the mutants show that the
properties notice plausible mistakes in it.

## 5. Where the code and its documents disagree

Four runs look for a violation of a sentence of the repository and find one.

1. `delivery_double_post`: "at-least-once delivery and retries never
   double-post" (`worker/tasks.py:4-5`). The key is remembered after both GitHub
   calls and in one process only. What does hold: `PostsBounded`,
   `CheckMatchesReview`, `SkipsOnlyPublished`.
2. `verdict_model`: "the LLM ... can never suppress a real finding"
   (`docs/SECURITY-CHECKLIST.md:46`). A more severe, unsure model finding takes
   the place of a rule's on the same issue and lowers its gate. What does hold:
   `SecretsBlock`, `DemotionNeedsRival`.
3. `review_approval`: "only for eligible trivial PRs with a fully clean review"
   (`review/graph.py:188`). Errors of agents are not looked at. What does hold:
   `ApprovalIsHarmless`.
4. `fixes_misplaced`: "so we never post a patch that would break the file"
   (`patch/generator.py:6-7`). The marker `\ No newline at end of file` is
   counted as a line, so lines added after it are numbered one too high and the
   suggestion for one replaces the next. What does hold: `LinesAreFound`,
   `SuggestionFitsLine`.

Met while modelling, and visible in the models, without a run of their own:

* The token budget can be overspent by overlapping calls (bounded by
  `OverspendIsOverlap`).
* A delivery whose enqueue failed stays in the guard, so the redelivery is
  answered as a duplicate although the guard means to reject ids "we have already
  processed" (`core/security/webhook.py:12-13`; `EnqueueFails`).
* A retry that the broker refuses is the end of the review, though retries are left
  (`worker/tasks.py:51`; `RetryFails`).
* A provider's body that cannot be read raises outside the mapping to
  `ProviderError`, and nothing fails over (`ProviderBreaks`); a model's answer
  that makes the JSON decoder raise anything but `JSONDecodeError` loses the
  findings of that agent's rules, though it is recorded (`Enrich`,
  `NothingLostSilently`).
* `FindingsAreAboutDiff` speaks of lines for rules only: a model's finding keeps
  whatever line the model names, in the diff or not (`Located`).
* Triage does not know a Dockerfile by its suffix, `DevOpsAgent` does
  (`review/triage.py:52-59`, `agents/devops.py:28-30`): such a file alone is not
  reviewed by it, the exception in `RoutingKeepsSpecialists`. Vue and Svelte files
  are routed to the accessibility agent, whose rules exclude their language.
* Triage leaves the performance and the architecture agent out of reviews of
  documentation, markup and configuration, where some of their rules would speak,
  as they ask nothing of the kind of a file (`AnyKindRules`): `select *`, unbounded
  reads and queries in a loop, a large change, a cycle of imports. What
  `RoutingKeepsSpecialists` states is that nothing else is lost.
* A diff that repeats no import of a file erases the file's earlier edges
  (`UpsertFiles`), though `memory/service.py:48` calls the update incremental;
  bug counts grow with every repeated review of a fix (`RecordBugs`).
* The Neo4j store reports cycles of two or three files, as pairs, and no self
  imports, where `memory/graph/base.py:54` promises both of any size
  (`MatchedCycles`); the last bug it names is the highest number, the in-memory
  store's is the last recorded.
* Pull requests of the same number in two repositories of a tenant overwrite
  each other's findings, and a shorter review leaves the tail of the longer
  (`Upserted`); the last review recorded is still recalled (`RecallsThePast`).
* The audit log's docstring says that any deletion is detected
  (`dashboard/audit.py:3-5`). Events lost from the end leave a chain that
  verifies, and the number `seq` is part of no hash: `VerifiedIsIntact` states
  what does hold.
* Summaries take their time when a review ends: of two overlapping reviews of a
  pull request, the one of the older commit may be shown as the latest
  (`dashboard/store.py:87`). And no production review reaches the dashboard at
  all (`worker/tasks.py:85-87`, section 1).
* Asked for no audit events, `list_events(limit=0)` returns all of them
  (`dashboard/audit.py:88`; no route passes a limit).
* An added line that starts with `++ ` hides the rest of its file from the
  review (`AddPlusLine`).

## 6. Not modelled

What the regular expressions match, redaction and prompt text (strings); the
adapters to providers (one HTTP call each, which ends in an answer, a
`ProviderError` or another exception: `LLMRouter` takes all three); Qdrant,
whose collections the tenants share and whose points have the record's id alone;
GitHub's client, of which `ReviewWorker` takes every outcome, a lost answer
included; the database models, which no code reads or writes yet; the sandbox
command; start-up, metrics, logging, the web page, front end, infrastructure,
evaluation. Within modelled parts: the wording of comments and summaries, the
cost in micros, symbols and module names in the graph, the removed-line count;
the collections of the vector store that nobody searches; a failure between two
of Neo4j's statements, each of which is a transaction; a message that Redis delivers
twice by itself, and the broker client's own repetition of a publication. The replay
guard modelled is the in-memory one; the Redis one differs in sharing its ids.

## 7. Plan

Done, in this order: delivery (what the service promises), router, verdict,
review graph, memory, diff to suggestion; then the API process, the limited
calls, the agents' rules, the second graph adapter and the vector memory; then
the theorems of section 4, every safety property the runs check among them.

What could follow:

1. `KnowledgeGraphProofs` in two modules, the searches apart from the stores.
2. Redis's replay guard and Qdrant's collections, as second adapters beside the
   ones in memory, the way `Neo4jGraph` stands beside `KnowledgeGraph`.
