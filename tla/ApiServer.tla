------------------------------ MODULE ApiServer ------------------------------
(***************************************************************************)
(* The API process that create_app builds (main.py): its stores, and the   *)
(* routes and services that write to them.  Feedback is authenticated,     *)
(* counted and audited (api/routes/feedback.py), an accepted webhook is    *)
(* audited (api/routes/webhooks.py), a finished review is summarised for   *)
(* the dashboard where the pipeline is given this process's store (worker/ *)
(* pipeline.py; the production worker gives it none).  None of these       *)
(* awaits between its first and its last effect, so each is one step.      *)
(* Nothing is durable: a restart is a new beginning.  PublicCalls has the  *)
(* limited routes.                                                         *)
(***************************************************************************)
EXTENDS Analytics, AuditLog

CONSTANTS
  Topic,       \* categories of findings
  TenantOf,    \* per repository: the tenant its webhooks and reviews count for
  WallClock,   \* times datetime.now(UTC) may show
  MaxRequests  \* bound: requests in a behaviour

VARIABLES
  feedback,  \* InMemoryFeedbackStore: clicks per tenant, repository, category
  requests   \* history: requests so far

FeedbackKey == Tenant \X Repo \X Topic

Clicks == INSTANCE GoldenPath WITH
  Category <- FeedbackKey, AgentName <- {}, Place <- {},
  MinSamples <- 5, MaxSamples <- MaxRequests

serverVars == <<auditVars, reviews, feedback, requests>>

(* What is audited: a click, or an accepted pull request.                  *)
ClickPayload(user, key_, action) ==
  [actor |-> user, action |-> "feedback.record", detail |-> <<key_, action>>]
WebhookPayload(repo) ==
  [actor |-> "github", action |-> "webhook.pr_accepted", detail |-> <<repo>>]

ASSUME ServerAssumption ==
  /\ TenantOf \in [Repo -> Tenant]
  /\ WallClock \subseteq Nat /\ MaxRequests \in Nat
  /\ \A token \in Token : Authorized(token, MinRole.feedback) =>
       \A repo \in Repo, topic \in Topic, action \in Clicks!FeedbackAction :
         ClickPayload(Principal[token].user, <<Principal[token].tenant, repo, topic>>, action) \in Payload
  /\ \A repo \in Repo : WebhookPayload(repo) \in Payload

Init ==
  /\ AuditInit /\ AnalyticsInit
  /\ Clicks!FeedbackInit
  /\ requests = 0

Request == requests < MaxRequests /\ requests' = requests + 1

-----------------------------------------------------------------------------
(* Mutant of SubmitFeedback: the tenant is taken from the request.         *)
SubmitFeedbackFor(token, repo, topic, action) ==
  /\ Request
  /\ Authorized(token, MinRole.feedback)
  /\ \E tenant \in Tenant :
       /\ Clicks!RecordFeedback(<<tenant, repo, topic>>, action)
       /\ Record(Principal[token].tenant,
                 ClickPayload(Principal[token].user, <<Principal[token].tenant, repo, topic>>, action))
  /\ UNCHANGED reviews

(* POST /api/v1/feedback: the tenant is the principal's.  401, 403 and 422 *)
(* end the request before this.                                            *)
SubmitFeedback(token, repo, topic, action) ==
  LET principal == Principal[token]
      click == <<principal.tenant, repo, topic>>
  IN /\ Request
     /\ Authorized(token, MinRole.feedback)
     /\ Clicks!RecordFeedback(click, action)
     /\ Record(principal.tenant, ClickPayload(principal.user, click, action))
     /\ UNCHANGED reviews

(* github_webhook's audit record.                                          *)
WebhookAccepted(repo) ==
  /\ Request
  /\ Record(TenantOf[repo], WebhookPayload(repo))
  /\ UNCHANGED <<reviews, feedback>>

(* process_pull_request has published a review and was given the store,    *)
(* as a caller in the same process may do (tasks.py:85-87 does not).       *)
ReviewDone(summary) ==
  /\ Request
  /\ \E time \in WallClock : RecordReview(TenantOf[summary.repo], summary, time)
  /\ UNCHANGED <<auditVars, feedback>>

Faulty == (\E t \in Tenant : StorageFault(t)) /\ UNCHANGED <<reviews, feedback, requests>>

Next ==
  \/ \E token \in Token, repo \in Repo, topic \in Topic, action \in Clicks!FeedbackAction :
       SubmitFeedback(token, repo, topic, action)
  \/ \E repo \in Repo : WebhookAccepted(repo)
  \/ \E summary \in Summary : ReviewDone(summary)
  \/ Faulty

Spec == Init /\ [][Next]_serverVars

-----------------------------------------------------------------------------
(* The events of list c that tell of a click of key_ and action.           *)
ClicksIn(c, key_, action) ==
  {i \in DOMAIN c : c[i].payload.action = "feedback.record" /\ c[i].payload.detail = <<key_, action>>}

Audited(key_, action) == Cardinality(ClicksIn(chain[key_[1]], key_, action))

(* The counts the Golden Path learns from are exactly the clicks the audit *)
(* log of the same tenant tells of, each made by a principal of the tenant *)
(* who may give feedback (feedback.py:32-49); as long as the storage of    *)
(* the log is sound.                                                       *)
FeedbackIsAudited ==
  faults = 0 =>
    /\ \A k \in FeedbackKey : \A a \in Clicks!FeedbackAction : feedback[k][a] = Audited(k, a)
    /\ \A t \in Tenant : \A i \in DOMAIN chain[t] :
         chain[t][i].payload.action = "feedback.record" =>
           \E token \in DOMAIN Principal :
             /\ Principal[token].user = chain[t][i].payload.actor
             /\ Principal[token].tenant = t
             /\ Principal[token].role # "read_only"
=============================================================================
