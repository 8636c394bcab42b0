--------------------------- MODULE WebhookGateway ---------------------------
(***************************************************************************)
(* POST /webhooks/github (api/routes/webhooks.py) with its replay guard    *)
(* (core/security/webhook.py).  The handler awaits only the request body;  *)
(* from the size check of the body on it runs to its end without giving up *)
(* the event loop, so each outcome of a request is one action.             *)
(*                                                                         *)
(* A request is the delivery id it carries, the review key of its payload  *)
(* and the first gate that stops it ("review" when none does).             *)
(***************************************************************************)
EXTENDS Broker

CONSTANTS
  Gateway,         \* API processes, each with its own in-memory replay guard
  DeliveryId,      \* X-GitHub-Delivery values
  NoId,            \* the empty header
  Request,         \* requests that may arrive, any number of times each
  EnqueueReviews,  \* settings.enqueue_reviews: Celery, or the no-op enqueuer
  MaxRequests,     \* bound: requests handled in a behaviour
  MaxForgets       \* bound: guard restarts and expiries in a behaviour

Kind == {"oversized", "forged", "not_json", "ping", "other_event", "invalid",
         "no_review", "review"}
Status == {"refused", "duplicate_ignored", "handled", "accepted", "error"}

ASSUME GatewayAssumption ==
  /\ Request \subseteq [id : DeliveryId \cup {NoId}, kind : Kind, key : Key]
  /\ NoId \notin DeliveryId
  /\ IsFiniteSet(Gateway) /\ IsFiniteSet(DeliveryId)
  /\ EnqueueReviews \in BOOLEAN
  /\ MaxRequests \in Nat
  /\ MaxForgets \in Nat

VARIABLES
  seen,      \* per process: the ids in the guard's table
  aged,      \* per process: those of them older than window_seconds
  audit,     \* per process: keys of its webhook.pr_accepted audit events
  accepts,   \* per key: how often the handler enqueued it
  answers,   \* history: which requests were answered how
  requests,  \* history: requests handled so far
  forgets    \* history: restarts and expiries so far

guardVars == <<seen, aged>>
gatewayVars == <<seen, aged, audit, accepts, answers, requests, forgets>>

GatewayTypeOK ==
  /\ seen \in [Gateway -> SUBSET DeliveryId]
  /\ aged \in [Gateway -> SUBSET DeliveryId]
  /\ audit \in [Gateway -> SUBSET Key]
  /\ accepts \in [Key -> Nat]
  /\ answers \subseteq [req : Request, status : Status]
  /\ requests \in Nat
  /\ forgets \in Nat

GatewayInit ==
  /\ seen = [g \in Gateway |-> {}]
  /\ aged = [g \in Gateway |-> {}]
  /\ audit = [g \in Gateway |-> {}]
  /\ accepts = [k \in Key |-> 0]
  /\ answers = {}
  /\ requests = 0
  /\ forgets = 0

-----------------------------------------------------------------------------
(* Gates 1 and 2: the size caps and the HMAC over the raw body.            *)
Authentic(r) == r.kind \notin {"oversized", "forged"}

(* The guard's table once entries older than the window are evicted.       *)
Live(g) == seen[g] \ aged[g]

(* Mutant of Replayed: the table is not consulted.                         *)
ReplayedOnlyIfMissing(g, r) == r.id = NoId

(* check_and_remember raises ReplayError for an empty and for a live id.   *)
Replayed(g, r) == r.id = NoId \/ r.id \in Live(g)

(* check_and_remember's effect: evict, then store the id.  An empty id     *)
(* raises before the eviction.                                             *)
Remember(g, r) ==
  /\ seen' = [seen EXCEPT ![g] = IF r.id = NoId THEN @ ELSE Live(g) \cup {r.id}]
  /\ aged' = [aged EXCEPT ![g] = IF r.id = NoId THEN @ ELSE {}]

(* Every outcome of a request ends in one answer.                          *)
Answer(r, status) ==
  /\ requests < MaxRequests
  /\ requests' = requests + 1
  /\ answers' = answers \cup {[req |-> r, status |-> status]}
  /\ UNCHANGED forgets

(* Mutant of Refuse: the guard runs before the signature check.            *)
RefuseAfterGuard(g, r) ==
  /\ ~Authentic(r)
  /\ Remember(g, r)
  /\ Answer(r, "refused")
  /\ UNCHANGED <<audit, accepts, brokerVars>>

(* 413 or 401, before the guard is touched.                                *)
Refuse(g, r) ==
  /\ ~Authentic(r)
  /\ Answer(r, "refused")
  /\ UNCHANGED <<guardVars, audit, accepts, brokerVars>>

(* 200 duplicate_ignored: the guard has the id, or the id is missing.      *)
IgnoreDuplicate(g, r) ==
  /\ Authentic(r) /\ Replayed(g, r)
  /\ Remember(g, r)
  /\ Answer(r, "duplicate_ignored")
  /\ UNCHANGED <<audit, accepts, brokerVars>>

(* 400, 422, pong, ignored or no_review: nothing to enqueue, but the id is *)
(* in the guard by now.                                                    *)
Dismiss(g, r) ==
  /\ Authentic(r) /\ ~Replayed(g, r) /\ r.kind # "review"
  /\ Remember(g, r)
  /\ Answer(r, "handled")
  /\ UNCHANGED <<audit, accepts, brokerVars>>

(* The Enqueuer seam (worker/enqueue.py): a Celery message with no retries *)
(* yet, or nothing when enqueue_reviews is off.                            *)
Enqueue(k) == IF EnqueueReviews THEN Publish(k, 0) ELSE UNCHANGED brokerVars

(* A reviewable delivery passes every gate and its review is enqueued.     *)
Dispatch(g, r) ==
  /\ Authentic(r) /\ ~Replayed(g, r) /\ r.kind = "review"
  /\ Remember(g, r)
  /\ Enqueue(r.key)
  /\ accepts' = [accepts EXCEPT ![r.key] = @ + 1]

(* 202 accepted: the audit record follows.                                 *)
Accept(g, r) ==
  /\ Dispatch(g, r)
  /\ audit' = [audit EXCEPT ![g] = @ \cup {r.key}]
  /\ Answer(r, "accepted")

(* The connection to the broker breaks after the message arrived: enqueue  *)
(* raises, the request ends in a 500 without an audit record, and the      *)
(* review runs all the same.                                               *)
EnqueueAnswerLost(g, r) ==
  /\ EnqueueReviews /\ Dispatch(g, r)
  /\ Answer(r, "error")
  /\ UNCHANGED audit

(* The broker is down: enqueue raises and nothing is queued, but the id    *)
(* stays in the guard.                                                     *)
EnqueueFails(g, r) ==
  /\ Authentic(r) /\ ~Replayed(g, r) /\ r.kind = "review" /\ EnqueueReviews
  /\ Remember(g, r)
  /\ Answer(r, "error")
  /\ UNCHANGED <<audit, accepts, brokerVars>>

GithubWebhook(g, r) ==
  \/ Refuse(g, r)
  \/ IgnoreDuplicate(g, r)
  \/ Dismiss(g, r)
  \/ Accept(g, r)
  \/ EnqueueAnswerLost(g, r)
  \/ EnqueueFails(g, r)

(* window_seconds pass after id was remembered; the entry is removed by    *)
(* the next check_and_remember.                                            *)
Age(g, id) ==
  /\ id \in Live(g) /\ forgets < MaxForgets
  /\ aged' = [aged EXCEPT ![g] = @ \cup {id}]
  /\ forgets' = forgets + 1
  /\ UNCHANGED <<seen, audit, accepts, answers, requests, brokerVars>>

(* create_app builds a new guard and a new audit log: neither is durable.  *)
RestartGateway(g) ==
  /\ forgets < MaxForgets
  /\ seen' = [seen EXCEPT ![g] = {}]
  /\ aged' = [aged EXCEPT ![g] = {}]
  /\ audit' = [audit EXCEPT ![g] = {}]
  /\ forgets' = forgets + 1
  /\ UNCHANGED <<accepts, answers, requests, brokerVars>>

GatewayNext ==
  \E g \in Gateway :
    \/ \E r \in Request : GithubWebhook(g, r)
    \/ \E id \in DeliveryId : Age(g, id)
    \/ RestartGateway(g)
=============================================================================
