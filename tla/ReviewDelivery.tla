--------------------------- MODULE ReviewDelivery ---------------------------
(***************************************************************************)
(* The delivery of a review, from the webhook to GitHub: the gateway, the  *)
(* queue and the worker processes together, each step belonging to one of  *)
(* them.  The queue is the only state the two sides share.                 *)
(***************************************************************************)
EXTENDS WebhookGateway, ReviewWorker

vars == <<brokerVars, gatewayVars, workerVars>>

TypeOK == BrokerTypeOK /\ GatewayTypeOK /\ WorkerTypeOK

Init == BrokerInit /\ GatewayInit /\ WorkerInit

Next ==
  \/ GatewayNext /\ UNCHANGED workerVars
  \/ WorkerNext /\ UNCHANGED gatewayVars

(* Workers run until the queue is empty; requests, faults and time owe     *)
(* nothing.                                                                *)
Fairness == \A w \in Worker : WF_vars(WorkerStep(w) /\ UNCHANGED gatewayVars)

Spec == Init /\ [][Next]_vars
FairSpec == Spec /\ Fairness

-----------------------------------------------------------------------------
Holds(w, k) == pc[w] # "idle" /\ job[w].key = k
Queued(k) == \E m \in queue : m.key = k
Reviewed(k) == \E r \in reviews : r.job.key = k
Complete(k) == \E c \in checks : c.job.key = k

(* A process holds a message exactly while it is not idle.                 *)
BusyHasJob == \A w \in Worker : pc[w] = "idle" <=> job[w] = None

(* No accepted review is lost without a trace: whatever crashes, retries   *)
(* and duplicates happened, an enqueued key is still queued, held by a     *)
(* process, completely published, or was given up with its failure logged  *)
(* (acks_late, reject_on_worker_lost, self.retry, the _processed skip).    *)
NoSilentLoss ==
  EnqueueReviews =>
    \A k \in Key : accepts[k] > 0 =>
      \/ Queued(k)
      \/ \E w \in Worker : Holds(w, k)
      \/ Complete(k)
      \/ k \in dropped

(* A key in any process's _processed set has both its review and its check *)
(* run on GitHub, so skipping a duplicate never skips unfinished work      *)
(* (tasks.py:44-52).                                                       *)
SkipsOnlyPublished ==
  \A w \in Worker : \A k \in processed[w] : Reviewed(k) /\ Complete(k)

(* Every check run was preceded by a review of the same execution that     *)
(* tells the author the same thing: a failing check never stands beside a  *)
(* review of that execution which did not request changes, nor a passing   *)
(* one beside a blocking review (publish_review).                          *)
CheckMatchesReview ==
  \A c \in checks : \E r \in reviews :
    r.job = c.job /\ (c.conclusion = "FAILURE" <=> r.event = "REQUEST_CHANGES")

(* At-least-once delivery has a price that does not grow without bound:    *)
(* every enqueue and every process death costs at most MaxRetries+1 posted *)
(* reviews of a key (tasks.py:39, celery_app.py:23-24).                    *)
PostsBounded ==
  \A k \in Key :
    Cardinality({r \in reviews : r.job.key = k})
      <= (accepts[k] + crashes) * (MaxRetries + 1)

(* The guard holds only ids of requests that passed the size caps and the  *)
(* signature check: an unauthenticated request can not use up the id of a  *)
(* genuine delivery (webhooks.py:53-77, the order of the gates).           *)
GuardHoldsAuthentic ==
  \A g \in Gateway : \A id \in seen[g] :
    \E a \in answers : a.req.id = id /\ Authentic(a.req)

(* How often a key is enqueued is bounded by the deliveries that name it:  *)
(* each id counts once per process and once more each time a guard forgot  *)
(* something (webhooks.py:71-77).                                          *)
AcceptsBounded ==
  \A k \in Key :
    accepts[k] <= Cardinality({r.id : r \in {q \in Request : q.key = k}} \ {NoId})
                    * (Cardinality(Gateway) + forgets)

StartsNothingPublished ==
  \A w \in Worker : \A k \in processed[w] \cap processed'[w] :
    Holds(w, k)' => Holds(w, k)

(* A process that once published a key completely publishes nothing more   *)
(* for it as long as it lives (tasks.py:44, the _processed check).         *)
ProcessedIsFinal == [][StartsNothingPublished]_vars

(* Every accepted review is settled: published as review and check run, or *)
(* given up after its retries (FairSpec: processes keep working).          *)
AcceptedIsSettled ==
  \A k \in Key : accepts[k] > 0 ~> (Complete(k) \/ k \in dropped)

(* How far the publication of a key has come, whatever executions did it.  *)
PublicStage(k) ==
  CASE Complete(k) -> "complete"
    [] Reviewed(k) /\ ~Complete(k) -> "reviewed"
    [] accepts[k] > 0 /\ ~Reviewed(k) /\ ~Complete(k) -> "owed"
    [] OTHER -> "none"

Promise == INSTANCE ReviewPromise WITH
  stage <- [k \in Key |-> PublicStage(k)],
  gaveUp <- dropped

(* Seen from outside, queue, retries, duplicates and crashes leave exactly *)
(* the promise of ReviewPromise: an owed review is posted, then its check  *)
(* run, never the other way round, and it is settled in the end.           *)

KeepsPromise == Promise!Spec

-----------------------------------------------------------------------------
(* What the comments of the code say of it, checked in runs of their own.  *)

(* "at-least-once delivery and retries never double-post" (tasks.py:4-5).  *)
NeverDoublePosts ==
  \A k \in Key : Cardinality({r \in reviews : r.job.key = k}) <= 1
=============================================================================
