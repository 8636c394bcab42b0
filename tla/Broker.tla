------------------------------- MODULE Broker -------------------------------
(***************************************************************************)
(* The Celery queue between the webhook endpoint and the review workers.   *)
(* Celery and Redis are external; what is modelled is what                 *)
(* worker/celery_app.py asks of them:                                      *)
(*   task_acks_late               a message stays the broker's until the   *)
(*                                task has ended,                          *)
(*   task_reject_on_worker_lost   a message held by a process that died    *)
(*                                goes back on the queue.                  *)
(* Delivery is therefore at least once, in no promised order: the queue is *)
(* a set.  A message is one execution of the task still owed:              *)
(*   tag      which publication it is,                                     *)
(*   key      the review key repo_id:number:head_sha of its payload,       *)
(*   retries  how often Task.retry has republished it,                     *)
(*   lost     how often it came back from a dead worker.                   *)
(***************************************************************************)
EXTENDS Integers, FiniteSets

CONSTANTS
  Key,         \* review keys
  MaxRetries   \* max_retries of the task (3 in worker/tasks.py)

ASSUME MaxRetriesAssumption == MaxRetries \in Nat

VARIABLES
  queue,     \* messages waiting for a worker
  nextTag    \* tag of the next publication

brokerVars == <<queue, nextTag>>

Message == [tag : Nat, key : Key, retries : 0..MaxRetries, lost : Nat]

BrokerTypeOK ==
  /\ queue \subseteq Message
  /\ nextTag \in Nat

BrokerInit ==
  /\ queue = {}
  /\ nextTag = 0

(* apply_async: a new message for key k, published with its retry count.   *)
Publish(k, r) ==
  /\ queue' = queue \cup {[tag |-> nextTag, key |-> k, retries |-> r, lost |-> 0]}
  /\ nextTag' = nextTag + 1

(* A worker process takes message m; it stays unacknowledged meanwhile.    *)
Consume(m) ==
  /\ m \in queue
  /\ queue' = queue \ {m}
  /\ UNCHANGED nextTag

(* Mutant of Requeue: acks_early, a dead process takes its message along.  *)
RequeueNothing(m) == UNCHANGED brokerVars

(* reject_on_worker_lost: the message of a dead process is queued again.   *)
Requeue(m) ==
  /\ queue' = queue \cup {[m EXCEPT !.lost = @ + 1]}
  /\ UNCHANGED nextTag
=============================================================================
