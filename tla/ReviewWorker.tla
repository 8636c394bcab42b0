---------------------------- MODULE ReviewWorker ----------------------------
(***************************************************************************)
(* The Celery worker processes running review_pull_request                 *)
(* (worker/tasks.py), process_pull_request (worker/pipeline.py) and        *)
(* publish_review (publish/publisher.py).  GitHub is the pair of sets      *)
(* reviews and checks; an entry names the execution (message) that wrote   *)
(* it, so it can be counted and matched.                                   *)
(*                                                                         *)
(* pc of a process, one value per point at which it may be interrupted:    *)
(*   idle       no message                                                 *)
(*   running    in _run, before anything was published                     *)
(*   posting    the review is computed, create_review not yet answered     *)
(*   checking   create_review answered, create_check_run not yet           *)
(*   recording  both answered, _processed.add not yet executed             *)
(*   failed     the except branch, about to call self.retry                *)
(*   retried    the retry is published, the message not yet acknowledged   *)
(***************************************************************************)
EXTENDS Broker

CONSTANTS
  Worker,      \* worker processes (prefork children), each with a _processed
  None,        \* no message, no event
  Outcome,     \* bound: the ReviewEvents a computed review may end in
  MaxCrashes   \* bound: process deaths in a behaviour

Event == {"APPROVE", "REQUEST_CHANGES", "COMMENT"}
Conclusion == {"SUCCESS", "FAILURE"}
Stage == {"idle", "running", "posting", "checking", "recording", "failed", "retried"}

ASSUME WorkerAssumption ==
  /\ MaxCrashes \in Nat
  /\ Outcome \subseteq Event
  /\ None \notin Message

VARIABLES
  pc,         \* per process: stage of its task
  job,        \* per process: the message it holds
  event,      \* per process: the ReviewEvent of the computed result
  processed,  \* per process: the _processed set
  reviews,    \* GitHub: posted reviews
  checks,     \* GitHub: completed check runs
  dropped,    \* keys with a message let go although its task failed
  crashes     \* history: process deaths so far

github == <<reviews, checks>>
workerVars == <<pc, job, event, processed, reviews, checks, dropped, crashes>>

WorkerTypeOK ==
  /\ pc \in [Worker -> Stage]
  /\ job \in [Worker -> Message \cup {None}]
  /\ event \in [Worker -> Event \cup {None}]
  /\ processed \in [Worker -> SUBSET Key]
  /\ reviews \subseteq [job : Message, event : Event]
  /\ checks \subseteq [job : Message, conclusion : Conclusion]
  /\ dropped \subseteq Key
  /\ crashes \in Nat

WorkerInit ==
  /\ pc = [w \in Worker |-> "idle"]
  /\ job = [w \in Worker |-> None]
  /\ event = [w \in Worker |-> None]
  /\ processed = [w \in Worker |-> {}]
  /\ reviews = {} /\ checks = {}
  /\ dropped = {}
  /\ crashes = 0

-----------------------------------------------------------------------------
Goto(w, stage) == pc' = [pc EXCEPT ![w] = stage]

(* The process lets go of its message: acknowledged, or given back.        *)
Release(w) ==
  /\ Goto(w, "idle")
  /\ job' = [job EXCEPT ![w] = None]
  /\ event' = [event EXCEPT ![w] = None]

(* Mutant of StartReview: the key is marked before the review is done.     *)
StartReviewMarked(w, m) ==
  /\ pc[w] = "idle"
  /\ m.key \notin processed[w]
  /\ Consume(m)
  /\ job' = [job EXCEPT ![w] = m]
  /\ processed' = [processed EXCEPT ![w] = @ \cup {m.key}]
  /\ Goto(w, "running")
  /\ UNCHANGED <<event, github, dropped, crashes>>

(* The task starts: its key is not in this process's _processed.           *)
StartReview(w, m) ==
  /\ pc[w] = "idle"
  /\ m.key \notin processed[w]
  /\ Consume(m)
  /\ job' = [job EXCEPT ![w] = m]
  /\ Goto(w, "running")
  /\ UNCHANGED <<event, processed, github, dropped, crashes>>

(* The task returns {"status": "duplicate"} at once and is acknowledged.   *)
SkipProcessed(w, m) ==
  /\ pc[w] = "idle"
  /\ m.key \in processed[w]
  /\ Consume(m)
  /\ UNCHANGED workerVars

(* Credentials, token, diff and run_review: no effect outside the process, *)
(* for _run passes neither memory nor analytics.  The model's answers vary *)
(* between executions, and so does the event.                              *)
RunReview(w) ==
  /\ pc[w] = "running"
  /\ \E e \in Outcome : event' = [event EXCEPT ![w] = e]
  /\ Goto(w, "posting")
  /\ UNCHANGED <<job, processed, github, dropped, crashes, brokerVars>>

(* Mutant of CreateReview: a failed create_review is swallowed.            *)
CreateReviewSwallowed(w) ==
  /\ pc[w] = "posting"
  /\ \/ reviews' = reviews \cup {[job |-> job[w], event |-> event[w]]}
     \/ UNCHANGED reviews
  /\ Goto(w, "checking")
  /\ UNCHANGED <<job, event, processed, checks, dropped, crashes, brokerVars>>

(* create_review takes effect on GitHub.  Its answer may still be lost     *)
(* (read timeout, 5xx), which raises.                                      *)
CreateReview(w) ==
  /\ pc[w] = "posting"
  /\ reviews' = reviews \cup {[job |-> job[w], event |-> event[w]]}
  /\ \E next \in {"checking", "failed"} : Goto(w, next)
  /\ UNCHANGED <<job, event, processed, checks, dropped, crashes, brokerVars>>

(* Mutant of CheckConclusion: only an approval passes the check.           *)
CheckConclusionOfApproval(e) == IF e = "APPROVE" THEN "SUCCESS" ELSE "FAILURE"

(* The check run fails exactly when the consensus blocks, that is when     *)
(* build_review_request chose REQUEST_CHANGES.                             *)
CheckConclusion(e) == IF e = "REQUEST_CHANGES" THEN "FAILURE" ELSE "SUCCESS"

CreateCheckRun(w) ==
  /\ pc[w] = "checking"
  /\ checks' = checks \cup {[job |-> job[w], conclusion |-> CheckConclusion(event[w])]}
  /\ \E next \in {"recording", "failed"} : Goto(w, next)
  /\ UNCHANGED <<job, event, processed, reviews, dropped, crashes, brokerVars>>

(* _processed.add(key); the task returns and is acknowledged.              *)
Finish(w) ==
  /\ pc[w] = "recording"
  /\ processed' = [processed EXCEPT ![w] = @ \cup {job[w].key}]
  /\ Release(w)
  /\ UNCHANGED <<github, dropped, crashes, brokerVars>>

(* Any exception inside asyncio.run(_run(event)) that left no effect on    *)
(* GitHub: missing credentials, an HTTP error, the soft time limit.        *)
Raise(w) ==
  /\ pc[w] \in {"running", "posting", "checking", "recording"}
  /\ Goto(w, "failed")
  /\ UNCHANGED <<job, event, processed, github, dropped, crashes, brokerVars>>

(* Mutant of Retry: the count of retries is not carried over.              *)
RetryUncounted(w) ==
  /\ pc[w] = "failed" /\ job[w].retries < MaxRetries
  /\ Publish(job[w].key, job[w].retries)
  /\ Goto(w, "retried")
  /\ UNCHANGED <<job, event, processed, github, dropped, crashes>>

(* self.retry republishes the payload with one retry more ...              *)
Retry(w) ==
  /\ pc[w] = "failed" /\ job[w].retries < MaxRetries
  /\ Publish(job[w].key, job[w].retries + 1)
  /\ Goto(w, "retried")
  /\ UNCHANGED <<job, event, processed, github, dropped, crashes>>

(* ... unless the broker is down: Celery then rejects the message in hand, *)
(* and the failure is in the log only.  The retry may have been queued     *)
(* before the connection broke.                                            *)
RetryFails(w) ==
  /\ pc[w] = "failed" /\ job[w].retries < MaxRetries
  /\ \/ UNCHANGED brokerVars
     \/ Publish(job[w].key, job[w].retries + 1)
  /\ dropped' = dropped \cup {job[w].key}
  /\ Release(w)
  /\ UNCHANGED <<processed, github, crashes>>

(* The Retry exception acknowledges the message in hand.                   *)
AckRetried(w) ==
  /\ pc[w] = "retried"
  /\ Release(w)
  /\ UNCHANGED <<processed, github, dropped, crashes, brokerVars>>

(* Mutant of GiveUp: the retries are compared with the wrong bound.        *)
GiveUpBeyond(w) ==
  /\ pc[w] = "failed" /\ job[w].retries > MaxRetries
  /\ dropped' = dropped \cup {job[w].key}
  /\ Release(w)
  /\ UNCHANGED <<processed, github, crashes, brokerVars>>

(* With no retries left self.retry raises the task's own exception: the    *)
(* message is acknowledged as a failure and nothing else remembers it.     *)
GiveUp(w) ==
  /\ pc[w] = "failed" /\ job[w].retries = MaxRetries
  /\ dropped' = dropped \cup {job[w].key}
  /\ Release(w)
  /\ UNCHANGED <<processed, github, crashes, brokerVars>>

(* The process dies and is replaced; its message is queued again.          *)
Crash(w) ==
  /\ crashes < MaxCrashes
  /\ crashes' = crashes + 1
  /\ processed' = [processed EXCEPT ![w] = {}]
  /\ Release(w)
  /\ IF pc[w] = "idle" THEN UNCHANGED brokerVars ELSE Requeue(job[w])
  /\ UNCHANGED <<github, dropped>>

(* task_time_limit: Celery kills the process and acknowledges the message  *)
(* as a failure; it is not retried.                                        *)
HardTimeLimit(w) ==
  /\ pc[w] # "idle" /\ crashes < MaxCrashes
  /\ crashes' = crashes + 1
  /\ processed' = [processed EXCEPT ![w] = {}]
  /\ dropped' = dropped \cup {job[w].key}
  /\ Release(w)
  /\ UNCHANGED <<github, brokerVars>>

(* The steps a live process keeps taking, and those nobody owes.           *)
WorkerStep(w) ==
  \/ \E m \in queue : StartReview(w, m) \/ SkipProcessed(w, m)
  \/ RunReview(w)
  \/ CreateReview(w)
  \/ CreateCheckRun(w)
  \/ Finish(w)
  \/ Raise(w)
  \/ Retry(w)
  \/ RetryFails(w)
  \/ AckRetried(w)
  \/ GiveUp(w)

WorkerFault(w) == Crash(w) \/ HardTimeLimit(w)

WorkerNext == \E w \in Worker : WorkerStep(w) \/ WorkerFault(w)
=============================================================================
