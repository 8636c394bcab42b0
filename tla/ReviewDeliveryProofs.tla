------------------------ MODULE ReviewDeliveryProofs ------------------------
(***************************************************************************)
(* What holds of ReviewDelivery for every set of keys, processes and       *)
(* requests, every number of retries and every bound.  The inductive       *)
(* invariant is the conjunction of                                         *)
(*   Inv0        types, a process holds a message iff it is not idle, and   *)
(*               knows its event once the review is computed;             *)
(*   Progress    what a process has on GitHub at each stage of its task;   *)
(*   LiveCopy    NoSilentLoss without counting the copies that a retry     *)
(*               already replaced: those may be acknowledged at any time.  *)
(***************************************************************************)
EXTENDS ReviewDelivery, FiniteSetTheorems, TLAPS

EventKnown ==
  \A w \in Worker : pc[w] \in {"posting", "checking", "recording"} => event[w] \in Event

Inv0 == TypeOK /\ BusyHasJob /\ EventKnown

Progress ==
  \A w \in Worker :
    /\ pc[w] \in {"checking", "recording"} =>
         [job |-> job[w], event |-> event[w]] \in reviews
    /\ pc[w] = "recording" => \E c \in checks : c.job = job[w]

HoldsLive(w, k) == Holds(w, k) /\ pc[w] # "retried"

Traced(k) ==
  \/ Queued(k)
  \/ \E w \in Worker : HoldsLive(w, k)
  \/ Complete(k)
  \/ k \in dropped

LiveCopy == EnqueueReviews => \A k \in Key : accepts[k] > 0 => Traced(k)

-----------------------------------------------------------------------------
(* Types.                                                                  *)

LEMMA InitInv0 == Init => Inv0
<1> SUFFICES ASSUME Init PROVE Inv0
  OBVIOUS
<1> USE DEF Init, BrokerInit, GatewayInit, WorkerInit
<1>1. TypeOK
  BY DEF TypeOK, BrokerTypeOK, GatewayTypeOK, WorkerTypeOK, Stage
<1>2. BusyHasJob
  BY DEF BusyHasJob
<1>3. EventKnown
  BY DEF EventKnown
<1> QED
  BY <1>1, <1>2, <1>3 DEF Inv0

LEMMA GatewayStepInv0 ==
  ASSUME Inv0, GatewayNext, UNCHANGED workerVars
  PROVE  Inv0'
<1> USE DEF Inv0, TypeOK
<1>1. PICK g \in Gateway :
        \/ \E r \in Request : GithubWebhook(g, r)
        \/ \E id \in DeliveryId : Age(g, id)
        \/ RestartGateway(g)
  BY DEF GatewayNext
<1>2. WorkerTypeOK' /\ BusyHasJob' /\ EventKnown'
  BY DEF WorkerTypeOK, BusyHasJob, EventKnown, workerVars, github
<1>3. ASSUME NEW r \in Request, GithubWebhook(g, r)
      PROVE  BrokerTypeOK' /\ GatewayTypeOK'
  <2> USE DEF GatewayTypeOK, BrokerTypeOK, brokerVars, guardVars, Answer, Status
  <2>0. r.id \in DeliveryId \cup {NoId} /\ r.key \in Key
    BY GatewayAssumption
  <2>1. CASE Refuse(g, r)
    BY <2>1 DEF Refuse
  <2>2. ASSUME Remember(g, r)
        PROVE  /\ seen' \in [Gateway -> SUBSET DeliveryId]
               /\ aged' \in [Gateway -> SUBSET DeliveryId]
    BY <2>0, <2>2 DEF Remember, Live
  <2>3. CASE IgnoreDuplicate(g, r)
    BY <2>2, <2>3 DEF IgnoreDuplicate
  <2>4. CASE Dismiss(g, r)
    BY <2>2, <2>4 DEF Dismiss
  <2>5. ASSUME Dispatch(g, r)
        PROVE  BrokerTypeOK' /\ accepts' \in [Key -> Nat]
    BY <2>0, <2>5, MaxRetriesAssumption DEF Dispatch, Enqueue, Publish, Message
  <2>6. CASE Accept(g, r)
    <3>1. audit' \in [Gateway -> SUBSET Key]
      BY <2>0, <2>6 DEF Accept
    <3> QED
      BY <2>2, <2>5, <2>6, <3>1 DEF Accept, Dispatch
  <2>7. CASE EnqueueAnswerLost(g, r)
    BY <2>2, <2>5, <2>7 DEF EnqueueAnswerLost, Dispatch
  <2>8. CASE EnqueueFails(g, r)
    BY <2>2, <2>8 DEF EnqueueFails
  <2> QED
    BY <1>3, <2>1, <2>3, <2>4, <2>6, <2>7, <2>8 DEF GithubWebhook
<1>4. ASSUME NEW id \in DeliveryId, Age(g, id)
      PROVE  BrokerTypeOK' /\ GatewayTypeOK'
  BY <1>4 DEF Age, Live, BrokerTypeOK, GatewayTypeOK, brokerVars
<1>5. ASSUME RestartGateway(g)
      PROVE  BrokerTypeOK' /\ GatewayTypeOK'
  BY <1>5 DEF RestartGateway, BrokerTypeOK, GatewayTypeOK, brokerVars
<1> QED
  BY <1>1, <1>2, <1>3, <1>4, <1>5

LEMMA WorkerStepInv0 ==
  ASSUME Inv0, WorkerNext, UNCHANGED gatewayVars
  PROVE  Inv0'
<1> USE MaxRetriesAssumption, WorkerAssumption
    DEF Inv0, TypeOK, BusyHasJob, EventKnown, BrokerTypeOK, WorkerTypeOK, Stage, brokerVars, github, Goto, Release
<1>1. PICK w \in Worker : WorkerStep(w) \/ WorkerFault(w)
  BY DEF WorkerNext
<1>2. GatewayTypeOK'
  BY DEF GatewayTypeOK, gatewayVars
<1>3. pc[w] # "idle" => job[w] \in Message
  OBVIOUS
<1>4. ASSUME NEW m \in queue, StartReview(w, m) PROVE Inv0'
  BY <1>2, <1>4 DEF StartReview, Consume
<1>5. ASSUME NEW m \in queue, SkipProcessed(w, m) PROVE Inv0'
  BY <1>2, <1>5 DEF SkipProcessed, Consume, workerVars
<1>6. CASE RunReview(w)
  BY <1>2, <1>6 DEF RunReview
<1>7. CASE CreateReview(w)
  BY <1>2, <1>3, <1>7 DEF CreateReview
<1>8. CASE CreateCheckRun(w)
  BY <1>2, <1>3, <1>8 DEF CreateCheckRun, CheckConclusion, Conclusion
<1>9. CASE Finish(w)
  BY <1>2, <1>3, <1>9 DEF Finish, Message
<1>10. CASE Raise(w)
  BY <1>2, <1>10 DEF Raise
<1>11. CASE Retry(w)
  BY <1>2, <1>3, <1>11 DEF Retry, Publish, Message
<1>12. CASE AckRetried(w)
  BY <1>2, <1>12 DEF AckRetried
<1>13. CASE GiveUp(w)
  BY <1>2, <1>3, <1>13 DEF GiveUp, Message
<1>14. CASE Crash(w)
  BY <1>2, <1>3, <1>14 DEF Crash, Requeue, Message
<1>15. CASE HardTimeLimit(w)
  BY <1>2, <1>3, <1>15 DEF HardTimeLimit, Message
<1>16. CASE RetryFails(w)
  <2>1. job[w].key \in Key
    BY <1>3, <1>16 DEF RetryFails, Message
  <2>2. BrokerTypeOK'
    BY <1>3, <1>16 DEF RetryFails, Publish, Message
  <2> QED
    BY <1>2, <1>16, <2>1, <2>2 DEF RetryFails
<1> QED
  BY <1>1, <1>4, <1>5, <1>6, <1>7, <1>8, <1>9, <1>10, <1>11, <1>12, <1>13, <1>14, <1>15, <1>16
     DEF WorkerStep, WorkerFault

LEMMA Inv0Step == Inv0 /\ [Next]_vars => Inv0'
<1>1. ASSUME Inv0, Next PROVE Inv0'
  BY <1>1, GatewayStepInv0, WorkerStepInv0 DEF Next
<1>2. ASSUME Inv0, UNCHANGED vars PROVE Inv0'
  BY <1>2 DEF Inv0, TypeOK, BusyHasJob, EventKnown, BrokerTypeOK, GatewayTypeOK, WorkerTypeOK,
              vars, brokerVars, gatewayVars, workerVars, github
<1> QED
  BY <1>1, <1>2

(* Every state of every behaviour has the types the modules declare, and a *)
(* process holds a message exactly while it is not idle.                   *)
THEOREM TypeCorrect == Spec => [](TypeOK /\ BusyHasJob)
<1>1. Inv0 => TypeOK /\ BusyHasJob
  BY DEF Inv0
<1> QED
  BY InitInv0, Inv0Step, <1>1, PTL DEF Spec

-----------------------------------------------------------------------------
(* Publication.                                                            *)

(* What GitHub has, and what was given up, is never taken back.            *)
LEMMA Monotone ==
  ASSUME [Next]_vars
  PROVE  /\ reviews \subseteq reviews'
         /\ checks \subseteq checks'
         /\ dropped \subseteq dropped'
<1> USE DEF github
<1>1. CASE UNCHANGED workerVars
  BY <1>1 DEF workerVars
<1>2. CASE WorkerNext
  <2>1. PICK w \in Worker : WorkerStep(w) \/ WorkerFault(w)
    BY <1>2 DEF WorkerNext
  <2> QED
    BY <2>1 DEF WorkerStep, WorkerFault, StartReview, SkipProcessed, RunReview, CreateReview,
                CreateCheckRun, Finish, Raise, Retry, RetryFails, AckRetried, GiveUp, Crash, HardTimeLimit,
                workerVars
<1> QED
  BY <1>1, <1>2 DEF Next, vars

LEMMA ProgressStep ==
  ASSUME Inv0, Progress, [Next]_vars
  PROVE  Progress'
<1>1. CASE UNCHANGED workerVars
  BY <1>1 DEF Progress, workerVars, github
<1>2. CASE WorkerNext
  <2>1. PICK w \in Worker : WorkerStep(w) \/ WorkerFault(w)
    BY <1>2 DEF WorkerNext
  <2> USE DEF Inv0, TypeOK, WorkerTypeOK, Progress, Goto, Release, github, Stage
  <2>2. ASSUME NEW m \in queue, StartReview(w, m) PROVE Progress'
    BY <2>2 DEF StartReview
  <2>3. ASSUME NEW m \in queue, SkipProcessed(w, m) PROVE Progress'
    BY <2>3 DEF SkipProcessed, workerVars
  <2>4. CASE RunReview(w)
    BY <2>4 DEF RunReview
  <2>5. CASE CreateReview(w)
    BY <2>5 DEF CreateReview
  <2>6. CASE CreateCheckRun(w)
    <3> DEFINE c0 == [job |-> job[w], conclusion |-> CheckConclusion(event[w])]
    <3>0. c0 \in checks' /\ c0.job = job[w]
      BY <2>6 DEF CreateCheckRun
    <3> HIDE DEF c0
    <3>1. /\ reviews' = reviews /\ job' = job /\ event' = event
          /\ checks \subseteq checks'
          /\ \E c \in checks' : c.job = job[w]
          /\ \A v \in Worker : v # w => pc'[v] = pc[v]
      BY <2>6, <3>0 DEF CreateCheckRun
    <3>2. pc[w] = "checking"
      BY <2>6 DEF CreateCheckRun
    <3> QED
      BY <3>1, <3>2
  <2>7. CASE Finish(w)
    BY <2>7 DEF Finish
  <2>8. CASE Raise(w)
    BY <2>8 DEF Raise
  <2>9. CASE Retry(w)
    BY <2>9 DEF Retry
  <2>10. CASE AckRetried(w)
    BY <2>10 DEF AckRetried
  <2>11. CASE GiveUp(w)
    BY <2>11 DEF GiveUp
  <2>12. CASE Crash(w)
    BY <2>12 DEF Crash
  <2>13. CASE HardTimeLimit(w)
    BY <2>13 DEF HardTimeLimit
  <2>14. CASE RetryFails(w)
    BY <2>14 DEF RetryFails
  <2> QED
    BY <2>1, <2>2, <2>3, <2>4, <2>5, <2>6, <2>7, <2>8, <2>9, <2>10, <2>11, <2>12, <2>13, <2>14
       DEF WorkerStep, WorkerFault
<1> QED
  BY <1>1, <1>2 DEF Next, vars

(* A check run is written after the review of the same execution, from the *)
(* same event.                                                             *)
LEMMA MatchStep ==
  ASSUME Inv0, Progress, CheckMatchesReview, [Next]_vars
  PROVE  CheckMatchesReview'
<1>1. ASSUME checks' = checks PROVE CheckMatchesReview'
  BY <1>1, Monotone DEF CheckMatchesReview
<1>2. ASSUME NEW w \in Worker, CreateCheckRun(w) PROVE CheckMatchesReview'
  <2> DEFINE r0 == [job |-> job[w], event |-> event[w]]
  <2>1. r0 \in reviews /\ reviews' = reviews
    BY <1>2 DEF CreateCheckRun, Progress
  <2>2. \A c \in checks' : c \in checks \/ (c.job = r0.job /\ c.conclusion = CheckConclusion(r0.event))
    BY <1>2 DEF CreateCheckRun
  <2> QED
    BY <2>1, <2>2 DEF CheckMatchesReview, CheckConclusion
<1>3. checks' = checks \/ \E w \in Worker : CreateCheckRun(w)
  <2>1. CASE UNCHANGED workerVars
    BY <2>1 DEF workerVars, github
  <2>2. CASE WorkerNext
    BY <2>2 DEF WorkerNext, WorkerStep, WorkerFault, StartReview, SkipProcessed, RunReview,
                CreateReview, Finish, Raise, Retry, RetryFails, AckRetried, GiveUp, Crash, HardTimeLimit,
                workerVars, github
  <2> QED
    BY <2>1, <2>2 DEF Next, vars
<1> QED
  BY <1>1, <1>2, <1>3

LEMMA SkipStep ==
  ASSUME Inv0, Progress, CheckMatchesReview, SkipsOnlyPublished, [Next]_vars
  PROVE  SkipsOnlyPublished'
<1>1. \A k \in Key : (Reviewed(k) => Reviewed(k)') /\ (Complete(k) => Complete(k)')
  BY Monotone DEF Reviewed, Complete
<1>2. ASSUME \A v \in Worker : processed'[v] \subseteq processed[v]
      PROVE  SkipsOnlyPublished'
  BY <1>1, <1>2 DEF SkipsOnlyPublished, Inv0, TypeOK, WorkerTypeOK
<1>3. ASSUME NEW w \in Worker, Finish(w) PROVE SkipsOnlyPublished'
  <2>1. Complete(job[w].key) /\ Reviewed(job[w].key)
    BY <1>3 DEF Finish, Progress, Complete, Reviewed, CheckMatchesReview
  <2>2. job[w].key \in Key
    BY <1>3 DEF Finish, Inv0, TypeOK, WorkerTypeOK, BusyHasJob, Message
  <2>3. \A v \in Worker : processed'[v] \subseteq processed[v] \cup {job[w].key}
    BY <1>3 DEF Finish, Inv0, TypeOK, WorkerTypeOK
  <2> QED
    BY <1>1, <2>1, <2>2, <2>3 DEF SkipsOnlyPublished, Inv0, TypeOK, WorkerTypeOK
<1>4. (\A v \in Worker : processed'[v] \subseteq processed[v]) \/ \E w \in Worker : Finish(w)
  <2>1. CASE UNCHANGED workerVars
    BY <2>1 DEF workerVars
  <2>2. CASE WorkerNext
    BY <2>2 DEF WorkerNext, WorkerStep, WorkerFault, StartReview, SkipProcessed, RunReview,
                CreateReview, CreateCheckRun, Raise, Retry, RetryFails, AckRetried, GiveUp, Crash,
                HardTimeLimit, workerVars, Inv0, TypeOK, WorkerTypeOK
  <2> QED
    BY <2>1, <2>2 DEF Next, vars
<1> QED
  BY <1>2, <1>3, <1>4

-----------------------------------------------------------------------------
(* No silent loss.                                                         *)

LEMMA PublishQueues ==
  ASSUME NEW k, NEW r, Publish(k, r)
  PROVE  Queued(k)' /\ queue \subseteq queue'
<1> DEFINE m == [tag |-> nextTag, key |-> k, retries |-> r, lost |-> 0]
<1>1. m \in queue' /\ queue \subseteq queue'
  BY DEF Publish
<1>2. m.key = k
  OBVIOUS
<1> QED
  BY <1>1, <1>2 DEF Queued

LEMMA GatewayTraced ==
  ASSUME Inv0, LiveCopy, GatewayNext, UNCHANGED workerVars
  PROVE  LiveCopy'
<1> SUFFICES ASSUME EnqueueReviews, NEW k \in Key, accepts'[k] > 0
             PROVE  Traced(k)'
  BY DEF LiveCopy
<1> USE DEF workerVars, github, brokerVars, Traced, HoldsLive, Holds, Complete, Queued
<1>1. CASE accepts' = accepts /\ queue' = queue
  BY <1>1 DEF LiveCopy
<1>2. ASSUME NEW g \in Gateway, NEW r \in Request, Dispatch(g, r)
      PROVE  Traced(k)'
  <2>1. CASE r.key = k
    BY <1>2, <2>1, PublishQueues DEF Dispatch, Enqueue
  <2>2. CASE r.key # k
    <3>1. accepts'[k] = accepts[k] /\ queue \subseteq queue'
      BY <1>2, <2>2 DEF Dispatch, Enqueue, Publish, Inv0, TypeOK, GatewayTypeOK
    <3> QED
      BY <3>1 DEF LiveCopy
  <2> QED
    BY <2>1, <2>2
<1> QED
  BY <1>1, <1>2 DEF GatewayNext, GithubWebhook, Refuse, IgnoreDuplicate, Dismiss, Accept,
                    EnqueueAnswerLost, EnqueueFails, Age, RestartGateway

LEMMA WorkerTraced ==
  ASSUME Inv0, Progress, SkipsOnlyPublished, [Next]_vars,
         NEW w \in Worker, WorkerStep(w) \/ WorkerFault(w),
         NEW k \in Key, Traced(k)
  PROVE  Traced(k)'
<1>1. (Complete(k) => Complete(k)') /\ (k \in dropped => k \in dropped')
  BY Monotone DEF Complete
<1> USE <1>1 DEF Traced, Inv0, TypeOK, WorkerTypeOK, Stage, BusyHasJob, Goto, Release
<1> USE DEF HoldsLive, Holds, Queued, brokerVars
<1>2. ASSUME NEW m \in queue, StartReview(w, m) PROVE Traced(k)'
  <2>1. CASE m.key = k
    BY <1>2, <2>1 DEF StartReview, Consume
  <2>2. CASE m.key # k
    BY <1>2, <2>2 DEF StartReview, Consume
  <2> QED
    BY <2>1, <2>2
<1>3. ASSUME NEW m \in queue, SkipProcessed(w, m) PROVE Traced(k)'
  <2>1. Complete(m.key)
    BY <1>3 DEF SkipProcessed, SkipsOnlyPublished
  <2> QED
    BY <1>3, <2>1 DEF SkipProcessed, Consume, workerVars
<1>4. CASE RunReview(w)
  BY <1>4 DEF RunReview
<1>5. CASE CreateReview(w)
  BY <1>5 DEF CreateReview
<1>6. CASE CreateCheckRun(w)
  BY <1>6 DEF CreateCheckRun
<1>7. CASE Finish(w)
  <2>1. Complete(job[w].key)
    BY <1>7 DEF Finish, Progress, Complete
  <2> QED
    BY <1>7, <2>1 DEF Finish
<1>8. CASE Raise(w)
  BY <1>8 DEF Raise
<1>9. CASE Retry(w)
  <2>1. Publish(job[w].key, job[w].retries + 1) /\ job' = job
    BY <1>9 DEF Retry
  <2>2. Queued(job[w].key)' /\ queue \subseteq queue'
    BY <2>1, PublishQueues
  <2> QED
    BY <1>9, <2>1, <2>2 DEF Retry
<1>10. CASE AckRetried(w)
  BY <1>10 DEF AckRetried
<1>11. CASE GiveUp(w)
  BY <1>11 DEF GiveUp
<1>12. CASE Crash(w)
  <2>1. job[w].key = k /\ pc[w] # "idle" => Queued(k)'
    <3> SUFFICES ASSUME job[w].key = k, pc[w] # "idle" PROVE Queued(k)'
      OBVIOUS
    <3>1. [job[w] EXCEPT !.lost = @ + 1] \in queue'
      BY <1>12 DEF Crash, Requeue
    <3>2. [job[w] EXCEPT !.lost = @ + 1].key = k
      BY WorkerAssumption DEF Message
    <3> QED
      BY <3>1, <3>2
  <2>2. queue \subseteq queue'
    BY <1>12 DEF Crash, Requeue
  <2> QED
    BY <1>12, <2>1, <2>2 DEF Crash
<1>13. CASE HardTimeLimit(w)
  BY <1>13 DEF HardTimeLimit
<1>14. CASE RetryFails(w)
  <2>1. /\ dropped' = dropped \cup {job[w].key} /\ queue \subseteq queue'
        /\ \A v \in Worker : v # w => pc'[v] = pc[v] /\ job'[v] = job[v]
    BY <1>14 DEF RetryFails, Publish
  <2>2. CASE job[w].key = k
    BY <2>1, <2>2
  <2>3. CASE job[w].key # k
    BY <2>1, <2>3
  <2> QED
    BY <2>2, <2>3
<1> QED
  BY <1>2, <1>3, <1>4, <1>5, <1>6, <1>7, <1>8, <1>9, <1>10, <1>11, <1>12, <1>13, <1>14
     DEF WorkerStep, WorkerFault

LEMMA LiveCopyStep ==
  ASSUME Inv0, Progress, SkipsOnlyPublished, LiveCopy, [Next]_vars
  PROVE  LiveCopy'
<1>1. CASE UNCHANGED vars
  BY <1>1 DEF LiveCopy, Traced, HoldsLive, Holds, Queued, Complete, vars, brokerVars,
              gatewayVars, workerVars, github
<1>2. CASE GatewayNext /\ UNCHANGED workerVars
  BY <1>2, GatewayTraced
<1>3. CASE WorkerNext /\ UNCHANGED gatewayVars
  <2>1. accepts' = accepts
    BY <1>3 DEF gatewayVars
  <2>2. ASSUME NEW k \in Key, Traced(k) PROVE Traced(k)'
    BY <1>3, <2>2, WorkerTraced DEF WorkerNext
  <2> QED
    BY <2>1, <2>2 DEF LiveCopy
<1> QED
  BY <1>1, <1>2, <1>3 DEF Next

IInv == Inv0 /\ Progress /\ CheckMatchesReview /\ SkipsOnlyPublished /\ LiveCopy

LEMMA InitIInv == Init => IInv
<1> SUFFICES ASSUME Init PROVE IInv
  OBVIOUS
<1>1. Progress /\ CheckMatchesReview /\ SkipsOnlyPublished /\ LiveCopy
  BY DEF Init, GatewayInit, WorkerInit, Progress, CheckMatchesReview, SkipsOnlyPublished, LiveCopy
<1> QED
  BY <1>1, InitInv0 DEF IInv

LEMMA IInvHolds == Spec => []IInv
<1>1. IInv /\ [Next]_vars => IInv'
  BY Inv0Step, ProgressStep, MatchStep, SkipStep, LiveCopyStep DEF IInv
<1> QED
  BY InitIInv, <1>1, PTL DEF Spec

(* An enqueued review never vanishes: it is queued, held, published with   *)
(* both its review and its check run, or recorded as given up.             *)
THEOREM NothingIsLost == Spec => []NoSilentLoss
<1>1. IInv => NoSilentLoss
  BY DEF IInv, LiveCopy, Traced, HoldsLive, NoSilentLoss
<1> QED
  BY IInvHolds, <1>1, PTL

(* A duplicate is skipped only when its review and check run are on GitHub.*)
THEOREM SkipIsSafe == Spec => []SkipsOnlyPublished
<1>1. IInv => SkipsOnlyPublished
  BY DEF IInv
<1> QED
  BY IInvHolds, <1>1, PTL

(* A check run says what the review of the same execution says.            *)
THEOREM ChecksMatch == Spec => []CheckMatchesReview
<1>1. IInv => CheckMatchesReview
  BY DEF IInv
<1> QED
  BY IInvHolds, <1>1, PTL

(* While a process remembers having published a key it never starts on it  *)
(* again.                                                                  *)
THEOREM NoRestartOfPublished == Spec => ProcessedIsFinal
<1>1. IInv /\ [Next]_vars => [StartsNothingPublished]_vars
  <2> SUFFICES ASSUME IInv, [Next]_vars, NEW v \in Worker, NEW k \in processed[v] \cap processed'[v],
                      Holds(v, k)'
               PROVE  Holds(v, k)
    BY DEF StartsNothingPublished
  <2> USE DEF Holds, IInv, Inv0, TypeOK, WorkerTypeOK, Stage, Goto, Release
  <2>1. CASE UNCHANGED workerVars
    BY <2>1 DEF workerVars
  <2>2. CASE WorkerNext
    BY <2>2 DEF WorkerNext, WorkerStep, WorkerFault, StartReview, SkipProcessed, RunReview,
                CreateReview, CreateCheckRun, Finish, Raise, Retry, RetryFails, AckRetried, GiveUp, Crash,
                HardTimeLimit, workerVars
  <2> QED
    BY <2>1, <2>2 DEF Next, vars
<1> QED
  BY IInvHolds, <1>1, PTL DEF ProcessedIsFinal, Spec

-----------------------------------------------------------------------------
(* The gateway.                                                            *)

(* The replay guard only ever holds ids of authentic requests.             *)
THEOREM GuardIsClean == Spec => []GuardHoldsAuthentic
<1>1. Init => GuardHoldsAuthentic
  BY DEF Init, GatewayInit, GuardHoldsAuthentic
<1>2. ASSUME Inv0, GuardHoldsAuthentic, [Next]_vars
      PROVE  GuardHoldsAuthentic'
  <2> USE DEF Inv0, TypeOK, GatewayTypeOK
  <2>1. CASE UNCHANGED gatewayVars
    BY <1>2, <2>1 DEF GuardHoldsAuthentic, gatewayVars
  <2>2. CASE GatewayNext
    <3>1. PICK g \in Gateway :
            \/ \E r \in Request : GithubWebhook(g, r)
            \/ \E id \in DeliveryId : Age(g, id)
            \/ RestartGateway(g)
      BY <2>2 DEF GatewayNext
    <3>2. ASSUME \A h \in Gateway : seen'[h] \subseteq seen[h], answers \subseteq answers'
          PROVE  GuardHoldsAuthentic'
      BY <1>2, <3>2 DEF GuardHoldsAuthentic
    <3>3. ASSUME NEW r \in Request, GithubWebhook(g, r) PROVE GuardHoldsAuthentic'
      <4>1. answers \subseteq answers' /\ \E a \in answers' : a.req = r
        <5>1. PICK st : Answer(r, st)
          BY <3>3 DEF GithubWebhook, Refuse, IgnoreDuplicate, Dismiss, Dispatch, Accept, EnqueueAnswerLost, EnqueueFails
        <5> DEFINE a0 == [req |-> r, status |-> st]
        <5>2. a0 \in answers' /\ a0.req = r
          BY <5>1 DEF Answer
        <5> QED
          BY <5>1, <5>2 DEF Answer
      <4>2. CASE Authentic(r)
        <5>1. \A h \in Gateway : seen'[h] \subseteq seen[h] \cup {r.id}
          <6>1. CASE seen' = seen
            BY <6>1
          <6>2. CASE Remember(g, r)
            BY <6>2 DEF Remember, Live
          <6> QED
            BY <3>3, <4>2, <6>1, <6>2 DEF GithubWebhook, Refuse, IgnoreDuplicate, Dismiss,
                                          Dispatch, Accept, EnqueueAnswerLost, EnqueueFails
        <5> QED
          BY <1>2, <4>1, <4>2, <5>1 DEF GuardHoldsAuthentic
      <4>3. CASE ~Authentic(r)
        <5>1. seen' = seen
          BY <3>3, <4>3 DEF GithubWebhook, Refuse, IgnoreDuplicate, Dismiss, Dispatch,
                            Accept, EnqueueAnswerLost, EnqueueFails, guardVars
        <5> QED
          BY <3>2, <4>1, <5>1
      <4> QED
        BY <4>2, <4>3
    <3>4. ASSUME NEW id \in DeliveryId, Age(g, id) PROVE GuardHoldsAuthentic'
      BY <3>2, <3>4 DEF Age
    <3>5. ASSUME RestartGateway(g) PROVE GuardHoldsAuthentic'
      BY <3>2, <3>5 DEF RestartGateway
    <3> QED
      BY <3>1, <3>3, <3>4, <3>5
  <2> QED
    BY <1>2, <2>1, <2>2 DEF Next, vars
<1>3. Spec => []Inv0
  BY InitInv0, Inv0Step, PTL DEF Spec
<1> QED
  BY <1>1, <1>2, <1>3, PTL DEF Spec

-----------------------------------------------------------------------------
(* Refinement of ReviewPromise (its safety part).  What is queued, held or *)
(* posted was accepted; with IInv every step then maps to a step of the    *)
(* promise or to a stutter.                                                *)

OnlyAccepted ==
  /\ \A m \in queue : accepts[m.key] > 0
  /\ \A w \in Worker : pc[w] # "idle" => accepts[job[w].key] > 0
  /\ \A r \in reviews : accepts[r.job.key] > 0

LEMMA OnlyAcceptedGateway ==
  ASSUME Inv0, OnlyAccepted, GatewayNext, UNCHANGED workerVars
  PROVE  OnlyAccepted' /\ \A k \in Key : accepts'[k] >= accepts[k]
<1> USE DEF Inv0, TypeOK, GatewayTypeOK, BrokerTypeOK, WorkerTypeOK, BusyHasJob, OnlyAccepted,
            workerVars, github, brokerVars
<1>1. CASE accepts' = accepts /\ queue' = queue
  BY <1>1
<1>2. ASSUME NEW g \in Gateway, NEW r \in Request, Dispatch(g, r)
      PROVE  OnlyAccepted' /\ \A k \in Key : accepts'[k] >= accepts[k]
  <2>1. r.key \in Key /\ accepts' = [accepts EXCEPT ![r.key] = @ + 1]
    BY <1>2, GatewayAssumption DEF Dispatch
  <2>2. \A k \in Key : accepts'[k] >= accepts[k] /\ (k = r.key => accepts'[k] > 0)
    BY <2>1
  <2>3. \A m \in queue' : m \in queue \/ m.key = r.key
    BY <1>2 DEF Dispatch, Enqueue, Publish
  <2>4. \A m \in queue : m.key \in Key
    BY DEF Message
  <2>5. \A w \in Worker : pc[w] # "idle" => job[w].key \in Key
    BY DEF Message
  <2>6. \A q \in reviews : q.job.key \in Key
    BY DEF Message
  <2>7. \A m \in queue' : accepts'[m.key] > 0
    BY <2>1, <2>2, <2>3, <2>4
  <2>8. \A w \in Worker : pc[w] # "idle" => accepts'[job[w].key] > 0
    BY <2>1, <2>2, <2>5
  <2>9. \A q \in reviews : accepts'[q.job.key] > 0
    BY <2>1, <2>2, <2>6
  <2> QED
    BY <2>2, <2>7, <2>8, <2>9
<1> QED
  BY <1>1, <1>2 DEF GatewayNext, GithubWebhook, Refuse, IgnoreDuplicate, Dismiss, Accept,
                    EnqueueAnswerLost, EnqueueFails, Age, RestartGateway

LEMMA OnlyAcceptedWorker ==
  ASSUME Inv0, OnlyAccepted, WorkerNext, UNCHANGED gatewayVars
  PROVE  OnlyAccepted'
<1>1. PICK w \in Worker : WorkerStep(w) \/ WorkerFault(w)
  BY DEF WorkerNext
<1> USE DEF Inv0, TypeOK, WorkerTypeOK, Stage, BusyHasJob, OnlyAccepted, Goto, Release,
            gatewayVars, github, brokerVars
<1>2. ASSUME NEW m \in queue, StartReview(w, m) PROVE OnlyAccepted'
  BY <1>2 DEF StartReview, Consume
<1>3. ASSUME NEW m \in queue, SkipProcessed(w, m) PROVE OnlyAccepted'
  BY <1>3 DEF SkipProcessed, Consume, workerVars
<1>4. CASE RunReview(w)
  BY <1>4 DEF RunReview
<1>5. CASE CreateReview(w)
  <2>1. \A r \in reviews' : r \in reviews \/ r.job = job[w]
    BY <1>5 DEF CreateReview
  <2> QED
    BY <1>5, <2>1 DEF CreateReview
<1>6. CASE CreateCheckRun(w)
  BY <1>6 DEF CreateCheckRun
<1>7. CASE Finish(w)
  BY <1>7 DEF Finish
<1>8. CASE Raise(w)
  BY <1>8 DEF Raise
<1>9. CASE Retry(w)
  <2>1. \A m \in queue' : m \in queue \/ m.key = job[w].key
    BY <1>9 DEF Retry, Publish
  <2> QED
    BY <1>9, <2>1 DEF Retry
<1>10. CASE AckRetried(w)
  BY <1>10 DEF AckRetried
<1>11. CASE GiveUp(w)
  BY <1>11 DEF GiveUp
<1>12. CASE Crash(w)
  <2>1. \A m \in queue' : m \in queue \/ (pc[w] # "idle" /\ m.key = job[w].key)
    <3>1. pc[w] # "idle" => [job[w] EXCEPT !.lost = @ + 1].key = job[w].key
      BY DEF Message
    <3> QED
      BY <1>12, <3>1 DEF Crash, Requeue
  <2> QED
    BY <1>12, <2>1 DEF Crash
<1>13. CASE HardTimeLimit(w)
  BY <1>13 DEF HardTimeLimit
<1>14. CASE RetryFails(w)
  <2>1. \A m \in queue' : m \in queue \/ m.key = job[w].key
    BY <1>14 DEF RetryFails, Publish
  <2> QED
    BY <1>14, <2>1 DEF RetryFails
<1> QED
  BY <1>1, <1>2, <1>3, <1>4, <1>5, <1>6, <1>7, <1>8, <1>9, <1>10, <1>11, <1>12, <1>13, <1>14
     DEF WorkerStep, WorkerFault

(* A step that changes no public stage and gives nothing up is a stutter.  *)
LEMMA Stutter ==
  ASSUME \A k \in Key : PublicStage(k)' = PublicStage(k), dropped' = dropped
  PROVE  UNCHANGED Promise!vars
BY DEF Promise!vars

LEMMA GatewayKeepsPromise ==
  ASSUME Inv0, OnlyAccepted, CheckMatchesReview, GatewayNext, UNCHANGED workerVars
  PROVE  [Promise!Next]_(Promise!vars)
<1> USE DEF workerVars, github, PublicStage, Complete, Reviewed
<1>1. CASE accepts' = accepts
  BY <1>1, Stutter
<1>2. ASSUME NEW g \in Gateway, NEW r \in Request, Dispatch(g, r)
      PROVE  [Promise!Next]_(Promise!vars)
  <2>1. r.key \in Key /\ accepts' = [accepts EXCEPT ![r.key] = @ + 1]
    BY <1>2, GatewayAssumption DEF Dispatch
  <2>2. \A k \in Key : k # r.key => PublicStage(k)' = PublicStage(k)
    BY <2>1 DEF Inv0, TypeOK, GatewayTypeOK
  <2>3. CASE PublicStage(r.key)' = PublicStage(r.key)
    BY <2>2, <2>3, Stutter
  <2>4. CASE PublicStage(r.key)' # PublicStage(r.key)
    <3>1. PublicStage(r.key) = "none" /\ PublicStage(r.key)' = "owed"
      BY <2>1, <2>4 DEF Inv0, TypeOK, GatewayTypeOK
    <3>2. Promise!Accept(r.key)
      BY <2>1, <2>2, <3>1 DEF Promise!Accept, Promise!Advance
    <3> QED
      BY <2>1, <3>2 DEF Promise!Next
  <2> QED
    BY <2>3, <2>4
<1> QED
  BY <1>1, <1>2 DEF GatewayNext, GithubWebhook, Refuse, IgnoreDuplicate, Dismiss, Accept,
                    EnqueueAnswerLost, EnqueueFails, Age, RestartGateway

(* Only five steps of a process can be seen from outside.                  *)
LEMMA WorkerKeepsPromise ==
  ASSUME Inv0, Progress, OnlyAccepted, CheckMatchesReview, [Next]_vars,
         WorkerNext, UNCHANGED gatewayVars
  PROVE  [Promise!Next]_(Promise!vars)
<1>1. PICK w \in Worker : WorkerStep(w) \/ WorkerFault(w)
  BY DEF WorkerNext
<1>0. PICK k : k = job[w].key
  OBVIOUS
<1>2. pc[w] # "idle" => k \in Key /\ accepts[k] > 0
  BY <1>0 DEF Inv0, TypeOK, WorkerTypeOK, BusyHasJob, OnlyAccepted, Message
<1>3. accepts' = accepts
  BY DEF gatewayVars
<1>4. ASSUME UNCHANGED github, dropped' = dropped PROVE [Promise!Next]_(Promise!vars)
  BY <1>3, <1>4, Stutter DEF github, PublicStage, Complete, Reviewed
<1>5. ASSUME pc[w] # "idle", UNCHANGED github, dropped' = dropped \cup {k}
      PROVE  [Promise!Next]_(Promise!vars)
  <2>1. [q \in Key |-> PublicStage(q)]' = [q \in Key |-> PublicStage(q)]
    BY <1>3, <1>5 DEF github, PublicStage, Complete, Reviewed
  <2>2. PublicStage(k) # "none"
    BY <1>2, <1>5 DEF PublicStage
  <2>3. Promise!GiveUp(k)
    BY <1>2, <1>5, <2>1, <2>2 DEF Promise!GiveUp
  <2> QED
    BY <1>2, <1>5, <2>3 DEF Promise!Next
<1>6. CASE CreateReview(w)
  <2>1. pc[w] # "idle" /\ checks' = checks /\ dropped' = dropped
    BY <1>6 DEF CreateReview
  <2>2. \A q \in Key : Reviewed(q)' <=> (Reviewed(q) \/ q = k)
    <3> DEFINE r0 == [job |-> job[w], event |-> event[w]]
    <3>1. r0 \in reviews' /\ r0.job.key = k /\ reviews' = reviews \cup {r0}
      BY <1>0, <1>6 DEF CreateReview
    <3> HIDE DEF r0
    <3> QED
      BY <3>1 DEF Reviewed
  <2>3. \A q \in Key : q # k => PublicStage(q)' = PublicStage(q)
    BY <1>3, <2>1, <2>2 DEF PublicStage, Complete
  <2>4. CASE PublicStage(k)' = PublicStage(k)
    BY <2>1, <2>3, <2>4, Stutter
  <2>5. CASE PublicStage(k)' # PublicStage(k)
    <3>1. PublicStage(k) = "owed" /\ PublicStage(k)' = "reviewed"
      BY <1>2, <1>3, <2>1, <2>2, <2>5 DEF PublicStage, Complete
    <3>2. Promise!Review(k)
      BY <1>2, <2>1, <2>3, <3>1 DEF Promise!Review, Promise!Advance
    <3> QED
      BY <1>2, <2>1, <3>2 DEF Promise!Next
  <2> QED
    BY <2>4, <2>5
<1>7. CASE CreateCheckRun(w)
  <2>1. pc[w] # "idle" /\ reviews' = reviews /\ dropped' = dropped
    BY <1>7 DEF CreateCheckRun
  <2>2. \A q \in Key : Complete(q)' <=> (Complete(q) \/ q = k)
    <3> DEFINE c0 == [job |-> job[w], conclusion |-> CheckConclusion(event[w])]
    <3>1. c0 \in checks' /\ c0.job.key = k /\ checks' = checks \cup {c0}
      BY <1>0, <1>7 DEF CreateCheckRun
    <3> HIDE DEF c0
    <3> QED
      BY <3>1 DEF Complete
  <2>3. Reviewed(k)
    <3> DEFINE r0 == [job |-> job[w], event |-> event[w]]
    <3>1. r0 \in reviews /\ r0.job.key = k
      BY <1>0, <1>7 DEF CreateCheckRun, Progress
    <3> QED
      BY <3>1 DEF Reviewed
  <2>4. \A q \in Key : q # k => PublicStage(q)' = PublicStage(q)
    BY <1>3, <2>1, <2>2 DEF PublicStage, Reviewed
  <2>5. CASE PublicStage(k)' = PublicStage(k)
    BY <2>1, <2>4, <2>5, Stutter
  <2>6. CASE PublicStage(k)' # PublicStage(k)
    <3>1. PublicStage(k) = "reviewed" /\ PublicStage(k)' = "complete"
      BY <1>2, <2>1, <2>2, <2>3, <2>6 DEF PublicStage, Reviewed
    <3>2. Promise!Complete(k)
      BY <1>2, <2>1, <2>4, <3>1 DEF Promise!Complete, Promise!Advance
    <3> QED
      BY <1>2, <2>1, <3>2 DEF Promise!Next
  <2> QED
    BY <2>5, <2>6
<1>8. CASE GiveUp(w)
  BY <1>0, <1>5, <1>8 DEF GiveUp
<1>9. CASE HardTimeLimit(w)
  BY <1>0, <1>5, <1>9 DEF HardTimeLimit
<1>10. \/ UNCHANGED github /\ dropped' = dropped
       \/ CreateReview(w) \/ CreateCheckRun(w) \/ GiveUp(w) \/ HardTimeLimit(w)
       \/ RetryFails(w)
  BY <1>1 DEF WorkerStep, WorkerFault, StartReview, SkipProcessed, RunReview, Finish, Raise,
              Retry, AckRetried, Crash, workerVars, github
<1>11. CASE RetryFails(w)
  BY <1>0, <1>5, <1>11 DEF RetryFails
<1> QED
  BY <1>4, <1>6, <1>7, <1>8, <1>9, <1>10, <1>11

(* Every behaviour of the delivery path is, step by step, one of the       *)
(* promise: accepted before reviewed, reviewed before complete, never      *)
(* taken back.  (That it is settled in the end is left to TLC.)            *)
THEOREM DeliveryKeepsPromise == Spec => Promise!Init /\ [][Promise!Next]_(Promise!vars)
<1> DEFINE PInv == IInv /\ OnlyAccepted
<1>1. Init => PInv
  BY InitIInv DEF Init, BrokerInit, WorkerInit, OnlyAccepted
<1>2. PInv /\ [Next]_vars => PInv'
  <2> SUFFICES ASSUME PInv, [Next]_vars PROVE PInv'
    OBVIOUS
  <2>1. IInv'
    BY Inv0Step, ProgressStep, MatchStep, SkipStep, LiveCopyStep DEF IInv
  <2>2. ASSUME UNCHANGED vars PROVE OnlyAccepted'
    BY <2>2 DEF OnlyAccepted, vars, brokerVars, gatewayVars, workerVars, github
  <2>3. ASSUME Next PROVE OnlyAccepted'
    BY <2>3, OnlyAcceptedGateway, OnlyAcceptedWorker DEF Next, IInv
  <2>4. OnlyAccepted'
    BY <2>2, <2>3
  <2> QED
    BY <2>1, <2>4
<1>3. Init => Promise!Init
  BY DEF Init, GatewayInit, WorkerInit, Promise!Init, PublicStage, Complete, Reviewed
<1>4. PInv /\ [Next]_vars => [Promise!Next]_(Promise!vars)
  <2> SUFFICES ASSUME PInv, [Next]_vars PROVE [Promise!Next]_(Promise!vars)
    OBVIOUS
  <2>1. CASE UNCHANGED vars
    BY <2>1, Stutter DEF PublicStage, Complete, Reviewed, vars, gatewayVars, workerVars, github
  <2>2. CASE Next
    BY <2>2, GatewayKeepsPromise, WorkerKeepsPromise DEF Next, IInv
  <2> QED
    BY <2>1, <2>2
<1> HIDE DEF PInv
<1> QED
  BY <1>1, <1>2, <1>3, <1>4, PTL DEF Spec
-----------------------------------------------------------------------------
(* How much work one delivery can cause: counted in what is still to come. *)

(* A set covered by two finite ones is no larger than both together.       *)
LEMMA CoverBound ==
  ASSUME NEW S, NEW T, NEW U, IsFiniteSet(T), IsFiniteSet(U), S \subseteq T \cup U
  PROVE  /\ IsFiniteSet(S) /\ Cardinality(S) \in Nat
         /\ Cardinality(S) <= Cardinality(T) + Cardinality(U)
<1>1. IsFiniteSet(T \cup U) /\ IsFiniteSet(T \cap U)
  BY FS_Union, FS_Intersection
<1>2. IsFiniteSet(S) /\ Cardinality(S) <= Cardinality(T \cup U)
  BY <1>1, FS_Subset
<1>3. Cardinality(T \cup U) = Cardinality(T) + Cardinality(U) - Cardinality(T \cap U)
  BY FS_Union
<1>4. /\ Cardinality(S) \in Nat /\ Cardinality(T) \in Nat /\ Cardinality(U) \in Nat
      /\ Cardinality(T \cap U) \in Nat /\ Cardinality(T \cup U) \in Nat
  BY <1>1, <1>2, FS_CardinalityType
<1> QED
  BY <1>2, <1>3, <1>4

(* The ids of the deliveries that name key k, and the processes that know  *)
(* them at present.                                                        *)
IdsOf(k) == {r.id : r \in {q \in Request : q.key = k}} \ {NoId}

Guarded(k) == {p \in Gateway \X IdsOf(k) : p[2] \in Live(p[1])}

(* A key was enqueued at most once for each process that knows an id, and  *)
(* once for each id at each time a guard forgot.                           *)
AcceptBudget ==
  \A k \in Key : accepts[k] <= Cardinality(Guarded(k)) + Cardinality(IdsOf(k)) * forgets

LEMMA GuardedIsFinite ==
  ASSUME NEW k
  PROVE  /\ IsFiniteSet(IdsOf(k)) /\ Cardinality(IdsOf(k)) \in Nat
         /\ Cardinality(Gateway) \in Nat
         /\ IsFiniteSet(Guarded(k)) /\ Cardinality(Guarded(k)) \in Nat
         /\ Cardinality(Guarded(k)) <= Cardinality(IdsOf(k)) * Cardinality(Gateway)
         /\ IsFiniteSet(Guarded(k)') /\ Cardinality(Guarded(k)') \in Nat
         /\ \A g : IsFiniteSet({g} \X IdsOf(k)) /\ Cardinality({g} \X IdsOf(k)) = Cardinality(IdsOf(k))
<1>1. IdsOf(k) \subseteq DeliveryId
  BY GatewayAssumption DEF IdsOf
<1>2. IsFiniteSet(IdsOf(k)) /\ Cardinality(IdsOf(k)) \in Nat /\ Cardinality(Gateway) \in Nat
  BY <1>1, GatewayAssumption, FS_Subset, FS_CardinalityType
<1>3. /\ IsFiniteSet(Gateway \X IdsOf(k))
      /\ Cardinality(Gateway \X IdsOf(k)) = Cardinality(Gateway) * Cardinality(IdsOf(k))
  BY <1>2, GatewayAssumption, FS_Product
<1>4. Guarded(k) \subseteq Gateway \X IdsOf(k) /\ Guarded(k)' \subseteq Gateway \X IdsOf(k)
  BY DEF Guarded, IdsOf
<1>5. /\ IsFiniteSet(Guarded(k)) /\ Cardinality(Guarded(k)) <= Cardinality(Gateway) * Cardinality(IdsOf(k))
      /\ IsFiniteSet(Guarded(k)')
  BY <1>3, <1>4, FS_Subset
<1>6. Cardinality(Gateway) * Cardinality(IdsOf(k)) = Cardinality(IdsOf(k)) * Cardinality(Gateway)
  BY <1>2
<1>7. ASSUME NEW g
      PROVE  IsFiniteSet({g} \X IdsOf(k)) /\ Cardinality({g} \X IdsOf(k)) = Cardinality(IdsOf(k))
  <2>1. IsFiniteSet({g}) /\ Cardinality({g}) = 1
    BY FS_Singleton
  <2> QED
    BY <1>2, <2>1, FS_Product
<1> QED
  BY <1>2, <1>5, <1>6, <1>7, FS_CardinalityType

(* What a request leaves in the guards: no process forgets an id.          *)
LEMMA RememberKeeps ==
  ASSUME Inv0, NEW g \in Gateway, NEW r \in Request, Remember(g, r)
  PROVE  /\ \A h \in Gateway : Live(h) \subseteq seen'[h] \ aged'[h]
         /\ r.id # NoId => r.id \in seen'[g] \ aged'[g]
BY DEF Inv0, TypeOK, GatewayTypeOK, Remember, Live

LEMMA InitAcceptBudget == Init => AcceptBudget
<1> SUFFICES ASSUME Init, NEW k \in Key
             PROVE  accepts[k] <= Cardinality(Guarded(k)) + Cardinality(IdsOf(k)) * forgets
  BY DEF AcceptBudget
<1>1. accepts[k] = 0 /\ forgets = 0
  BY DEF Init, GatewayInit
<1> QED
  BY <1>1, GuardedIsFinite

(* As long as nothing is forgotten, a key is enqueued only when one more   *)
(* process comes to know one more of its ids.                              *)
LEMMA RequestKeepsBudget ==
  ASSUME Inv0, AcceptBudget, NEW g \in Gateway, NEW r \in Request, GithubWebhook(g, r)
  PROVE  AcceptBudget'
<1> SUFFICES ASSUME NEW k \in Key
             PROVE  accepts'[k] <= Cardinality(Guarded(k)') + Cardinality(IdsOf(k)) * forgets'
  BY DEF AcceptBudget, IdsOf
<1>1. forgets' = forgets /\ forgets \in Nat
  BY DEF GithubWebhook, Refuse, IgnoreDuplicate, Dismiss, Dispatch, Accept, EnqueueAnswerLost,
         EnqueueFails, Answer, Inv0,
         TypeOK, GatewayTypeOK
<1>2. \A h \in Gateway : Live(h) \subseteq Live(h)'
  <2>1. CASE Remember(g, r)
    BY <2>1, RememberKeeps DEF Live
  <2>2. CASE UNCHANGED guardVars
    BY <2>2 DEF guardVars, Live
  <2> QED
    BY <2>1, <2>2 DEF GithubWebhook, Refuse, IgnoreDuplicate, Dismiss, Dispatch, Accept,
                      EnqueueAnswerLost, EnqueueFails
<1>3. Guarded(k) \subseteq Guarded(k)'
  BY <1>2 DEF Guarded, IdsOf
<1>4. Cardinality(Guarded(k)) <= Cardinality(Guarded(k)')
  BY <1>3, GuardedIsFinite, FS_Subset
<1>5. accepts[k] <= Cardinality(Guarded(k)) + Cardinality(IdsOf(k)) * forgets /\ accepts[k] \in Nat
  BY DEF AcceptBudget, Inv0, TypeOK, GatewayTypeOK
<1>6. Cardinality(IdsOf(k)) * forgets \in Nat
  BY <1>1, GuardedIsFinite
<1>7. CASE accepts'[k] = accepts[k]
  BY <1>1, <1>4, <1>5, <1>6, <1>7, GuardedIsFinite
<1>8. CASE Dispatch(g, r) /\ r.key = k
  <2>1. r.id # NoId /\ r.id \notin Live(g) /\ r.id \in Live(g)'
    BY <1>8, RememberKeeps DEF Dispatch, Replayed, Live
  <2>2. r.id \in IdsOf(k)
    BY <1>8, <2>1 DEF IdsOf
  <2>3. <<g, r.id>> \notin Guarded(k) /\ <<g, r.id>> \in Guarded(k)'
    BY <2>1, <2>2 DEF Guarded, IdsOf
  <2>4. Cardinality(Guarded(k) \cup {<<g, r.id>>}) = Cardinality(Guarded(k)) + 1
    BY <2>3, GuardedIsFinite, FS_AddElement
  <2>5. Cardinality(Guarded(k) \cup {<<g, r.id>>}) <= Cardinality(Guarded(k)')
    BY <1>3, <2>3, GuardedIsFinite, FS_Subset
  <2>6. accepts'[k] = accepts[k] + 1
    BY <1>8 DEF Dispatch, Inv0, TypeOK, GatewayTypeOK
  <2> QED
    BY <1>1, <1>5, <1>6, <2>4, <2>5, <2>6, GuardedIsFinite
<1>9. accepts'[k] = accepts[k] \/ (Dispatch(g, r) /\ r.key = k)
  BY DEF GithubWebhook, Refuse, IgnoreDuplicate, Dismiss, Dispatch, Accept, EnqueueAnswerLost,
         EnqueueFails, Inv0, TypeOK,
         GatewayTypeOK
<1> QED
  BY <1>7, <1>8, <1>9

(* A process that forgets pays with the ids it may have known.             *)
LEMMA ForgettingKeepsBudget ==
  ASSUME Inv0, AcceptBudget, NEW g \in Gateway,
         accepts' = accepts, forgets' = forgets + 1,
         \A h \in Gateway : h # g => Live(h)' = Live(h)
  PROVE  AcceptBudget'
<1> SUFFICES ASSUME NEW k \in Key
             PROVE  accepts'[k] <= Cardinality(Guarded(k)') + Cardinality(IdsOf(k)) * forgets'
  BY DEF AcceptBudget, IdsOf
<1>1. Guarded(k) \subseteq Guarded(k)' \cup ({g} \X IdsOf(k))
  BY DEF Guarded, IdsOf
<1>2. Cardinality(Guarded(k)) <= Cardinality(Guarded(k)') + Cardinality(IdsOf(k))
  <2>1. Cardinality(Guarded(k)) <= Cardinality(Guarded(k)') + Cardinality({g} \X IdsOf(k))
    BY <1>1, GuardedIsFinite, CoverBound
  <2> QED
    BY <2>1, GuardedIsFinite
<1>3. PICK c \in Nat : c = Cardinality(IdsOf(k))
  BY GuardedIsFinite
<1>4. forgets \in Nat /\ accepts[k] \in Nat /\ accepts'[k] = accepts[k]
  BY DEF Inv0, TypeOK, GatewayTypeOK
<1>5. c * forgets' = c * forgets + c /\ c * forgets \in Nat
  BY <1>3, <1>4
<1>6. accepts[k] <= Cardinality(Guarded(k)) + c * forgets
  BY <1>3 DEF AcceptBudget
<1> QED
  BY <1>2, <1>3, <1>4, <1>5, <1>6, GuardedIsFinite

LEMMA AcceptBudgetStep == Inv0 /\ AcceptBudget /\ [Next]_vars => AcceptBudget'
<1> SUFFICES ASSUME Inv0, AcceptBudget, [Next]_vars PROVE AcceptBudget'
  OBVIOUS
<1>1. CASE UNCHANGED gatewayVars
  BY <1>1 DEF gatewayVars, AcceptBudget, Guarded, Live, IdsOf
<1>2. CASE GatewayNext
  <2>1. PICK g \in Gateway :
          \/ \E r \in Request : GithubWebhook(g, r)
          \/ \E id \in DeliveryId : Age(g, id)
          \/ RestartGateway(g)
    BY <1>2 DEF GatewayNext
  <2>2. ASSUME NEW id \in DeliveryId, Age(g, id) PROVE AcceptBudget'
    BY <2>2, ForgettingKeepsBudget DEF Age, Live, Inv0, TypeOK, GatewayTypeOK
  <2>3. CASE RestartGateway(g)
    BY <2>3, ForgettingKeepsBudget DEF RestartGateway, Live, Inv0, TypeOK, GatewayTypeOK
  <2> QED
    BY <2>1, <2>2, <2>3, RequestKeepsBudget
<1> QED
  BY <1>1, <1>2 DEF Next, vars

(* However often requests are delivered again, and to whichever process, a *)
(* key is enqueued at most once per id, process and forgotten entry.       *)
THEOREM AcceptsAreBounded == Spec => []AcceptsBounded
<1>1. Inv0 /\ AcceptBudget => AcceptsBounded
  <2> SUFFICES ASSUME Inv0, AcceptBudget, NEW k \in Key
               PROVE  accepts[k] <= Cardinality(IdsOf(k)) * (Cardinality(Gateway) + forgets)
    BY DEF AcceptsBounded, IdsOf
  <2>1. PICK c \in Nat : c = Cardinality(IdsOf(k))
    BY GuardedIsFinite
  <2>2. PICK n \in Nat : n = Cardinality(Gateway)
    BY GuardedIsFinite
  <2>3. forgets \in Nat /\ accepts[k] \in Nat
    BY DEF Inv0, TypeOK, GatewayTypeOK
  <2>4. c * (n + forgets) = c * n + c * forgets /\ c * n \in Nat /\ c * forgets \in Nat
    BY <2>3
  <2>5. accepts[k] <= Cardinality(Guarded(k)) + c * forgets
    BY <2>1 DEF AcceptBudget
  <2>6. Cardinality(Guarded(k)) \in Nat /\ Cardinality(Guarded(k)) <= c * n
    BY <2>1, <2>2, GuardedIsFinite
  <2>7. accepts[k] <= c * (n + forgets)
    BY <2>3, <2>4, <2>5, <2>6
  <2> QED
    BY <2>1, <2>2, <2>7
<1> QED
  BY InitInv0, Inv0Step, InitAcceptBudget, AcceptBudgetStep, <1>1, PTL DEF Spec

-----------------------------------------------------------------------------
(* How many reviews of a key can still be posted.  A message owes one post *)
(* for its present attempt, as long as that has not posted, and one for    *)
(* every retry it has left; the pair <<m, i>> is the post of attempt i.    *)
(* Posts and tickets together never exceed what enqueues and process       *)
(* deaths brought in.                                                      *)

Due(stage, r, i) ==
  \/ stage \in {"running", "posting"} /\ r <= i
  \/ stage \in {"checking", "recording", "failed"} /\ r < i

Owes(m, i) ==
  \/ m \in queue /\ m.retries <= i
  \/ \E w \in Worker : job[w] = m /\ Due(pc[w], m.retries, i)

Owed(k) == {t \in Message \X (0..MaxRetries) : t[1].key = k /\ Owes(t[1], t[2])}

Posts(k) == {r \in reviews : r.job.key = k}

PostBudget(k) ==
  /\ IsFiniteSet(Posts(k)) /\ IsFiniteSet(Owed(k))
  /\ Cardinality(Posts(k)) + Cardinality(Owed(k)) <= (accepts[k] + crashes) * (MaxRetries + 1)

(* A ticket belongs to one holder only: tags tell all outstanding messages *)
(* apart, in the queue and in the hands of processes.                      *)
TagsUnique ==
  /\ \A m \in queue : m.tag < nextTag
  /\ \A w \in Worker : pc[w] # "idle" => job[w].tag < nextTag
  /\ \A m, n \in queue : m.tag = n.tag => m = n
  /\ \A w \in Worker : pc[w] # "idle" => \A m \in queue : m.tag # job[w].tag
  /\ \A v, w \in Worker :
       v # w /\ pc[v] # "idle" /\ pc[w] # "idle" => job[v].tag # job[w].tag

LEMMA ExchangeBound ==
  ASSUME NEW S, NEW T, NEW A, NEW B, IsFiniteSet(T), IsFiniteSet(B), A \subseteq T,
         S \subseteq (T \ A) \cup B
  PROVE  /\ IsFiniteSet(S) /\ Cardinality(S) \in Nat
         /\ IsFiniteSet(A) /\ Cardinality(A) \in Nat
         /\ Cardinality(S) + Cardinality(A) <= Cardinality(T) + Cardinality(B)
<1>1. IsFiniteSet(T \ A) /\ IsFiniteSet(A) /\ Cardinality(T \ A) = Cardinality(T) - Cardinality(T \cap A)
  BY FS_Difference, FS_Subset
<1>2. T \cap A = A
  OBVIOUS
<1>3. /\ IsFiniteSet(S) /\ Cardinality(S) \in Nat
      /\ Cardinality(S) <= Cardinality(T \ A) + Cardinality(B)
  BY <1>1, CoverBound
<1>4. /\ Cardinality(T) \in Nat /\ Cardinality(A) \in Nat /\ Cardinality(B) \in Nat
      /\ Cardinality(T \ A) \in Nat
  BY <1>1, FS_CardinalityType
<1> QED
  BY <1>1, <1>2, <1>3, <1>4

(* The tickets of one message.                                             *)
LEMMA TicketCount ==
  ASSUME NEW m, NEW r \in 0..(MaxRetries + 1)
  PROVE  /\ IsFiniteSet({m} \X (r..MaxRetries))
         /\ Cardinality({m} \X (r..MaxRetries)) = MaxRetries + 1 - r
<1>1. IsFiniteSet({m}) /\ Cardinality({m}) = 1
  BY FS_Singleton
<1>2. IsFiniteSet(r..MaxRetries) /\ Cardinality(r..MaxRetries) = MaxRetries + 1 - r
  <2>1. r \in Int /\ MaxRetries \in Int
    BY MaxRetriesAssumption
  <2>2. IsFiniteSet(r..MaxRetries) /\ Cardinality(r..MaxRetries) = IF r > MaxRetries THEN 0 ELSE MaxRetries - r + 1
    BY <2>1, FS_Interval
  <2> QED
    BY <2>2, MaxRetriesAssumption
<1>3. IsFiniteSet({m} \X (r..MaxRetries)) /\ Cardinality({m} \X (r..MaxRetries)) = 1 * (MaxRetries + 1 - r)
  BY <1>1, <1>2, FS_Product
<1> QED
  BY <1>3, MaxRetriesAssumption

LEMMA TagsUniqueStep == Inv0 /\ TagsUnique /\ [Next]_vars => TagsUnique'
<1> SUFFICES ASSUME Inv0, TagsUnique, [Next]_vars PROVE TagsUnique'
  OBVIOUS
<1> USE DEF Inv0, TypeOK, BrokerTypeOK, WorkerTypeOK, BusyHasJob, Stage, brokerVars, github
<1>0. /\ nextTag \in Nat /\ \A m \in queue : m \in Message /\ m.tag \in Nat
      /\ \A w \in Worker : pc[w] # "idle" => job[w] \in Message /\ job[w].tag \in Nat
  BY DEF Message
<1>1. ASSUME UNCHANGED <<pc, job>>, UNCHANGED brokerVars PROVE TagsUnique'
  BY <1>1 DEF TagsUnique
<1>2. ASSUME NEW k, NEW r, Publish(k, r), 
             \A w \in Worker : pc'[w] # "idle" => pc[w] # "idle" /\ job'[w] = job[w]
      PROVE  TagsUnique'
  <2> DEFINE m0 == [tag |-> nextTag, key |-> k, retries |-> r, lost |-> 0]
  <2>1. m0.tag = nextTag /\ queue' = queue \cup {m0} /\ nextTag' = nextTag + 1
    BY <1>2 DEF Publish
  <2> HIDE DEF m0
  <2> QED
    BY <1>0, <1>2, <2>1 DEF TagsUnique
<1>3. CASE GatewayNext /\ UNCHANGED workerVars
  <2>1. UNCHANGED <<pc, job>>
    BY <1>3 DEF workerVars
  <2>2. UNCHANGED brokerVars \/ \E k : Publish(k, 0)
    BY <1>3 DEF GatewayNext, GithubWebhook, Refuse, IgnoreDuplicate, Dismiss, Dispatch,
                Accept, EnqueueAnswerLost, Enqueue, EnqueueFails, Age, RestartGateway
  <2> QED
    BY <1>1, <1>2, <2>1, <2>2
<1>4. ASSUME NEW w \in Worker, WorkerStep(w) \/ WorkerFault(w) PROVE TagsUnique'
  <2> USE DEF Goto, Release
  <2>1. ASSUME NEW m \in queue, StartReview(w, m) PROVE TagsUnique'
    BY <1>0, <2>1 DEF StartReview, Consume, TagsUnique
  <2>2. ASSUME NEW m \in queue, SkipProcessed(w, m) PROVE TagsUnique'
    BY <2>2 DEF SkipProcessed, Consume, workerVars, TagsUnique
  <2>3. ASSUME UNCHANGED <<job, brokerVars>>, \A v \in Worker : pc'[v] # "idle" => pc[v] # "idle"
        PROVE  TagsUnique'
    BY <2>3 DEF TagsUnique
  <2>4. CASE Retry(w)
    BY <1>2, <2>4 DEF Retry
  <2>5. ASSUME Release(w), UNCHANGED brokerVars PROVE TagsUnique'
    BY <2>5 DEF TagsUnique
  <2>6. CASE Crash(w) /\ pc[w] # "idle"
    <3> DEFINE m0 == [job[w] EXCEPT !.lost = @ + 1]
    <3>1. m0.tag = job[w].tag /\ queue' = queue \cup {m0} /\ nextTag' = nextTag
      BY <1>0, <2>6 DEF Crash, Requeue, Message
    <3> HIDE DEF m0
    <3> QED
      BY <1>0, <2>6, <3>1 DEF Crash, TagsUnique
  <2>7. CASE RetryFails(w)
    <3>1. \A v \in Worker : pc'[v] # "idle" => pc[v] # "idle" /\ job'[v] = job[v]
      BY <2>7 DEF RetryFails
    <3> QED
      BY <1>2, <2>5, <2>7, <3>1 DEF RetryFails
  <2> QED
    BY <1>4, <2>1, <2>2, <2>3, <2>4, <2>5, <2>6, <2>7
       DEF WorkerStep, WorkerFault, RunReview, CreateReview, CreateCheckRun, Finish, Raise,
           AckRetried, GiveUp, Crash, HardTimeLimit
<1>5. CASE UNCHANGED vars
  BY <1>1, <1>5 DEF vars, workerVars
<1> QED
  BY <1>3, <1>4, <1>5 DEF Next, WorkerNext

(* Messages that differ in their tag are held apart.                       *)
LEMMA OneHolder ==
  ASSUME Inv0, TagsUnique, NEW w \in Worker, pc[w] # "idle"
  PROVE  /\ job[w] \in Message
         /\ job[w] \notin queue
         /\ \A v \in Worker : v # w => job[v] # job[w]
BY DEF TagsUnique, Inv0, TypeOK, WorkerTypeOK, BusyHasJob

(* Nothing is owed anew by a step that takes a message up or puts it down. *)
LEMMA FewerOwed ==
  ASSUME Inv0, NEW w \in Worker,
         \/ \E m \in queue : StartReview(w, m) \/ SkipProcessed(w, m)
         \/ RunReview(w) \/ CreateReview(w) \/ CreateCheckRun(w) \/ Finish(w) \/ Raise(w)
         \/ AckRetried(w) \/ GiveUp(w) \/ HardTimeLimit(w)
         \/ (RetryFails(w) /\ UNCHANGED brokerVars),
         NEW k
  PROVE  Owed(k)' \subseteq Owed(k)
<1> SUFFICES ASSUME NEW m \in Message, NEW i \in 0..MaxRetries, Owes(m, i)' PROVE Owes(m, i)
  BY DEF Owed
<1> USE DEF Inv0, TypeOK, WorkerTypeOK, Stage, BusyHasJob, Owes, Due, Goto, Release, brokerVars
<1>1. m.retries \in Int /\ i \in Int
  BY MaxRetriesAssumption DEF Message
<1>2. ASSUME NEW n \in queue, StartReview(w, n) PROVE Owes(m, i)
  <2>1. \A v \in Worker : v # w => pc'[v] = pc[v] /\ job'[v] = job[v]
    BY <1>2 DEF StartReview
  <2>2. pc'[w] = "running" /\ job'[w] = n /\ queue' \subseteq queue
    BY <1>2 DEF StartReview, Consume
  <2> QED
    BY <2>1, <2>2
<1>3. ASSUME NEW n \in queue, SkipProcessed(w, n) PROVE Owes(m, i)
  BY <1>3 DEF SkipProcessed, Consume, workerVars
<1>4. ASSUME Release(w), queue' = queue PROVE Owes(m, i)
  BY <1>4
<1>5. ASSUME job' = job, queue' = queue, \A v \in Worker : v # w => pc'[v] = pc[v],
             Due(pc'[w], m.retries, i) => Due(pc[w], m.retries, i)
      PROVE  Owes(m, i)
  BY <1>5
<1>6. CASE RunReview(w)
  BY <1>5, <1>6 DEF RunReview
<1>7. CASE CreateReview(w)
  BY <1>1, <1>5, <1>7 DEF CreateReview
<1>8. CASE CreateCheckRun(w)
  BY <1>5, <1>8 DEF CreateCheckRun
<1>9. CASE Raise(w)
  BY <1>1, <1>5, <1>9 DEF Raise
<1> QED
  BY <1>2, <1>3, <1>4, <1>6, <1>7, <1>8, <1>9 DEF Finish, AckRetried, GiveUp, HardTimeLimit, RetryFails

(* The budget grows with every enqueue and every process death.            *)
LEMMA BudgetGrows ==
  ASSUME NEW a \in Nat, NEW b \in Nat, NEW c \in Nat, NEW d \in Nat, a <= b, c <= d
  PROVE  /\ (a + c) * (MaxRetries + 1) \in Nat
         /\ (a + c) * (MaxRetries + 1) <= (b + d) * (MaxRetries + 1)
         /\ b + d >= a + c + 1 =>
              (a + c) * (MaxRetries + 1) + (MaxRetries + 1) <= (b + d) * (MaxRetries + 1)
<1> DEFINE n == MaxRetries + 1
<1>1. n \in Nat
  BY MaxRetriesAssumption
<1>2. PICK e \in Nat : b + d = a + c + e
  <2>1. b + d - (a + c) \in Nat
    OBVIOUS
  <2> QED
    BY <2>1
<1> HIDE DEF n
<1>3. (a + c + e) * n = (a + c) * n + e * n /\ (a + c) * n \in Nat /\ e * n \in Nat
  BY <1>1
<1>4. e >= 1 => e * n >= n
  <2> SUFFICES ASSUME e >= 1 PROVE e * n >= n
    OBVIOUS
  <2>1. e - 1 \in Nat
    OBVIOUS
  <2>2. (e - 1) * n \in Nat
    BY <1>1, <2>1
  <2>3. (e - 1) * n = e * n - n
    BY <1>1
  <2> QED
    BY <1>1, <1>3, <2>2, <2>3
<1>5. /\ (a + c) * n \in Nat
      /\ (a + c) * n <= (b + d) * n
      /\ b + d >= a + c + 1 => (a + c) * n + n <= (b + d) * n
  BY <1>1, <1>2, <1>3, <1>4
<1> QED
  BY <1>5 DEF n

(* A step that posts nothing and adds no more tickets than it pays for.    *)
LEMMA BudgetKept ==
  ASSUME Inv0, Inv0', NEW k \in Key, PostBudget(k), NEW B, IsFiniteSet(B),
         Posts(k)' = Posts(k), Owed(k)' \subseteq Owed(k) \cup B,
         accepts[k] <= accepts'[k], crashes <= crashes',
         \/ B = {}
         \/ /\ Cardinality(B) <= MaxRetries + 1
            /\ accepts'[k] + crashes' >= accepts[k] + crashes + 1
  PROVE  PostBudget(k)'
<1>1. /\ IsFiniteSet(Owed(k)') /\ Cardinality(Owed(k)') \in Nat
      /\ Cardinality(Owed(k)') <= Cardinality(Owed(k)) + Cardinality(B)
  BY CoverBound DEF PostBudget
<1>2. IsFiniteSet(Posts(k)') /\ Cardinality(Posts(k)') = Cardinality(Posts(k))
  BY DEF PostBudget
<1>3. /\ Cardinality(Posts(k)) \in Nat /\ Cardinality(Owed(k)) \in Nat /\ Cardinality(B) \in Nat
      /\ B = {} => Cardinality(B) = 0
  BY FS_CardinalityType, FS_EmptySet DEF PostBudget
<1>4. /\ accepts[k] \in Nat /\ accepts'[k] \in Nat /\ crashes \in Nat /\ crashes' \in Nat
      /\ MaxRetries + 1 \in Nat
  BY MaxRetriesAssumption DEF Inv0, TypeOK, GatewayTypeOK, WorkerTypeOK
<1> DEFINE was == (accepts[k] + crashes) * (MaxRetries + 1)
           now == (accepts'[k] + crashes') * (MaxRetries + 1)
<1>5. /\ was \in Nat /\ now \in Nat /\ was <= now
      /\ accepts'[k] + crashes' >= accepts[k] + crashes + 1 => was + (MaxRetries + 1) <= now
  BY <1>4, BudgetGrows
<1>6. Cardinality(Posts(k)) + Cardinality(Owed(k)) <= was
  BY DEF PostBudget
<1> HIDE DEF was, now
<1>7. Cardinality(Posts(k)') + Cardinality(Owed(k)') <= now
  BY <1>1, <1>2, <1>3, <1>4, <1>5, <1>6
<1> QED
  BY <1>1, <1>2, <1>7 DEF PostBudget, now

LEMMA PublishOwes ==
  ASSUME Inv0, NEW q \in Key, NEW r \in 0..MaxRetries, Publish(q, r), UNCHANGED <<pc, job>>
  PROVE  \E m \in Message :
           /\ m.key = q
           /\ \A k : Owed(k)' \subseteq Owed(k) \cup
                       (IF k = q THEN {m} \X (r..MaxRetries) ELSE {})
<1> DEFINE m0 == [tag |-> nextTag, key |-> q, retries |-> r, lost |-> 0]
<1>1. m0 \in Message /\ m0.key = q /\ m0.retries = r /\ queue' = queue \cup {m0}
  BY DEF Publish, Message, Inv0, TypeOK, BrokerTypeOK
<1> HIDE DEF m0
<1>2. ASSUME NEW k, NEW m \in Message, NEW i \in 0..MaxRetries, m.key = k, Owes(m, i)'
      PROVE  Owes(m, i) \/ (k = q /\ m = m0 /\ i \in r..MaxRetries)
  BY <1>1, <1>2, MaxRetriesAssumption DEF Owes
<1>3. ASSUME NEW k
      PROVE  Owed(k)' \subseteq Owed(k) \cup (IF k = q THEN {m0} \X (r..MaxRetries) ELSE {})
  BY <1>2 DEF Owed
<1> QED
  BY <1>1, <1>3

LEMMA GatewayKeepsPosts ==
  ASSUME Inv0, Inv0', GatewayNext, UNCHANGED workerVars, NEW k \in Key, PostBudget(k)
  PROVE  PostBudget(k)'
<1>1. UNCHANGED <<pc, job, reviews, crashes>>
  BY DEF workerVars, github
<1>2. Posts(k)' = Posts(k) /\ crashes \in Nat /\ crashes' = crashes
  BY <1>1 DEF Posts, Inv0, TypeOK, WorkerTypeOK
<1>3. accepts[k] \in Nat
  BY DEF Inv0, TypeOK, GatewayTypeOK
<1>4. ASSUME UNCHANGED brokerVars, accepts[k] <= accepts'[k] PROVE PostBudget(k)'
  <2>1. Owed(k)' \subseteq Owed(k) \cup {}
    BY <1>1, <1>4 DEF Owed, Owes, brokerVars
  <2> QED
    BY <1>2, <1>4, <2>1, BudgetKept, FS_EmptySet
<1>5. ASSUME NEW g \in Gateway, NEW r \in Request, Dispatch(g, r) PROVE PostBudget(k)'
  <2>1. r.key \in Key
    BY GatewayAssumption
  <2>2. accepts[k] <= accepts'[k] /\ (r.key = k => accepts'[k] = accepts[k] + 1)
    BY <1>3, <1>5, <2>1 DEF Dispatch, Inv0, TypeOK, GatewayTypeOK
  <2>3. CASE UNCHANGED brokerVars
    BY <1>4, <2>2, <2>3
  <2>4. CASE Publish(r.key, 0)
    <3>0. 0 \in 0..MaxRetries /\ 0 \in 0..(MaxRetries + 1)
      BY MaxRetriesAssumption
    <3>1. PICK m \in Message :
            \A q : Owed(q)' \subseteq Owed(q) \cup
                     (IF q = r.key THEN {m} \X (0..MaxRetries) ELSE {})
      BY <1>1, <2>1, <2>4, <3>0, PublishOwes
    <3>2. CASE r.key = k
      <4>1. Owed(k)' \subseteq Owed(k) \cup ({m} \X (0..MaxRetries))
        BY <3>1, <3>2
      <4>2. IsFiniteSet({m} \X (0..MaxRetries)) /\ Cardinality({m} \X (0..MaxRetries)) <= MaxRetries + 1
        <5>1. /\ IsFiniteSet({m} \X (0..MaxRetries))
              /\ Cardinality({m} \X (0..MaxRetries)) = MaxRetries + 1 - 0
          BY <3>0, TicketCount
        <5> QED
          BY <5>1, MaxRetriesAssumption
      <4> QED
        BY <1>2, <1>3, <2>2, <3>2, <4>1, <4>2, BudgetKept
    <3>3. CASE r.key # k
      <4>1. Owed(k)' \subseteq Owed(k) \cup {}
        BY <3>1, <3>3
      <4> QED
        BY <1>2, <2>2, <4>1, BudgetKept, FS_EmptySet
    <3> QED
      BY <3>2, <3>3
  <2> QED
    BY <1>5, <2>3, <2>4 DEF Dispatch, Enqueue
<1>6. (UNCHANGED brokerVars /\ accepts' = accepts) \/ \E g \in Gateway, r \in Request : Dispatch(g, r)
  BY DEF GatewayNext, GithubWebhook, Refuse, IgnoreDuplicate, Dismiss, Accept,
         EnqueueAnswerLost, EnqueueFails, Age, RestartGateway
<1> QED
  BY <1>3, <1>4, <1>5, <1>6

(* A review that is posted uses up the ticket of its attempt.              *)
LEMMA CreateKeepsPosts ==
  ASSUME Inv0, Inv0', TagsUnique, NEW w \in Worker, CreateReview(w), UNCHANGED gatewayVars,
         NEW k \in Key, PostBudget(k)
  PROVE  PostBudget(k)'
<1>1. /\ accepts' = accepts /\ crashes' = crashes
      /\ accepts[k] \in Nat /\ crashes \in Nat
  BY DEF CreateReview, gatewayVars, Inv0, TypeOK, GatewayTypeOK, WorkerTypeOK
<1>2. pc[w] = "posting" /\ Owed(k)' \subseteq Owed(k)
  BY FewerOwed DEF CreateReview
<1>3. CASE job[w].key # k
  <2> DEFINE r0 == [job |-> job[w], event |-> event[w]]
  <2>1. reviews' = reviews \cup {r0} /\ r0.job.key # k
    BY <1>3 DEF CreateReview
  <2> HIDE DEF r0
  <2>2. Posts(k)' = Posts(k)
    BY <2>1 DEF Posts
  <2>3. Owed(k)' \subseteq Owed(k) \cup {}
    BY <1>2
  <2> QED
    BY <1>1, <2>2, <2>3, BudgetKept, FS_EmptySet
<1>4. CASE job[w].key = k
  <2> DEFINE r0 == [job |-> job[w], event |-> event[w]]
  <2>0. PICK j, t0 : j = job[w] /\ t0 = <<j, j.retries>>
    OBVIOUS
  <2>1. /\ job[w] \in Message /\ job[w] \notin queue
        /\ \A v \in Worker : v # w => job[v] # job[w]
    BY <1>2, OneHolder
  <2>2. job[w].retries \in 0..MaxRetries /\ job[w].retries \in Int
    BY <2>1 DEF Message
  <2>3. t0 \in Owed(k)
    BY <1>2, <1>4, <2>0, <2>1, <2>2 DEF Owed, Owes, Due
  <2>4. ~Owes(j, j.retries)'
    <3>1. /\ pc'[w] \in {"checking", "failed"} /\ job' = job /\ queue' = queue
      BY DEF CreateReview, Goto, brokerVars, Inv0, TypeOK, WorkerTypeOK
    <3>2. ~Due(pc'[w], j.retries, j.retries)
      BY <2>0, <2>2, <3>1 DEF Due
    <3> QED
      BY <2>0, <2>1, <3>1, <3>2 DEF Owes
  <2>5. Owed(k)' \subseteq (Owed(k) \ {t0}) \cup {}
    <3>1. t0 \notin Owed(k)'
      BY <2>0, <2>4 DEF Owed
    <3> QED
      BY <1>2, <3>1
  <2>6. reviews' = reviews \cup {r0}
    BY DEF CreateReview
  <2> HIDE DEF r0
  <2>7. /\ IsFiniteSet(Owed(k)') /\ Cardinality(Owed(k)') \in Nat
        /\ Cardinality(Owed(k)') + Cardinality({t0}) <= Cardinality(Owed(k)) + Cardinality({})
    BY <2>3, <2>5, ExchangeBound, FS_EmptySet DEF PostBudget
  <2>8. /\ IsFiniteSet(Posts(k)') /\ Cardinality(Posts(k)') \in Nat
        /\ Cardinality(Posts(k)') <= Cardinality(Posts(k)) + Cardinality({r0})
    <3>1. Posts(k)' \subseteq Posts(k) \cup {r0}
      BY <2>6 DEF Posts
    <3> QED
      BY <3>1, FS_Singleton, CoverBound DEF PostBudget
  <2>9. Cardinality({t0}) = 1 /\ Cardinality({r0}) = 1 /\ Cardinality({}) = 0
    BY FS_Singleton, FS_EmptySet
  <2>10. Cardinality(Posts(k)) \in Nat /\ Cardinality(Owed(k)) \in Nat
    BY FS_CardinalityType DEF PostBudget
  <2>11. PICK n \in Nat : n = (accepts[k] + crashes) * (MaxRetries + 1)
    BY <1>1, MaxRetriesAssumption, BudgetGrows
  <2>12. Cardinality(Posts(k)) + Cardinality(Owed(k)) <= n
    BY <2>11 DEF PostBudget
  <2>13. Cardinality(Posts(k)') + Cardinality(Owed(k)') <= n
    BY <2>7, <2>8, <2>9, <2>10, <2>12
  <2> QED
    BY <1>1, <2>7, <2>8, <2>11, <2>13 DEF PostBudget
<1> QED
  BY <1>3, <1>4

(* A retry hands the tickets it has left over to the message it publishes. *)
LEMMA RetryKeepsPosts ==
  ASSUME Inv0, Inv0', TagsUnique, UNCHANGED gatewayVars,
         NEW w \in Worker, pc[w] = "failed", job[w].retries < MaxRetries,
         Publish(job[w].key, job[w].retries + 1),
         Retry(w) \/ RetryFails(w),
         NEW k \in Key, PostBudget(k)
  PROVE  PostBudget(k)'
<1>1. /\ accepts' = accepts /\ crashes' = crashes /\ reviews' = reviews
      /\ accepts[k] \in Nat /\ crashes \in Nat
  BY DEF Retry, RetryFails, github, gatewayVars, Inv0, TypeOK, GatewayTypeOK, WorkerTypeOK
<1>2. /\ pc[w] = "failed" /\ pc'[w] \in {"retried", "idle"}
      /\ \A v \in Worker : v # w => pc'[v] = pc[v] /\ job'[v] = job[v]
  BY DEF Retry, RetryFails, Release, Goto, Inv0, TypeOK, WorkerTypeOK
<1>3. /\ job[w] \in Message /\ job[w] \notin queue
      /\ \A v \in Worker : v # w => job[v] # job[w]
  BY <1>2, OneHolder
<1>4. PICK r \in 1..MaxRetries :
        /\ r = job[w].retries + 1
        /\ Publish(job[w].key, r)
  BY <1>3, MaxRetriesAssumption DEF Message
<1>5. Posts(k)' = Posts(k)
  BY <1>1 DEF Posts
<1> DEFINE m0 == [tag |-> nextTag, key |-> job[w].key, retries |-> r, lost |-> 0]
<1>6. m0.key = job[w].key /\ m0.retries = r /\ queue' = queue \cup {m0}
  BY <1>4 DEF Publish
<1> HIDE DEF m0
<1>7. ASSUME NEW m \in Message, NEW i \in 0..MaxRetries, Owes(m, i)'
      PROVE  \/ Owes(m, i) /\ m # job[w]
             \/ m = m0 /\ i \in r..MaxRetries
             \/ m = job[w] /\ m = m0
  <2>1. CASE m \in queue' /\ m.retries <= i
    BY <1>3, <1>6, <2>1 DEF Owes
  <2>2. ASSUME NEW v \in Worker, job'[v] = m, Due(pc'[v], m.retries, i)
        PROVE  Owes(m, i) /\ m # job[w]
    <3>1. v # w
      BY <1>2, <2>2 DEF Due
    <3>2. pc'[v] = pc[v] /\ job'[v] = job[v]
      BY <1>2, <3>1
    <3> QED
      BY <1>3, <2>2, <3>1, <3>2 DEF Owes
  <2> QED
    BY <1>7, <2>1, <2>2 DEF Owes
<1>8. m0 # job[w]
  BY <1>3, <1>4, <1>6 DEF Message
<1>9. CASE job[w].key # k
  <2>1. Owed(k)' \subseteq Owed(k) \cup {}
    BY <1>6, <1>7, <1>9 DEF Owed
  <2> QED
    BY <1>1, <1>5, <2>1, BudgetKept, FS_EmptySet
<1>10. CASE job[w].key = k
  <2> DEFINE A == {job[w]} \X (r..MaxRetries)
             B == {m0} \X (r..MaxRetries)
  <2>1. r \in 0..(MaxRetries + 1)
    BY MaxRetriesAssumption
  <2>2. /\ IsFiniteSet(A) /\ IsFiniteSet(B) /\ Cardinality(A) = MaxRetries + 1 - r
        /\ Cardinality(B) = MaxRetries + 1 - r
    BY <2>1, TicketCount
  <2>3. A \subseteq Owed(k)
    <3> SUFFICES ASSUME NEW i \in r..MaxRetries PROVE <<job[w], i>> \in Owed(k)
      OBVIOUS
    <3>1. i \in 0..MaxRetries /\ job[w].retries < i
      BY <1>3, <1>4, MaxRetriesAssumption DEF Message
    <3>2. Owes(job[w], i)
      BY <1>2, <3>1 DEF Owes, Due
    <3> QED
      BY <1>3, <1>10, <3>1, <3>2 DEF Owed
  <2>4. Owed(k)' \subseteq (Owed(k) \ A) \cup B
    BY <1>7, <1>8 DEF Owed
  <2>5. Cardinality(A) \in Nat /\ Cardinality(B) = Cardinality(A)
    BY <2>2, FS_CardinalityType
  <2> HIDE DEF A, B
  <2>6. /\ IsFiniteSet(Owed(k)') /\ Cardinality(Owed(k)') \in Nat
        /\ Cardinality(Owed(k)') + Cardinality(A) <= Cardinality(Owed(k)) + Cardinality(B)
    BY <2>2, <2>3, <2>4, ExchangeBound DEF PostBudget
  <2>7. Cardinality(Posts(k)) \in Nat /\ Cardinality(Owed(k)) \in Nat
    BY FS_CardinalityType DEF PostBudget
  <2>8. PICK n \in Nat : n = (accepts[k] + crashes) * (MaxRetries + 1)
    BY <1>1, MaxRetriesAssumption, BudgetGrows
  <2>9. Cardinality(Posts(k)) + Cardinality(Owed(k)) <= n
    BY <2>8 DEF PostBudget
  <2>10. Cardinality(Posts(k)) + Cardinality(Owed(k)') <= n
    BY <2>5, <2>6, <2>7, <2>9
  <2> QED
    BY <1>1, <1>5, <2>6, <2>8, <2>10 DEF PostBudget
<1> QED
  BY <1>9, <1>10

(* A process that dies may cost every attempt of its message once more.    *)
LEMMA CrashKeepsPosts ==
  ASSUME Inv0, Inv0', NEW w \in Worker, Crash(w), UNCHANGED gatewayVars,
         NEW k \in Key, PostBudget(k)
  PROVE  PostBudget(k)'
<1>1. /\ accepts' = accepts /\ crashes' = crashes + 1 /\ reviews' = reviews
      /\ accepts[k] \in Nat /\ crashes \in Nat
  BY DEF Crash, github, gatewayVars, Inv0, TypeOK, GatewayTypeOK, WorkerTypeOK
<1>2. Posts(k)' = Posts(k)
  BY <1>1 DEF Posts
<1>3. PICK m0 : m0 = [job[w] EXCEPT !.lost = @ + 1]
  OBVIOUS
<1>4. /\ queue' \subseteq queue \cup {m0}
      /\ pc[w] = "idle" => queue' = queue
      /\ \A v \in Worker : v # w => pc'[v] = pc[v] /\ job'[v] = job[v]
      /\ pc'[w] = "idle"
  BY <1>3 DEF Crash, Requeue, Release, Goto, brokerVars, Inv0, TypeOK, WorkerTypeOK
<1>5. \A m \in Message : \A i \in 0..MaxRetries :
        Owes(m, i)' => Owes(m, i) \/ (m = m0 /\ pc[w] # "idle")
  BY <1>4 DEF Owes, Due
<1>6. CASE pc[w] = "idle"
  <2>1. Owed(k)' \subseteq Owed(k) \cup {}
    BY <1>5, <1>6 DEF Owed
  <2> QED
    BY <1>1, <1>2, <2>1, BudgetKept, FS_EmptySet
<1>7. CASE pc[w] # "idle"
  <2>1. Owed(k)' \subseteq Owed(k) \cup ({m0} \X (0..MaxRetries))
    BY <1>5 DEF Owed
  <2>2. 0 \in 0..(MaxRetries + 1)
    BY MaxRetriesAssumption
  <2>3. /\ IsFiniteSet({m0} \X (0..MaxRetries))
        /\ Cardinality({m0} \X (0..MaxRetries)) = MaxRetries + 1 - 0
    BY <2>2, TicketCount
  <2>4. Cardinality({m0} \X (0..MaxRetries)) <= MaxRetries + 1
    BY <2>3, MaxRetriesAssumption
  <2>5. accepts'[k] + crashes' >= accepts[k] + crashes + 1
    BY <1>1
  <2> QED
    BY <1>1, <1>2, <2>1, <2>3, <2>4, <2>5, BudgetKept
<1> QED
  BY <1>6, <1>7

LEMMA PostBudgetStep ==
  ASSUME Inv0, Inv0', TagsUnique, [Next]_vars, NEW k \in Key, PostBudget(k)
  PROVE  PostBudget(k)'
<1>1. accepts[k] \in Nat /\ crashes \in Nat
  BY DEF Inv0, TypeOK, GatewayTypeOK, WorkerTypeOK
<1>2. CASE UNCHANGED vars
  <2>1. UNCHANGED <<accepts, crashes, reviews, queue, pc, job>>
    BY <1>2 DEF vars, brokerVars, gatewayVars, workerVars, github
  <2>2. Posts(k)' = Posts(k) /\ Owed(k)' = Owed(k)
    BY <2>1 DEF Posts, Owed, Owes
  <2> QED
    BY <2>1, <2>2 DEF PostBudget
<1>3. CASE GatewayNext /\ UNCHANGED workerVars
  BY <1>3, GatewayKeepsPosts
<1>4. ASSUME NEW w \in Worker, WorkerStep(w) \/ WorkerFault(w), UNCHANGED gatewayVars
      PROVE  PostBudget(k)'
  <2>1. accepts' = accepts
    BY <1>4 DEF gatewayVars
  <2>2. ASSUME Owed(k)' \subseteq Owed(k), reviews' = reviews, crashes <= crashes'
        PROVE  PostBudget(k)'
    <3>1. Posts(k)' = Posts(k) /\ Owed(k)' \subseteq Owed(k) \cup {}
      BY <2>2 DEF Posts
    <3> QED
      BY <1>1, <2>1, <2>2, <3>1, BudgetKept, FS_EmptySet
  <2>3. CASE CreateReview(w)
    BY <1>4, <2>3, CreateKeepsPosts
  <2>4. CASE Retry(w)
    BY <1>4, <2>4, RetryKeepsPosts DEF Retry
  <2>5. CASE Crash(w)
    BY <1>4, <2>5, CrashKeepsPosts
  <2>6. CASE \/ \E m \in queue : StartReview(w, m) \/ SkipProcessed(w, m)
             \/ RunReview(w) \/ CreateCheckRun(w) \/ Finish(w) \/ Raise(w)
             \/ AckRetried(w) \/ GiveUp(w) \/ HardTimeLimit(w)
             \/ (RetryFails(w) /\ UNCHANGED brokerVars)
    <3>1. Owed(k)' \subseteq Owed(k)
      BY <2>6, FewerOwed
    <3>2. reviews' = reviews /\ crashes <= crashes'
      BY <1>1, <2>6 DEF StartReview, SkipProcessed, RunReview, CreateCheckRun, Finish, Raise,
                        AckRetried, GiveUp, HardTimeLimit, RetryFails, workerVars, github
    <3> QED
      BY <2>2, <3>1, <3>2
  <2>7. CASE RetryFails(w)
    <3>1. \/ UNCHANGED brokerVars
          \/ /\ pc[w] = "failed" /\ job[w].retries < MaxRetries
             /\ Publish(job[w].key, job[w].retries + 1)
      BY <2>7 DEF RetryFails
    <3> QED
      BY <1>4, <2>6, <2>7, <3>1, RetryKeepsPosts
  <2> QED
    BY <1>4, <2>3, <2>4, <2>5, <2>6, <2>7 DEF WorkerStep, WorkerFault
<1> QED
  BY <1>2, <1>3, <1>4 DEF Next, WorkerNext

(* However the queue duplicates, retries and requeues: a key gets at most  *)
(* one review per attempt of an enqueue, and as many again per process     *)
(* death.                                                                  *)
THEOREM PostsAreBounded == Spec => []PostsBounded
<1> DEFINE PostInv == Inv0 /\ TagsUnique /\ \A k \in Key : PostBudget(k)
<1>1. Init => PostInv
  <2> SUFFICES ASSUME Init PROVE TagsUnique /\ \A k \in Key : PostBudget(k)
    BY InitInv0
  <2>1. /\ queue = {} /\ reviews = {} /\ crashes = 0
        /\ \A w \in Worker : pc[w] = "idle"
        /\ \A k \in Key : accepts[k] = 0
    BY DEF Init, BrokerInit, GatewayInit, WorkerInit
  <2>2. TagsUnique
    BY <2>1 DEF TagsUnique
  <2>3. \A k \in Key : Posts(k) = {} /\ Owed(k) = {}
    BY <2>1 DEF Posts, Owed, Owes, Due
  <2>4. 0 + 0 <= (0 + 0) * (MaxRetries + 1)
    BY MaxRetriesAssumption
  <2> QED
    BY <2>1, <2>2, <2>3, <2>4, FS_EmptySet DEF PostBudget
<1>2. PostInv /\ [Next]_vars => PostInv'
  BY Inv0Step, TagsUniqueStep, PostBudgetStep
<1>3. PostInv => PostsBounded
  <2> SUFFICES ASSUME PostInv, NEW k \in Key
               PROVE  Cardinality(Posts(k)) <= (accepts[k] + crashes) * (MaxRetries + 1)
    BY DEF PostsBounded, Posts
  <2>1. PICK n \in Nat : n = (accepts[k] + crashes) * (MaxRetries + 1)
    <3>1. accepts[k] \in Nat /\ crashes \in Nat
      BY DEF Inv0, TypeOK, GatewayTypeOK, WorkerTypeOK
    <3>2. (accepts[k] + crashes) * (MaxRetries + 1) \in Nat
      BY <3>1, MaxRetriesAssumption
    <3> QED
      BY <3>2
  <2>2. Cardinality(Posts(k)) + Cardinality(Owed(k)) <= n
    BY <2>1 DEF PostBudget
  <2>3. Cardinality(Posts(k)) \in Nat /\ Cardinality(Owed(k)) \in Nat
    BY FS_CardinalityType DEF PostBudget
  <2> QED
    BY <2>1, <2>2, <2>3
<1> HIDE DEF PostInv
<1> QED
  BY <1>1, <1>2, <1>3, PTL DEF Spec
=============================================================================
