----------------------------- MODULE GoldenPath -----------------------------
(***************************************************************************)
(* Feedback of one repository of one tenant and what is learned from it    *)
(* (feedback/store.py, feedback/learner.py): a confidence multiplier per   *)
(* category, between 0.4 and 1.                                            *)
(***************************************************************************)
EXTENDS Findings, Functions

CONSTANTS
  MinSamples,   \* GoldenPathLearner's min_samples (5 by default)
  MaxSamples    \* bound: feedback recorded in a behaviour

ASSUME GoldenPathAssumption == MinSamples \in Nat /\ MaxSamples \in Nat

VARIABLE feedback   \* per category: CategoryStats

FeedbackAction == {"accepted", "rejected", "edited"}

FeedbackTypeOK == feedback \in [Category -> [FeedbackAction -> Nat]]

FeedbackInit == feedback = [c \in Category |-> [a \in FeedbackAction |-> 0]]

Total(stats) == stats["accepted"] + stats["rejected"] + stats["edited"]

(* InMemoryFeedbackStore.record, reached by POST /api/v1/feedback.         *)
RecordFeedback(c, action) ==
  /\ SumFunction([d \in Category |-> Total(feedback[d])]) < MaxSamples
  /\ feedback' = [feedback EXCEPT ![c][action] = @ + 1]

(* Mutant of Learned: edits count as a half on top of full acceptance.     *)
LearnedGenerously(stats) ==
  [num |-> 4 * Total(stats) + 6 * (stats["accepted"] + stats["rejected"]) + 9 * stats["edited"],
   den |-> 10 * Total(stats)]

(* Mutant of Learned: rejections for acceptances.                          *)
LearnedInverted(stats) ==
  [num |-> 4 * Total(stats) + 6 * stats["rejected"] + 3 * stats["edited"],
   den |-> 10 * Total(stats)]

(* 0.4 + 0.6 * acceptance_rate, an edit being half an acceptance.          *)
Learned(stats) ==
  [num |-> 4 * Total(stats) + 6 * stats["accepted"] + 3 * stats["edited"],
   den |-> 10 * Total(stats)]

(* Categories never recorded have no stats, those below MinSamples no      *)
(* multiplier.                                                             *)
Adjustments ==
  [c \in {d \in Category : Total(feedback[d]) > 0 /\ Total(feedback[d]) >= MinSamples}
     |-> Learned(feedback[c])]
=============================================================================
