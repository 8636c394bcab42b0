---------------------------- MODULE ReviewPromise ---------------------------
(***************************************************************************)
(* What a pull request's author is promised for one review key, with no    *)
(* queue, no retries and no processes: once a review is owed it is         *)
(* published, first as a review and then as a check run, unless the        *)
(* service gives the key up.  Publishing again is not visible here.        *)
(***************************************************************************)
CONSTANT Key

VARIABLES
  stage,   \* per key: how far its publication has come
  gaveUp   \* keys some execution was given up for

vars == <<stage, gaveUp>>

Init ==
  /\ stage = [k \in Key |-> "none"]
  /\ gaveUp = {}

Advance(k, from, to) ==
  /\ stage[k] = from
  /\ stage' = [stage EXCEPT ![k] = to]
  /\ UNCHANGED gaveUp

Accept(k) == Advance(k, "none", "owed")
Review(k) == Advance(k, "owed", "reviewed")
Complete(k) == Advance(k, "reviewed", "complete")

GiveUp(k) ==
  /\ stage[k] # "none"
  /\ gaveUp' = gaveUp \cup {k}
  /\ UNCHANGED stage

(* A review is a debt until it is complete or given up.                    *)
Settle(k) ==
  /\ stage[k] # "complete" /\ k \notin gaveUp
  /\ Review(k) \/ Complete(k) \/ GiveUp(k)

Next == \E k \in Key : Accept(k) \/ Review(k) \/ Complete(k) \/ GiveUp(k)

Spec == Init /\ [][Next]_vars /\ \A k \in Key : WF_vars(Settle(k))
=============================================================================
