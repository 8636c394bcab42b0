-------------------------- MODULE MCReviewDelivery --------------------------
(* Small instances of ReviewDelivery for TLC. *)
EXTENDS ReviewDelivery, TLC

CONSTANTS k1, d1

Req(id, kind, key) == [id |-> id, kind |-> kind, key |-> key]

(* Every kind of request, a forged copy of a genuine delivery included.    *)
AllKinds ==
  {Req(d1, kind, k1) : kind \in Kind} \cup {Req(NoId, "review", k1)}

OneDelivery == {Req(d1, "review", k1)}

(* Worker processes are interchangeable where only invariants are checked. *)
SameWorkers == Permutations(Worker)
=============================================================================
