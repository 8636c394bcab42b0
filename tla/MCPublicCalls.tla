---------------------------- MODULE MCPublicCalls ----------------------------
(* A small instance of PublicCalls for TLC. *)
EXTENDS PublicCalls

CONSTANTS thread, host

Burst == [k \in LimitKey |-> IF k = thread THEN 2 ELSE 1]
Refill == [k \in LimitKey |-> IF k = thread THEN 2 ELSE 1]
=============================================================================
