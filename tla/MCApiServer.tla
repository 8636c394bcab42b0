----------------------------- MODULE MCApiServer -----------------------------
(* Small instances of ApiServer for TLC. *)
EXTENDS ApiServer

CONSTANTS t1, t2, r1, r2

Principals ==
  [ada |-> [tenant |-> t1, user |-> "ada", role |-> "member"],
   rob |-> [tenant |-> t1, user |-> "rob", role |-> "read_only"],
   bea |-> [tenant |-> t2, user |-> "bea", role |-> "owner"]]

OneTenant == [r \in Repo |-> t1]

S(repo, pr, state, cost, files) ==
  [repo |-> repo, pr |-> pr, state |-> state, overall |-> 50 + cost, debt |-> 80,
   cost |-> cost, tokens |-> 10 * cost, latency |-> 5 - cost,
   decisions |-> [i \in DOMAIN files |-> [severity |-> "high", file |-> files[i]]]]

Summaries ==
  {S(r1, 1, "open", 1, <<"a", NoFile, "a">>), S(r1, 1, "closed", 2, <<"b">>),
   S(r2, 1, "open", 3, <<"a">>), S(r1, 2, "open", 4, <<"b">>)}

Payloads ==
  {ClickPayload(u, k, a) : u \in {"ada", "bea"}, k \in FeedbackKey, a \in Clicks!FeedbackAction}
    \cup {WebhookPayload(r) : r \in Repo}
=============================================================================
