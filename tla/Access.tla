------------------------------- MODULE Access --------------------------------
(***************************************************************************)
(* Who may do what (api/auth.py, core/security/rbac.py): a bearer token    *)
(* stands for a principal, a principal has a tenant and a role, a route    *)
(* has a least role.                                                       *)
(***************************************************************************)
EXTENDS Integers

CONSTANTS
  Tenant,    \* tenants; every store keeps what is theirs apart
  Token,     \* bearer tokens a request may carry
  Principal  \* the verifier's table: the principal of each token it knows

Role == {"owner", "admin", "maintainer", "member", "read_only", "service"}

Rank == [read_only |-> 0, member |-> 1, maintainer |-> 2, admin |-> 3, owner |-> 4, service |-> 4]

ASSUME AccessAssumption ==
  /\ DOMAIN Principal \subseteq Token
  /\ \A t \in DOMAIN Principal : Principal[t].tenant \in Tenant /\ Principal[t].role \in Role

(* get_principal and require_role: 401, 403, or through.                   *)
Known(token) == token \in DOMAIN Principal

AtLeast(role, minimum) == Rank[role] >= Rank[minimum]

Authorized(token, minimum) == Known(token) /\ AtLeast(Principal[token].role, minimum)

(* The least role of each route that needs one.                            *)
MinRole == [feedback |-> "member", audit |-> "maintainer", dashboard |-> "read_only"]
=============================================================================
