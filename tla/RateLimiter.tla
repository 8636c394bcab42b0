----------------------------- MODULE RateLimiter -----------------------------
(***************************************************************************)
(* InMemoryRateLimiter.allow (chat/ratelimit.py): one token bucket per     *)
(* key.  allow may be called by several threads, which is what its lock is *)
(* for: it reads the clock first and takes the lock afterwards, so other   *)
(* calls of the same key may be served between the two.                    *)
(*                                                                         *)
(* A bucket counts in units of which one comes back per tick of the clock; *)
(* a token is Period units.  Every key has its own capacity and period, as *)
(* the limiters of chat and analyze have, whose keys never meet.  Rounding *)
(* of floating point is left out.                                          *)
(***************************************************************************)
EXTENDS Integers

CONSTANTS
  Caller,    \* concurrent calls
  LimitKey,  \* keys: a chat thread, a client host
  Capacity,  \* per key: tokens a full bucket holds
  Period,    \* per key: ticks in which one token comes back, 1/refill_per_sec
  Horizon    \* bound: ticks of the clock

ASSUME LimiterAssumption ==
  /\ LimitKey # {}
  /\ Capacity \in [LimitKey -> Nat \ {0}]
  /\ Period \in [LimitKey -> Nat \ {0}]
  /\ Horizon \in Nat

VARIABLES
  clock,    \* time.monotonic()
  buckets,  \* keys in _buckets
  tokens,   \* per key: units in its bucket
  updated,  \* per key: reading its bucket was last refilled at
  stage,    \* per caller: where its call is
  key,      \* per caller: the key it asks for
  now,      \* per caller: its reading of the clock
  served    \* history, per key: the calls served, each with its reading and
            \* the number of calls granted since, itself included

bucketVars == <<buckets, tokens, updated>>
limiterVars == <<clock, bucketVars, stage, key, now, served>>

Stage == {"idle", "waiting", "granted", "refused"}

LimiterTypeOK ==
  /\ clock \in Nat
  /\ buckets \subseteq LimitKey
  /\ tokens \in [LimitKey -> Int] /\ updated \in [LimitKey -> Nat]
  /\ stage \in [Caller -> Stage]
  /\ key \in [Caller -> LimitKey] /\ now \in [Caller -> Nat]
  /\ served \in [LimitKey -> SUBSET [at : Nat, grants : Nat]]

(* The key of a caller that makes no call.                                 *)
AnyKey == CHOOSE k \in LimitKey : TRUE

LimiterInit ==
  /\ clock = 0
  /\ buckets = {}
  /\ tokens = [k \in LimitKey |-> 0] /\ updated = [k \in LimitKey |-> 0]
  /\ stage = [c \in Caller |-> "idle"]
  /\ key = [c \in Caller |-> AnyKey] /\ now = [c \in Caller |-> 0]
  /\ served = [k \in LimitKey |-> {}]

-----------------------------------------------------------------------------
Full(k) == Capacity[k] * Period[k]

Least(m, n) == IF m <= n THEN m ELSE n

(* Mutant of Refilled: an older reading refills nothing.                   *)
RefilledForward(k, at) ==
  Least(Full(k), tokens[k] + (IF at > updated[k] THEN at - updated[k] ELSE 0))

(* What the bucket holds at reading at.  A call that waited for the lock   *)
(* may bring an older reading than updated: the refill is negative then.   *)
Refilled(k, at) == Least(Full(k), tokens[k] + (at - updated[k]))

(* The clock is read, the lock not yet taken.                              *)
ReadClock(c, k) ==
  /\ stage[c] = "idle"
  /\ stage' = [stage EXCEPT ![c] = "waiting"]
  /\ key' = [key EXCEPT ![c] = k] /\ now' = [now EXCEPT ![c] = clock]
  /\ UNCHANGED <<clock, bucketVars, served>>

Serve(c, granted) ==
  LET k == key[c]
      gain == IF granted THEN 1 ELSE 0
  IN /\ stage' = [stage EXCEPT ![c] = IF granted THEN "granted" ELSE "refused"]
     /\ updated' = [updated EXCEPT ![k] = now[c]]
     /\ served' = [served EXCEPT ![k] =
          {[e EXCEPT !.grants = @ + gain] : e \in @} \cup {[at |-> now[c], grants |-> gain]}]
     /\ UNCHANGED <<clock, key, now>>

(* Under the lock: a new key starts with all tokens but the one it takes.  *)
AllowNew(c) ==
  /\ stage[c] = "waiting" /\ key[c] \notin buckets
  /\ buckets' = buckets \cup {key[c]}
  /\ tokens' = [tokens EXCEPT ![key[c]] = Full(key[c]) - Period[key[c]]]
  /\ Serve(c, TRUE)

(* Under the lock: refill, then take a token if there is one.              *)
AllowKnown(c) ==
  LET k == key[c]
      level == Refilled(k, now[c])
      granted == level >= Period[k]
  IN /\ stage[c] = "waiting" /\ k \in buckets
     /\ tokens' = [tokens EXCEPT ![k] = IF granted THEN level - Period[k] ELSE level]
     /\ Serve(c, granted)
     /\ UNCHANGED buckets

Allow(c) == AllowNew(c) \/ AllowKnown(c)

(* The caller goes on with the answer.                                     *)
Leave(c) ==
  /\ stage[c] \in {"granted", "refused"}
  /\ stage' = [stage EXCEPT ![c] = "idle"]
  /\ key' = [key EXCEPT ![c] = AnyKey] /\ now' = [now EXCEPT ![c] = 0]
  /\ UNCHANGED <<clock, bucketVars, served>>

Tick ==
  /\ clock < Horizon
  /\ clock' = clock + 1
  /\ UNCHANGED <<bucketVars, stage, key, now, served>>

LimiterNext ==
  \/ Tick
  \/ \E c \in Caller : (\E k \in LimitKey : ReadClock(c, k)) \/ Allow(c) \/ Leave(c)

LimiterSpec == LimiterInit /\ [][LimiterNext]_limiterVars

-----------------------------------------------------------------------------
(* The calls granted since an earlier call, one more included, fit what a  *)
(* full bucket held at that call and what came back since.                 *)
OneMoreFits(k, at) ==
  \A e \in served[k] : Period[k] * (e.grants + 1) <= Full(k) + (at - e.at)

ServesExactly ==
  \A c \in Caller : stage[c] = "waiting" /\ stage'[c] \in {"granted", "refused"} =>
    (stage'[c] = "granted" <=> OneMoreFits(key[c], now[c]))

(* The bucket grants exactly what the sliding windows allow: a call is     *)
(* granted if and only if, counted from every earlier call of its key, the *)
(* grants stay within the burst and the rate, even when calls overtake one *)
(* another between the clock and the lock (ratelimit.py:34-46).            *)
GrantsExactly == [][ServesExactly]_limiterVars
=============================================================================
