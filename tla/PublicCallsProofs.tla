--------------------------- MODULE PublicCallsProofs ---------------------------
(***************************************************************************)
(* The token bucket grants exactly what its sliding windows allow, for     *)
(* every capacity, rate, number of callers and length of a behaviour, and  *)
(* in whatever order the calls reach the lock.                             *)
(***************************************************************************)
EXTENDS PublicCalls, TLAPS

(* What a served call leaves to the bucket: what was full at that call and *)
(* came back until the last refill, less a token per call granted since.   *)
Room(k, e) == Full(k) + (updated[k] - e.at) - Period[k] * e.grants

(* The bucket holds the least room of all its calls: no call is forgotten, *)
(* and the one that binds is a call that was made.                         *)
HoldsLeastRoom(k) ==
  /\ \A e \in served[k] : tokens[k] <= Room(k, e)
  /\ \E e \in served[k] : tokens[k] = Room(k, e)

BucketsExact ==
  \A k \in LimitKey :
    /\ k \in buckets => HoldsLeastRoom(k)
    /\ k \notin buckets => served[k] = {}

LimiterInv == LimiterTypeOK /\ BucketsExact

-----------------------------------------------------------------------------
(* A full bucket holds a token at least.                                   *)
LEMMA FullHoldsAToken ==
  ASSUME NEW k \in LimitKey
  PROVE  Full(k) \in Nat /\ Period[k] \in Nat \ {0} /\ Period[k] <= Full(k)
<1>1. Capacity[k] \in Nat \ {0} /\ Period[k] \in Nat \ {0}
  BY LimiterAssumption
<1>2. \A m, n \in Nat \ {0} : m * n \in Nat /\ n <= m * n
  OBVIOUS
<1> QED
  BY <1>1, <1>2 DEF Full

(* The arithmetic of a grant: a call granted after e costs e one token.    *)
LEMMA OneMoreGrant ==
  ASSUME NEW p \in Nat, NEW g \in Nat
  PROVE  /\ p * g \in Nat /\ p * (g + 1) = p * g + p
         /\ p * (g + 0) = p * g /\ p * 1 = p /\ p * 0 = 0
OBVIOUS

LEMMA RoomIsInt ==
  ASSUME LimiterTypeOK, NEW k \in LimitKey, NEW e \in served[k]
  PROVE  Room(k, e) \in Int /\ e.at \in Nat /\ e.grants \in Nat
<1>1. e \in [at : Nat, grants : Nat]
  BY DEF LimiterTypeOK
<1>2. e.at \in Nat /\ e.grants \in Nat /\ updated[k] \in Nat
  BY <1>1 DEF LimiterTypeOK
<1>3. Period[k] * e.grants \in Nat
  BY <1>2, FullHoldsAToken, OneMoreGrant
<1> QED
  BY <1>2, <1>3, FullHoldsAToken DEF Room

(* Because the bucket holds the least room, the refilled level pays for a  *)
(* token exactly when one more grant fits the window of every call.        *)
LEMMA LevelIsWindow ==
  ASSUME LimiterInv, NEW k \in buckets, NEW at \in Nat
  PROVE  (Refilled(k, at) >= Period[k]) <=> OneMoreFits(k, at)
<1>0. k \in LimitKey /\ LimiterTypeOK /\ HoldsLeastRoom(k)
  BY DEF LimiterInv, LimiterTypeOK, BucketsExact
<1>1. tokens[k] \in Int /\ updated[k] \in Nat
  BY <1>0 DEF LimiterTypeOK
<1>2. (Refilled(k, at) >= Period[k]) <=> (tokens[k] + (at - updated[k]) >= Period[k])
  BY <1>0, <1>1, FullHoldsAToken DEF Refilled, Least
<1>3. \A e \in served[k] :
        /\ Room(k, e) \in Int /\ e.at \in Nat
        /\ (Period[k] * (e.grants + 1) <= Full(k) + (at - e.at))
             <=> (Room(k, e) + (at - updated[k]) >= Period[k])
  <2> TAKE e \in served[k]
  <2>1. Room(k, e) \in Int /\ e.at \in Nat /\ e.grants \in Nat
    BY <1>0, RoomIsInt
  <2>2. Period[k] * e.grants \in Nat /\ Period[k] * (e.grants + 1) = Period[k] * e.grants + Period[k]
    BY <1>0, <2>1, FullHoldsAToken, OneMoreGrant
  <2> QED
    BY <1>0, <1>1, <2>1, <2>2, FullHoldsAToken DEF Room
<1>4. Period[k] \in Int
  BY <1>0, FullHoldsAToken
<1>5. CASE tokens[k] + (at - updated[k]) >= Period[k]
  <2>1. \A e \in served[k] : Room(k, e) + (at - updated[k]) >= Period[k]
    BY <1>0, <1>1, <1>3, <1>4, <1>5 DEF HoldsLeastRoom
  <2> QED
    BY <1>2, <1>3, <1>5, <2>1 DEF OneMoreFits
<1>6. CASE ~(tokens[k] + (at - updated[k]) >= Period[k])
  <2>1. PICK e \in served[k] : tokens[k] = Room(k, e)
    BY <1>0 DEF HoldsLeastRoom
  <2>2. ~(Period[k] * (e.grants + 1) <= Full(k) + (at - e.at))
    BY <1>3, <1>6, <2>1
  <2> QED
    BY <1>2, <1>6, <2>2 DEF OneMoreFits
<1> QED
  BY <1>5, <1>6

-----------------------------------------------------------------------------
LEMMA LimiterInitInv == LimiterInit => LimiterInv
<1> SUFFICES ASSUME LimiterInit PROVE LimiterInv
  OBVIOUS
<1>1. AnyKey \in LimitKey
  BY LimiterAssumption DEF AnyKey
<1> QED
  BY <1>1 DEF LimiterInit, LimiterInv, LimiterTypeOK, Stage, BucketsExact

(* Counting a grant for every served call of a key, in a record written    *)
(* out: the form the prover reads.                                         *)
LEMMA Counted ==
  ASSUME NEW S \in SUBSET [at : Nat, grants : Nat], NEW gain \in Nat
  PROVE  /\ {[e EXCEPT !.grants = @ + gain] : e \in S} = {[at |-> e.at, grants |-> e.grants + gain] : e \in S}
         /\ {[at |-> e.at, grants |-> e.grants + gain] : e \in S} \in SUBSET [at : Nat, grants : Nat]
<1>1. \A e \in S :
        /\ [e EXCEPT !.grants = @ + gain] = [at |-> e.at, grants |-> e.grants + gain]
        /\ [at |-> e.at, grants |-> e.grants + gain] \in [at : Nat, grants : Nat]
  OBVIOUS
<1>2. \A e \in S : [e EXCEPT !.grants = e.grants + gain] = [at |-> e.at, grants |-> e.grants + gain]
  BY <1>1
<1> DEFINE bumped(e) == [e EXCEPT !.grants = e.grants + gain]
           written(e) == [at |-> e.at, grants |-> e.grants + gain]
<1>3. \A e \in S : bumped(e) = written(e)
  BY <1>2
<1>4. \A e \in S : written(e) \in [at : Nat, grants : Nat]
  BY <1>1
<1>5. {bumped(e) : e \in S} = {written(e) : e \in S}
  <2> HIDE DEF bumped, written
  <2> QED
    BY <1>3, Zenon
<1>6. {written(e) : e \in S} \in SUBSET [at : Nat, grants : Nat]
  <2> HIDE DEF written
  <2> QED
    BY <1>4
<1> QED
  BY <1>5, <1>6

(* What serving a call does to the history of its key and of the others.   *)
LEMMA ServeHistory ==
  ASSUME LimiterTypeOK, NEW c \in Caller, NEW granted \in BOOLEAN, Serve(c, granted),
         NEW gain, gain = IF granted THEN 1 ELSE 0
  PROVE  /\ key[c] \in LimitKey /\ now[c] \in Nat /\ gain \in Nat
         /\ stage' \in [Caller -> Stage]
         /\ updated' = [updated EXCEPT ![key[c]] = now[c]]
         /\ updated' \in [LimitKey -> Nat]
         /\ served' \in [LimitKey -> SUBSET [at : Nat, grants : Nat]]
         /\ \A k \in LimitKey \ {key[c]} : served'[k] = served[k]
         /\ served'[key[c]] = {[at |-> e.at, grants |-> e.grants + gain] : e \in served[key[c]]}
                                 \cup {[at |-> now[c], grants |-> gain]}
         /\ UNCHANGED <<clock, key, now>>
<1> DEFINE k == key[c]
           counted == {[at |-> e.at, grants |-> e.grants + gain] : e \in served[k]}
<1>1. k \in LimitKey /\ now[c] \in Nat /\ gain \in Nat
  BY DEF LimiterTypeOK
<1>2. stage' \in [Caller -> Stage]
  BY DEF LimiterTypeOK, Serve, Stage
<1>3. updated' = [updated EXCEPT ![k] = now[c]] /\ updated' \in [LimitKey -> Nat]
  BY <1>1 DEF LimiterTypeOK, Serve
<1>4. served[k] \in SUBSET [at : Nat, grants : Nat]
  BY <1>1 DEF LimiterTypeOK
<1>5. served' = [served EXCEPT ![k] =
          {[e EXCEPT !.grants = @ + gain] : e \in served[k]} \cup {[at |-> now[c], grants |-> gain]}]
  BY DEF Serve
<1>6. served' = [served EXCEPT ![k] = counted \cup {[at |-> now[c], grants |-> gain]}]
  BY <1>1, <1>4, <1>5, Counted
<1>7. counted \cup {[at |-> now[c], grants |-> gain]} \in SUBSET [at : Nat, grants : Nat]
  BY <1>1, <1>4, Counted
<1> HIDE DEF counted
<1>8. /\ served' \in [LimitKey -> SUBSET [at : Nat, grants : Nat]]
      /\ \A j \in LimitKey \ {k} : served'[j] = served[j]
      /\ served'[k] = counted \cup {[at |-> now[c], grants |-> gain]}
  BY <1>1, <1>6, <1>7 DEF LimiterTypeOK
<1>9. UNCHANGED <<clock, key, now>>
  BY DEF Serve
<1> QED
  BY <1>1, <1>2, <1>3, <1>8, <1>9 DEF counted
(* Serving a call from a level that is the least of the full bucket and of *)
(* what the earlier calls leave at this reading keeps every bucket exact.  *)
LEMMA ServeKeepsExact ==
  ASSUME LimiterInv, NEW c \in Caller, NEW granted \in BOOLEAN, Serve(c, granted),
         NEW gain, gain = IF granted THEN 1 ELSE 0,
         NEW level \in Int,
         tokens' = [tokens EXCEPT ![key[c]] = level - Period[key[c]] * gain],
         buckets' = buckets \cup {key[c]},
         level <= Full(key[c]),
         \A e \in served[key[c]] : level <= Room(key[c], e) + (now[c] - updated[key[c]]),
         \/ level = Full(key[c])
         \/ \E e \in served[key[c]] : level = Room(key[c], e) + (now[c] - updated[key[c]])
  PROVE  LimiterInv'
<1>k. PICK k \in LimitKey : k = key[c]
  BY DEF LimiterInv, LimiterTypeOK
<1> DEFINE bumped(e) == [at |-> e.at, grants |-> e.grants + gain]
           new == [at |-> now[c], grants |-> gain]
           room(e) == Full(k) + (now[c] - e.at) - Period[k] * e.grants
<1>0. LimiterTypeOK /\ BucketsExact
  BY DEF LimiterInv
<1>1. /\ k \in LimitKey /\ now[c] \in Nat /\ gain \in Nat
      /\ stage' \in [Caller -> Stage]
      /\ updated' = [updated EXCEPT ![k] = now[c]] /\ updated' \in [LimitKey -> Nat]
      /\ served' \in [LimitKey -> SUBSET [at : Nat, grants : Nat]]
      /\ \A j \in LimitKey \ {k} : served'[j] = served[j]
      /\ served'[k] = {bumped(e) : e \in served[k]} \cup {new}
      /\ UNCHANGED <<clock, key, now>>
  BY <1>0, <1>k, ServeHistory
<1>2. Full(k) \in Nat /\ Period[k] \in Nat /\ Period[k] * gain \in Nat
  BY <1>1, FullHoldsAToken, OneMoreGrant
<1>3. /\ tokens' \in [LimitKey -> Int] /\ tokens'[k] = level - Period[k] * gain
      /\ \A j \in LimitKey \ {k} : tokens'[j] = tokens[j] /\ updated'[j] = updated[j]
      /\ updated'[k] = now[c]
  BY <1>0, <1>1, <1>2, <1>k DEF LimiterTypeOK
<1>4. LimiterTypeOK'
  BY <1>0, <1>1, <1>3 DEF LimiterTypeOK
<1>5. \A e \in served[k] :
        /\ Room(k, e) + (now[c] - updated[k]) = room(e) /\ room(e) \in Int
        /\ room(bumped(e)) = room(e) - Period[k] * gain
  <2> TAKE e \in served[k]
  <2>1. e.at \in Nat /\ e.grants \in Nat /\ updated[k] \in Nat
    BY <1>0, <1>1, RoomIsInt DEF LimiterTypeOK
  <2>2. Period[k] * e.grants \in Nat /\ Period[k] * (e.grants + gain) = Period[k] * e.grants + Period[k] * gain
    BY <1>2, <2>1, OneMoreGrant
  <2>3. bumped(e).at = e.at /\ bumped(e).grants = e.grants + gain
    OBVIOUS
  <2> QED
    BY <1>1, <1>2, <2>1, <2>2, <2>3 DEF Room
<1>6. room(new) = Full(k) - Period[k] * gain
  BY <1>1, <1>2
<1>7. \A e \in served'[k] : Room(k, e)' = room(e)
  BY <1>1, <1>3 DEF Room, Full
<1>8. \A e \in served'[k] : tokens'[k] <= room(e)
  <2> SUFFICES ASSUME NEW e \in served'[k] PROVE tokens'[k] <= room(e)
    OBVIOUS
  <2>1. CASE e = new
    BY <1>2, <1>3, <1>6, <1>k, <2>1
  <2>2. CASE \E d \in served[k] : e = bumped(d)
    <3>1. PICK d \in served[k] : e = bumped(d)
      BY <2>2
    <3>2. level <= room(d) /\ room(d) \in Int /\ room(e) = room(d) - Period[k] * gain
      BY <1>5, <1>k, <3>1
    <3> QED
      BY <1>2, <1>3, <3>2
  <2> QED
    BY <1>1, <2>1, <2>2
<1>9. \E e \in served'[k] : tokens'[k] = room(e)
  <2>1. CASE level = Full(k)
    BY <1>1, <1>3, <1>6, <1>k, <2>1
  <2>2. CASE \E e \in served[k] : level = Room(k, e) + (now[c] - updated[k])
    <3>1. PICK d \in served[k] : level = Room(k, d) + (now[c] - updated[k])
      BY <2>2
    <3>2. tokens'[k] = room(bumped(d))
      BY <1>3, <1>5, <3>1
    <3>3. bumped(d) \in served'[k]
      BY <1>1
    <3> QED
      BY <3>2, <3>3
  <2> QED
    BY <1>k, <2>1, <2>2
<1>10. HoldsLeastRoom(k)'
  <2> HIDE DEF room
  <2> QED
    BY <1>7, <1>8, <1>9 DEF HoldsLeastRoom
<1>11. BucketsExact'
  <2> SUFFICES ASSUME NEW j \in LimitKey
               PROVE  (j \in buckets' => HoldsLeastRoom(j)') /\ (j \notin buckets' => served'[j] = {})
    BY DEF BucketsExact
  <2>1. CASE j = k
    BY <1>k, <1>10, <2>1
  <2>2. CASE j # k
    <3>1. HoldsLeastRoom(j)' = HoldsLeastRoom(j)
      BY <1>1, <1>3, <2>2 DEF HoldsLeastRoom, Room, Full
    <3> QED
      BY <1>0, <1>1, <1>k, <2>2, <3>1 DEF BucketsExact
  <2> QED
    BY <2>1, <2>2
<1> QED
  BY <1>4, <1>11 DEF LimiterInv

LEMMA LimiterStep == LimiterInv /\ [LimiterNext]_limiterVars => LimiterInv'
<1> SUFFICES ASSUME LimiterInv, [LimiterNext]_limiterVars PROVE LimiterInv'
  OBVIOUS
<1>0. LimiterTypeOK /\ BucketsExact
  BY DEF LimiterInv
<1>k. AnyKey \in LimitKey
  BY LimiterAssumption DEF AnyKey
<1>b. ASSUME LimiterTypeOK', UNCHANGED <<buckets, tokens, updated, served>> PROVE LimiterInv'
  BY <1>0, <1>b DEF LimiterInv, BucketsExact, HoldsLeastRoom, Room, Full
<1>1. CASE Tick
  BY <1>0, <1>1, <1>b DEF Tick, LimiterTypeOK, bucketVars
<1>2. ASSUME NEW c \in Caller, NEW k \in LimitKey, ReadClock(c, k) PROVE LimiterInv'
  BY <1>0, <1>2, <1>b DEF ReadClock, LimiterTypeOK, bucketVars, Stage
<1>3. ASSUME NEW c \in Caller, AllowNew(c) PROVE LimiterInv'
  <2> DEFINE k == key[c]
  <2>1. k \in LimitKey /\ k \notin buckets /\ served[k] = {}
    BY <1>0, <1>3 DEF LimiterTypeOK, BucketsExact, AllowNew
  <2>2. Full(k) \in Nat /\ Period[k] \in Nat /\ Period[k] * 1 = Period[k]
    BY <2>1, FullHoldsAToken
  <2>3. /\ Serve(c, TRUE) /\ buckets' = buckets \cup {k}
        /\ tokens' = [tokens EXCEPT ![k] = Full(k) - Period[k] * 1]
    BY <1>3, <2>2 DEF AllowNew
  <2>4. /\ 1 = IF TRUE THEN 1 ELSE 0
        /\ Full(k) \in Int /\ Full(k) <= Full(k) /\ TRUE \in BOOLEAN
        /\ \A e \in served[k] : Full(k) <= Room(k, e) + (now[c] - updated[k])
    BY <2>1, <2>2
  <2> QED
    BY <2>3, <2>4, ServeKeepsExact
<1>4. ASSUME NEW c \in Caller, AllowKnown(c) PROVE LimiterInv'
  <2> DEFINE k == key[c]
             level == Refilled(k, now[c])
             granted == level >= Period[k]
             gain == IF granted THEN 1 ELSE 0
  <2>1. k \in LimitKey /\ k \in buckets /\ now[c] \in Nat /\ HoldsLeastRoom(k)
    BY <1>0, <1>4 DEF LimiterTypeOK, BucketsExact, AllowKnown
  <2>2. tokens[k] \in Int /\ updated[k] \in Nat /\ Full(k) \in Nat /\ Period[k] \in Nat
    BY <1>0, <2>1, FullHoldsAToken DEF LimiterTypeOK
  <2>3. /\ level \in Int /\ level <= Full(k) /\ level <= tokens[k] + (now[c] - updated[k])
        /\ level = Full(k) \/ level = tokens[k] + (now[c] - updated[k])
    BY <2>1, <2>2 DEF Refilled, Least
  <2>4. \A e \in served[k] : level <= Room(k, e) + (now[c] - updated[k])
    <3> TAKE e \in served[k]
    <3>1. Room(k, e) \in Int /\ tokens[k] <= Room(k, e)
      BY <1>0, <2>1, RoomIsInt DEF HoldsLeastRoom
    <3> QED
      BY <2>1, <2>2, <2>3, <3>1
  <2>5. \/ level = Full(k)
        \/ \E e \in served[k] : level = Room(k, e) + (now[c] - updated[k])
    BY <2>1, <2>3 DEF HoldsLeastRoom
  <2>6. /\ Serve(c, granted) /\ buckets' = buckets \cup {k}
        /\ tokens' = [tokens EXCEPT ![k] = IF granted THEN level - Period[k] ELSE level]
    BY <1>4, <2>1 DEF AllowKnown
  <2> HIDE DEF level
  <2>7. (IF granted THEN level - Period[k] ELSE level) = level - Period[k] * gain
    BY <2>2, <2>3
  <2>8. granted \in BOOLEAN /\ gain = IF granted THEN 1 ELSE 0
    OBVIOUS
  <2>9. tokens' = [tokens EXCEPT ![k] = level - Period[k] * gain]
    BY <2>6, <2>7
  <2> HIDE DEF granted, gain
  <2> QED
    BY <2>3, <2>4, <2>5, <2>6, <2>8, <2>9, ServeKeepsExact
<1>5. ASSUME NEW c \in Caller, Leave(c) PROVE LimiterInv'
  BY <1>0, <1>5, <1>b, <1>k DEF Leave, LimiterTypeOK, bucketVars, Stage
<1>6. CASE UNCHANGED limiterVars
  BY <1>0, <1>6, <1>b DEF limiterVars, LimiterTypeOK, bucketVars
<1> QED
  BY <1>1, <1>2, <1>3, <1>4, <1>5, <1>6 DEF LimiterNext, Allow
-----------------------------------------------------------------------------
(* A step of the limiter that decides a call decides it by the windows.    *)
LEMMA LimiterServesExactly == LimiterInv /\ [LimiterNext]_limiterVars => ServesExactly
<1> SUFFICES ASSUME LimiterInv, [LimiterNext]_limiterVars,
                    NEW c \in Caller, stage[c] = "waiting", stage'[c] \in {"granted", "refused"}
             PROVE  stage'[c] = "granted" <=> OneMoreFits(key[c], now[c])
  BY DEF ServesExactly
<1>0. LimiterTypeOK /\ BucketsExact /\ key[c] \in LimitKey /\ now[c] \in Nat
  BY DEF LimiterInv, LimiterTypeOK
<1>1. Allow(c)
  <2>1. CASE Tick \/ UNCHANGED limiterVars
    BY <2>1 DEF Tick, limiterVars
  <2>2. ASSUME NEW d \in Caller, NEW k \in LimitKey, ReadClock(d, k) PROVE FALSE
    BY <1>0, <2>2 DEF ReadClock, LimiterTypeOK
  <2>3. ASSUME NEW d \in Caller, Leave(d) PROVE FALSE
    BY <1>0, <2>3 DEF Leave, LimiterTypeOK
  <2>4. ASSUME NEW d \in Caller, Allow(d) PROVE d = c
    BY <1>0, <2>4 DEF Allow, AllowNew, AllowKnown, Serve, LimiterTypeOK
  <2> QED
    BY <2>1, <2>2, <2>3, <2>4 DEF LimiterNext
<1>2. CASE AllowNew(c)
  <2>1. served[key[c]] = {} /\ stage'[c] = "granted"
    BY <1>0, <1>2 DEF AllowNew, Serve, BucketsExact, LimiterTypeOK
  <2> QED
    BY <2>1 DEF OneMoreFits
<1>3. CASE AllowKnown(c)
  <2>1. key[c] \in buckets /\ (stage'[c] = "granted" <=> Refilled(key[c], now[c]) >= Period[key[c]])
    BY <1>0, <1>3 DEF AllowKnown, Serve, LimiterTypeOK
  <2> QED
    BY <1>0, <2>1, LevelIsWindow
<1> QED
  BY <1>1, <1>2, <1>3 DEF Allow

(* A bucket holds the least room its calls leave, always.                  *)
THEOREM LimiterSafe == LimiterSpec => []LimiterInv
BY LimiterInitInv, LimiterStep, PTL DEF LimiterSpec

(* Whatever order its callers reach the lock in, the limiter grants a call *)
(* if and only if the burst and the rate allow it (ratelimit.py:34-46).    *)
THEOREM LimiterGrantsExactly == LimiterSpec => GrantsExactly
BY LimiterSafe, LimiterServesExactly, PTL DEF LimiterSpec, GrantsExactly

-----------------------------------------------------------------------------
(* Chat and analyze use the limiter as its specification says: what they   *)
(* do besides calling it and going on with its answer leaves it alone.     *)
THEOREM CallsImplementLimiter == CallsSpec => LimiterSpec
<1>1. CallsInit => LimiterInit
  BY DEF CallsInit
<1>2. [CallsNext]_callVars => [LimiterNext]_limiterVars
  <2> SUFFICES ASSUME [CallsNext]_callVars PROVE [LimiterNext]_limiterVars
    OBVIOUS
  <2>1. CASE Tick
    BY <2>1 DEF LimiterNext
  <2>2. ASSUME NEW c \in Caller, NEW k \in LimitKey, Call(c, k) PROVE LimiterNext
    BY <2>2 DEF Call, LimiterNext
  <2>3. ASSUME NEW c \in Caller, Admit(c) PROVE LimiterNext
    BY <2>3 DEF Admit, LimiterNext
  <2>4. ASSUME NEW c \in Caller, NEW answer, Return(c, answer) PROVE LimiterNext
    BY <2>4 DEF Return, LimiterNext
  <2>5. ASSUME NEW c \in Caller, NEW what, AwaitFor(c, what) PROVE UNCHANGED limiterVars
    BY <2>5 DEF AwaitFor
  <2>6. ASSUME NEW c \in Caller, Proceed(c) PROVE [LimiterNext]_limiterVars
    BY <2>3, <2>4, <2>5, <2>6 DEF Proceed, Refused, Answer, AfterModel, Analyze, AfterFetch
  <2>7. CASE UNCHANGED callVars
    BY <2>7 DEF callVars
  <2> QED
    BY <2>1, <2>2, <2>6, <2>7 DEF CallsNext
<1> QED
  BY <1>1, <1>2, PTL DEF CallsSpec, LimiterSpec

(* So the limits of chat and of the analyze endpoints are exact too.       *)
THEOREM CallsGrantExactly == CallsSpec => GrantsExactly
BY CallsImplementLimiter, LimiterGrantsExactly, PTL
=============================================================================
