--------------------------- MODULE ApiServerProofs ---------------------------
(***************************************************************************)
(* The stores of the API process: what a verified audit chain tells, for   *)
(* chains of every length and any number of storage faults; that the       *)
(* clicks counted and the clicks audited are the same ones; and that the   *)
(* dashboard's views of any number of records agree.                       *)
(***************************************************************************)
EXTENDS ApiServer, SequenceTheorems, SumFacts

(* The hash of every event in the list, moved and doubled ones included,   *)
(* is one that record computed: no fault makes up a hash.                  *)
HashesAreWritten ==
  \A t \in Tenant : \A i \in DOMAIN chain[t] : chain[t][i].hash \in written[t]

AuditInv == AuditTypeOK /\ HashesAreWritten

-----------------------------------------------------------------------------
(* In a list that verifies, the hash of an event is the sequence of the    *)
(* payloads up to it.                                                      *)
LEMMA HashTellsPayloads ==
  ASSUME NEW c \in Seq(Event), Verify(c), NEW n \in DOMAIN c
  PROVE  c[n].hash = [i \in 1..n |-> c[i].payload]
<1> DEFINE told(m) == c[m].hash = [i \in 1..m |-> c[i].payload]
           T == {m \in DOMAIN c : ~told(m)}
<1>1. DOMAIN c = 1..Len(c) /\ Len(c) \in Nat /\ \A i \in 1..Len(c) : c[i] \in Event
  OBVIOUS
<1>2. SUFFICES ASSUME T # {} PROVE FALSE
  BY Zenon
<1>3. T \subseteq Nat
  BY <1>1
<1>4. PICK m \in T : \A k \in T : m <= k
  <2> HIDE DEF T
  <2> QED
    BY <1>2, <1>3, LeastExists
<1>5. m \in 1..Len(c) /\ ~told(m) /\ \A k \in 1..Len(c) : k < m => told(k)
  <2> HIDE DEF told
  <2> QED
    BY <1>1, <1>4
<1>6. /\ c[m].prev_hash = (IF m = 1 THEN <<>> ELSE c[m - 1].hash)
      /\ c[m].hash = Append(c[m].prev_hash, c[m].payload)
      /\ c[m].payload \in Payload
  BY <1>1, <1>5 DEF Verify, Linked, ChainHash, GENESIS, Event
<1>7. c[m].prev_hash = [i \in 1..(m - 1) |-> c[i].payload]
  <2>1. CASE m = 1
    <3>1. <<>> = [i \in 1..0 |-> c[i].payload]
      OBVIOUS
    <3> QED
      BY <1>6, <2>1, <3>1
  <2>2. CASE m # 1
    <3>1. m - 1 \in 1..Len(c) /\ m - 1 < m
      BY <1>1, <1>5, <2>2
    <3>2. told(m - 1)
      BY <1>5, <3>1
    <3> QED
      BY <1>6, <2>2, <3>2
  <2> QED
    BY <2>1, <2>2
<1>8. Append([i \in 1..(m - 1) |-> c[i].payload], c[m].payload) = [i \in 1..m |-> c[i].payload]
  <2> DEFINE s == [i \in 1..(m - 1) |-> c[i].payload]
  <2>0. m - 1 \in Nat /\ m - 1 <= Len(c)
    BY <1>1, <1>5
  <2>1. s \in Seq(Payload) /\ Len(s) = m - 1
    <3>1. \A i \in 1..(m - 1) : c[i].payload \in Payload
      BY <1>1, <2>0 DEF Event
    <3> QED
      BY <2>0, <3>1, IsASeq
  <2>2. Append(s, c[m].payload) = [i \in 1..m |-> IF i = m THEN c[m].payload ELSE s[i]]
    BY <1>5, <2>1
  <2>3. \A i \in 1..m : (IF i = m THEN c[m].payload ELSE s[i]) = c[i].payload
    BY <1>5
  <2> QED
    BY <2>2, <2>3
<1> QED
  BY <1>5, <1>6, <1>7, <1>8
-----------------------------------------------------------------------------
(* A list of events whose chain hashes are all some event's of c.          *)
HashesOf(d, c) ==
  /\ d \in Seq(Event)
  /\ \A j \in DOMAIN d : \E i \in DOMAIN c : d[j].hash = c[i].hash

(* No fault of the storage makes up a chain hash.                          *)
LEMMA AlteredHashes ==
  ASSUME NEW c \in Seq(Event), NEW i \in DOMAIN c, NEW e \in Event, e.hash = c[i].hash
  PROVE  HashesOf([c EXCEPT ![i] = e], c)
<1>1. [c EXCEPT ![i] = e] \in Seq(Event) /\ DOMAIN [c EXCEPT ![i] = e] = DOMAIN c
  BY ExceptSeq
<1>2. \A j \in DOMAIN c : [c EXCEPT ![i] = e][j].hash = c[j].hash
  OBVIOUS
<1> QED
  BY <1>1, <1>2 DEF HashesOf

LEMMA RemovedHashes ==
  ASSUME NEW c \in Seq(Event), NEW i \in DOMAIN c
  PROVE  HashesOf(RemoveAt(c, i), c)
<1> DEFINE d == SubSeq(c, 1, i - 1)
           e == SubSeq(c, i + 1, Len(c))
<1>1. i \in 1..Len(c) /\ Len(c) \in Nat
  OBVIOUS
<1>2. /\ d \in Seq(Event) /\ Len(d) = i - 1
      /\ \A j \in 1..(i - 1) : d[j] = c[j]
  <2>1. 1 \in 1..(Len(c) + 1) /\ i - 1 \in (1 - 1)..Len(c)
    BY <1>1
  <2> QED
    BY <1>1, <2>1, SubSeqProperties
<1>3. /\ e \in Seq(Event) /\ Len(e) = Len(c) - i
      /\ \A j \in 1..(Len(c) - i) : e[j] = c[i + j]
  <2>1. i + 1 \in 1..(Len(c) + 1) /\ Len(c) \in ((i + 1) - 1)..Len(c)
    BY <1>1
  <2> QED
    BY <1>1, <2>1, SubSeqProperties
<1> HIDE DEF d, e
<1>4. /\ d \o e \in Seq(Event) /\ Len(d \o e) = Len(d) + Len(e)
      /\ \A j \in 1..(Len(d) + Len(e)) : (d \o e)[j] = IF j <= Len(d) THEN d[j] ELSE e[j - Len(d)]
  BY <1>2, <1>3, ConcatProperties
<1>5. ASSUME NEW j \in DOMAIN (d \o e)
      PROVE  \E k \in DOMAIN c : (d \o e)[j].hash = c[k].hash
  <2>1. j \in 1..(Len(c) - 1)
    BY <1>1, <1>2, <1>3, <1>4
  <2>2. CASE j <= i - 1
    <3>1. (d \o e)[j] = d[j] /\ d[j] = c[j] /\ j \in DOMAIN c
      BY <1>1, <1>2, <1>3, <1>4, <2>1, <2>2
    <3> QED
      BY <3>1
  <2>3. CASE ~(j <= i - 1)
    <3>1. j - (i - 1) \in 1..(Len(c) - i) /\ i + (j - (i - 1)) = j + 1 /\ j + 1 \in DOMAIN c
      BY <1>1, <2>1, <2>3
    <3>2. (d \o e)[j] = e[j - (i - 1)]
      <4>1. j \in 1..(Len(d) + Len(e)) /\ ~(j <= Len(d))
        BY <1>1, <1>2, <1>3, <2>1, <2>3
      <4> QED
        BY <1>2, <1>4, <4>1
    <3>3. e[j - (i - 1)] = c[i + (j - (i - 1))]
      BY <1>3, <3>1
    <3> QED
      BY <3>1, <3>2, <3>3
  <2> QED
    BY <2>2, <2>3
<1> QED
  BY <1>4, <1>5 DEF HashesOf, RemoveAt, d, e

LEMMA InsertedHashes ==
  ASSUME NEW c \in Seq(Event), NEW i \in DOMAIN c, NEW k \in 1..(Len(c) + 1)
  PROVE  HashesOf(InsertAt(c, k, c[i]), c)
<1> DEFINE d == SubSeq(c, 1, k - 1)
           e == SubSeq(c, k, Len(c))
           f == d \o <<c[i]>>
<1>1. i \in 1..Len(c) /\ Len(c) \in Nat /\ c[i] \in Event /\ k \in Nat
  OBVIOUS
<1>2. d \in Seq(Event) /\ Len(d) = k - 1 /\ \A j \in 1..(k - 1) : d[j] = c[j]
  <2>1. 1 \in 1..(Len(c) + 1) /\ k - 1 \in (1 - 1)..Len(c)
    BY <1>1
  <2> QED
    BY <1>1, <2>1, SubSeqProperties
<1>3. e \in Seq(Event) /\ Len(e) = Len(c) - k + 1 /\ \A j \in 1..(Len(c) - k + 1) : e[j] = c[k + j - 1]
  <2>1. k \in 1..(Len(c) + 1) /\ Len(c) \in (k - 1)..Len(c)
    BY <1>1
  <2> QED
    BY <1>1, <2>1, SubSeqProperties
<1> HIDE DEF d, e
<1>4. /\ f \in Seq(Event) /\ Len(f) = k
      /\ \A j \in 1..k : f[j] = IF j <= k - 1 THEN d[j] ELSE c[i]
  <2>1. <<c[i]>> \in Seq(Event) /\ Len(<<c[i]>>) = 1 /\ <<c[i]>>[1] = c[i]
    BY <1>1
  <2>2. \A j \in 1..k : ~(j <= k - 1) => j - (k - 1) = 1
    BY <1>1
  <2> QED
    BY <1>1, <1>2, <2>1, <2>2, ConcatProperties
<1> HIDE DEF f
<1>5. /\ f \o e \in Seq(Event) /\ Len(f \o e) = Len(f) + Len(e)
      /\ \A j \in 1..(Len(f) + Len(e)) : (f \o e)[j] = IF j <= Len(f) THEN f[j] ELSE e[j - Len(f)]
  BY <1>3, <1>4, ConcatProperties
<1>6. ASSUME NEW j \in DOMAIN (f \o e)
      PROVE  \E n \in DOMAIN c : (f \o e)[j].hash = c[n].hash
  <2>1. j \in 1..(Len(c) + 1)
    BY <1>1, <1>3, <1>4, <1>5
  <2>2. CASE j <= k - 1
    <3>1. (f \o e)[j] = f[j] /\ f[j] = d[j] /\ d[j] = c[j] /\ j \in DOMAIN c
      BY <1>1, <1>2, <1>3, <1>4, <1>5, <2>1, <2>2
    <3> QED
      BY <3>1
  <2>3. CASE j = k
    BY <1>1, <1>3, <1>4, <1>5, <2>1, <2>3
  <2>4. CASE j > k
    <3>1. j - k \in 1..(Len(c) - k + 1) /\ k + (j - k) - 1 = j - 1 /\ j - 1 \in DOMAIN c
      BY <1>1, <2>1, <2>4
    <3>2. (f \o e)[j] = e[j - k] /\ e[j - k] = c[k + (j - k) - 1]
      BY <1>1, <1>3, <1>4, <1>5, <2>1, <2>4, <3>1
    <3> QED
      BY <3>1, <3>2
  <2> QED
    BY <1>1, <2>1, <2>2, <2>3, <2>4
<1> QED
  BY <1>5, <1>6 DEF HashesOf, InsertAt, d, e, f

LEMMA MisplacedHashes ==
  ASSUME NEW c \in Seq(Event), NEW i \in DOMAIN c, NEW j \in DOMAIN c
  PROVE  HashesOf([c EXCEPT ![i] = c[j], ![j] = c[i]], c)
<1> DEFINE d == [c EXCEPT ![i] = c[j]]
           e == [d EXCEPT ![j] = c[i]]
<1>1. c[i] \in Event /\ c[j] \in Event
  OBVIOUS
<1>2. d \in Seq(Event) /\ DOMAIN d = DOMAIN c
  BY <1>1, ExceptSeq
<1> HIDE DEF d
<1>3. e \in Seq(Event) /\ DOMAIN e = DOMAIN c
  BY <1>1, <1>2, ExceptSeq
<1>4. \A k \in DOMAIN c : e[k] \in {c[i], c[j], c[k]}
  BY <1>2 DEF d
<1>5. HashesOf(e, c)
  <2> HIDE DEF e
  <2> QED
    BY <1>3, <1>4 DEF HashesOf
<1>6. [c EXCEPT ![i] = c[j], ![j] = c[i]] = e
  BY DEF d
<1> QED
  BY <1>5, <1>6
-----------------------------------------------------------------------------
(* A fault that makes up no chain hash keeps the invariant.                *)
LEMMA FaultKeeps ==
  ASSUME AuditInv, NEW t \in Tenant, NEW d, Fault(t, d), HashesOf(d, chain[t])
  PROVE  AuditInv'
<1>1. /\ chain \in [Tenant -> Seq(Event)] /\ chain' = [chain EXCEPT ![t] = d]
      /\ d \in Seq(Event) /\ written' = written /\ faults \in Nat /\ faults' = faults + 1
  BY DEF AuditInv, AuditTypeOK, Fault, HashesOf
<1>2. AuditTypeOK'
  BY <1>1 DEF AuditInv, AuditTypeOK
<1>3. ASSUME NEW u \in Tenant, NEW i \in DOMAIN chain'[u] PROVE chain'[u][i].hash \in written'[u]
  <2>1. CASE u = t
    BY <1>1, <1>3, <2>1 DEF AuditInv, HashesAreWritten, HashesOf
  <2>2. CASE u # t
    BY <1>1, <1>3, <2>2 DEF AuditInv, HashesAreWritten
  <2> QED
    BY <2>1, <2>2
<1> QED
  BY <1>2, <1>3 DEF AuditInv, HashesAreWritten

(* Every fault of the storage.                                             *)
LEMMA StorageFaultKeeps ==
  ASSUME AuditInv, NEW t \in Tenant, StorageFault(t)
  PROVE  AuditInv'
<1> DEFINE c == chain[t]
<1>1. c \in Seq(Event)
  BY DEF AuditInv, AuditTypeOK
<1>2. CASE Alter(t)
  <2>1. PICK i \in DOMAIN c :
          \/ \E p \in Payload : Fault(t, [c EXCEPT ![i].payload = p])
          \/ \E p \in Payload : Fault(t, [c EXCEPT ![i].payload_hash = p])
          \/ \E n \in 0..Len(c) : Fault(t, [c EXCEPT ![i].seq = n])
    BY <1>2 DEF Alter
  <2>2. c[i] \in Event
    BY <1>1
  <2>3. ASSUME NEW p \in Payload, Fault(t, [c EXCEPT ![i].payload = p]) PROVE AuditInv'
    <3>1. [c[i] EXCEPT !.payload = p] \in Event /\ [c[i] EXCEPT !.payload = p].hash = c[i].hash
      BY <2>2 DEF Event
    <3> QED
      BY <1>1, <2>3, <3>1, AlteredHashes, FaultKeeps
  <2>4. ASSUME NEW p \in Payload, Fault(t, [c EXCEPT ![i].payload_hash = p]) PROVE AuditInv'
    <3>1. [c[i] EXCEPT !.payload_hash = p] \in Event /\ [c[i] EXCEPT !.payload_hash = p].hash = c[i].hash
      BY <2>2 DEF Event
    <3> QED
      BY <1>1, <2>4, <3>1, AlteredHashes, FaultKeeps
  <2>5. ASSUME NEW n \in 0..Len(c), Fault(t, [c EXCEPT ![i].seq = n]) PROVE AuditInv'
    <3>1. [c[i] EXCEPT !.seq = n] \in Event /\ [c[i] EXCEPT !.seq = n].hash = c[i].hash
      BY <1>1, <2>2 DEF Event
    <3> QED
      BY <1>1, <2>5, <3>1, AlteredHashes, FaultKeeps
  <2> QED
    BY <2>1, <2>3, <2>4, <2>5
<1>3. CASE Lose(t)
  BY <1>1, <1>3, RemovedHashes, FaultKeeps DEF Lose
<1>4. CASE Duplicate(t)
  BY <1>1, <1>4, InsertedHashes, FaultKeeps DEF Duplicate
<1>5. CASE Misplace(t)
  BY <1>1, <1>5, MisplacedHashes, FaultKeeps DEF Misplace
<1> QED
  BY <1>2, <1>3, <1>4, <1>5 DEF StorageFault

(* record hashes its payload upon the last event of the list.              *)
LEMMA RecordKeeps ==
  ASSUME AuditInv, NEW t \in Tenant, NEW p \in Payload, Record(t, p)
  PROVE  AuditInv'
<1> DEFINE c == chain[t]
           e == NextEvent(c, p)
           d == Append(c, e)
<1>1. /\ chain \in [Tenant -> Seq(Event)] /\ c \in Seq(Event)
      /\ chain' = [chain EXCEPT ![t] = d]
      /\ written \in [Tenant -> SUBSET Hash]
      /\ written' = [written EXCEPT ![t] = @ \cup {ChainHash(HashOf(c), p)}]
      /\ faults' = faults
  BY DEF AuditInv, AuditTypeOK, Record
<1>2. HashOf(c) \in Hash
  <2>1. CASE c = <<>>
    BY <2>1, EmptySeq DEF HashOf, GENESIS, Hash
  <2>2. CASE c # <<>>
    <3>1. Len(c) \in DOMAIN c
      BY <1>1, <2>2
    <3>2. c[Len(c)] \in Event
      BY <1>1, <3>1
    <3> QED
      BY <2>2, <3>2 DEF HashOf, Event
  <2> QED
    BY <2>1, <2>2
<1>3. ChainHash(HashOf(c), p) \in Hash
  BY <1>2 DEF ChainHash, Hash
<1>4. e \in Event /\ e.hash = ChainHash(HashOf(c), p)
  <2>1. Len(c) \in Nat
    BY <1>1
  <2> HIDE DEF c
  <2> QED
    BY <1>2, <1>3, <2>1 DEF NextEvent, Event
<1> HIDE DEF e
<1>5. d \in Seq(Event) /\ DOMAIN d = 1..(Len(c) + 1) /\ d[Len(c) + 1] = e
      /\ \A i \in DOMAIN c : d[i] = c[i]
  BY <1>1, <1>4, AppendProperties
<1> HIDE DEF d
<1>6. AuditTypeOK'
  <2>1. chain' \in [Tenant -> Seq(Event)]
    BY <1>1, <1>5
  <2>2. written' \in [Tenant -> SUBSET Hash]
    BY <1>1, <1>3
  <2> QED
    BY <1>1, <2>1, <2>2 DEF AuditInv, AuditTypeOK
<1>7. ASSUME NEW u \in Tenant, NEW i \in DOMAIN chain'[u] PROVE chain'[u][i].hash \in written'[u]
  <2>1. CASE u = t
    <3>1. i \in DOMAIN c \/ i = Len(c) + 1
      BY <1>1, <1>5, <1>7, <2>1
    <3>2. written'[u] = written[u] \cup {e.hash}
      BY <1>1, <1>4, <2>1
    <3>3. chain'[u] = d
      BY <1>1, <2>1
    <3>4. CASE i \in DOMAIN c
      BY <1>5, <2>1, <3>2, <3>3, <3>4 DEF AuditInv, HashesAreWritten
    <3>5. CASE i = Len(c) + 1
      BY <1>5, <3>2, <3>3, <3>5
    <3> QED
      BY <3>1, <3>4, <3>5
  <2>2. CASE u # t
    BY <1>1, <1>7, <2>2 DEF AuditInv, HashesAreWritten
  <2> QED
    BY <2>1, <2>2
<1> QED
  BY <1>6, <1>7 DEF AuditInv, HashesAreWritten

LEMMA AuditInitInv == AuditInit => AuditInv
<1>1. <<>> \in Seq(Event) /\ DOMAIN <<>> = {}
  BY EmptySeq
<1> QED
  BY <1>1 DEF AuditInit, AuditInv, AuditTypeOK, HashesAreWritten

LEMMA AuditStep == AuditInv /\ [AuditNext]_auditVars => AuditInv'
<1> SUFFICES ASSUME AuditInv, [AuditNext]_auditVars PROVE AuditInv'
  OBVIOUS
<1>1. CASE UNCHANGED auditVars
  BY <1>1 DEF auditVars, AuditInv, AuditTypeOK, HashesAreWritten
<1> QED
  BY <1>1, RecordKeeps, StorageFaultKeeps DEF AuditNext

(* A list that verifies ends in the hash of the last event, which record   *)
(* computed, and which is made of the payloads of the list.                *)
LEMMA AuditInvIsIntact == AuditInv => VerifiedIsIntact
<1> SUFFICES ASSUME AuditInv, NEW t \in Tenant, Verify(chain[t]), chain[t] # <<>>
             PROVE  PayloadsOf(chain[t]) \in written[t]
  BY DEF VerifiedIsIntact
<1>1. chain[t] \in Seq(Event) /\ Len(chain[t]) \in DOMAIN chain[t] /\ DOMAIN chain[t] = 1..Len(chain[t])
  BY DEF AuditInv, AuditTypeOK
<1>2. chain[t][Len(chain[t])].hash = [i \in 1..Len(chain[t]) |-> chain[t][i].payload]
  BY <1>1, HashTellsPayloads
<1>3. chain[t][Len(chain[t])].hash \in written[t]
  BY <1>1 DEF AuditInv, HashesAreWritten
<1> QED
  BY <1>1, <1>2, <1>3 DEF PayloadsOf

(* What verifies was recorded, in this order, whatever the storage did     *)
(* (audit.py:102-112).                                                     *)
THEOREM AuditLogIsIntact == AuditSpec => []VerifiedIsIntact
BY AuditInitInv, AuditStep, AuditInvIsIntact, PTL DEF AuditSpec
-----------------------------------------------------------------------------
(* The routes write to the audit log only by recording, what they may.     *)
LEMMA ServerStepIsAudit == [Next]_serverVars => [AuditNext]_auditVars
<1> SUFFICES ASSUME [Next]_serverVars PROVE [AuditNext]_auditVars
  OBVIOUS
<1>1. ASSUME NEW token \in Token, NEW repo \in Repo, NEW topic \in Topic, NEW action \in Clicks!FeedbackAction,
             SubmitFeedback(token, repo, topic, action)
      PROVE  AuditNext
  <2>1. /\ Authorized(token, MinRole.feedback)
        /\ Record(Principal[token].tenant,
                  ClickPayload(Principal[token].user, <<Principal[token].tenant, repo, topic>>, action))
    BY <1>1 DEF SubmitFeedback
  <2>2. Principal[token].tenant \in Tenant
    BY <2>1, AccessAssumption DEF Authorized, Known
  <2> QED
    BY <2>1, <2>2, ServerAssumption DEF AuditNext
<1>2. ASSUME NEW repo \in Repo, WebhookAccepted(repo) PROVE AuditNext
  BY <1>2, ServerAssumption DEF WebhookAccepted, AuditNext
<1>3. ASSUME NEW summary \in Summary, ReviewDone(summary) PROVE UNCHANGED auditVars
  BY <1>3 DEF ReviewDone
<1>4. CASE Faulty
  BY <1>4 DEF Faulty, AuditNext
<1>5. CASE UNCHANGED serverVars
  BY <1>5 DEF serverVars
<1> QED
  BY <1>1, <1>2, <1>3, <1>4, <1>5 DEF Next

(* Whatever it serves, the API server is an audit log.                     *)
THEOREM ServerImplementsAuditLog == Spec => AuditSpec
<1>1. Init => AuditInit
  BY DEF Init
<1> QED
  BY <1>1, ServerStepIsAudit, PTL DEF Spec, AuditSpec

(* So the audit log of the running server is intact too.                   *)
THEOREM ServerLogIsIntact == Spec => []VerifiedIsIntact
BY ServerImplementsAuditLog, AuditLogIsIntact, PTL

-----------------------------------------------------------------------------
FeedbackInv ==
  /\ AuditInv
  /\ feedback \in [FeedbackKey -> [Clicks!FeedbackAction -> Nat]]
  /\ FeedbackIsAudited

Tells(payload, k, a) == payload.action = "feedback.record" /\ payload.detail = <<k, a>>

(* The clicks of a list with one more event.                               *)
LEMMA ClicksAppend ==
  ASSUME NEW c \in Seq(Event), NEW e \in Event, NEW k, NEW a
  PROVE  /\ Cardinality(ClicksIn(c, k, a)) \in Nat
         /\ Cardinality(ClicksIn(Append(c, e), k, a))
              = Cardinality(ClicksIn(c, k, a)) + (IF Tells(e.payload, k, a) THEN 1 ELSE 0)
<1> DEFINE d == Append(c, e)
           n == Len(c) + 1
<1>1. /\ DOMAIN c = 1..Len(c) /\ DOMAIN d = DOMAIN c \cup {n} /\ n \notin DOMAIN c
      /\ d[n] = e /\ \A i \in DOMAIN c : d[i] = c[i]
  <2>1. Len(c) \in Nat /\ Len(d) = n /\ d \in Seq(Event)
    BY AppendProperties
  <2>2. d[n] = e /\ \A i \in 1..Len(c) : d[i] = c[i]
    BY AppendProperties
  <2>3. DOMAIN d = 1..n /\ DOMAIN c = 1..Len(c)
    BY <2>1
  <2> HIDE DEF d
  <2> QED
    BY <2>1, <2>2, <2>3
<1>2. ClicksIn(d, k, a) = IF Tells(e.payload, k, a) THEN ClicksIn(c, k, a) \cup {n} ELSE ClicksIn(c, k, a)
  <2> HIDE DEF d, n
  <2> QED
    BY <1>1 DEF ClicksIn, Tells
<1>3. IsFiniteSet(ClicksIn(c, k, a)) /\ n \notin ClicksIn(c, k, a)
  <2>1. IsFiniteSet(1..Len(c))
    BY FS_Interval
  <2>2. ClicksIn(c, k, a) \subseteq 1..Len(c)
    BY <1>1 DEF ClicksIn
  <2> QED
    BY <1>1, <2>1, <2>2, FS_Subset
<1>4. Cardinality(ClicksIn(c, k, a)) \in Nat
  BY <1>3, FS_CardinalityType
<1> QED
  <2>1. Cardinality(ClicksIn(c, k, a) \cup {n}) = Cardinality(ClicksIn(c, k, a)) + 1
    BY <1>3, FS_AddElement
  <2> QED
    BY <1>2, <1>4, <2>1
(* A click is counted and recorded in one step, for the principal's tenant.*)
LEMMA ClickKeeps ==
  ASSUME FeedbackInv, AuditInv', NEW token \in Token, NEW repo \in Repo, NEW topic \in Topic,
         NEW action \in Clicks!FeedbackAction, SubmitFeedback(token, repo, topic, action)
  PROVE  FeedbackInv'
<1> DEFINE t == Principal[token].tenant
           click == <<t, repo, topic>>
           p == ClickPayload(Principal[token].user, click, action)
           c == chain[t]
           e == NextEvent(c, p)
<1>1. /\ Authorized(token, MinRole.feedback) /\ Record(t, p)
      /\ feedback' = [feedback EXCEPT ![click][action] = @ + 1]
  BY DEF SubmitFeedback, Clicks!RecordFeedback
<1>2. /\ token \in DOMAIN Principal /\ t \in Tenant /\ click \in FeedbackKey
      /\ Principal[token].role # "read_only"
  BY <1>1, AccessAssumption DEF Authorized, Known, AtLeast, Rank, MinRole, FeedbackKey
<1>3. /\ chain \in [Tenant -> Seq(Event)] /\ c \in Seq(Event)
      /\ chain' = [chain EXCEPT ![t] = Append(c, e)] /\ faults' = faults
  BY <1>1, <1>2 DEF FeedbackInv, AuditInv, AuditTypeOK, Record
<1>4. chain' \in [Tenant -> Seq(Event)] /\ chain'[t] = Append(c, e)
  BY <1>2, <1>3 DEF AuditInv, AuditTypeOK
<1>5. e \in Event /\ e.payload = p
  <2>1. /\ Len(Append(c, e)) = Len(c) + 1 /\ Append(c, e)[Len(c) + 1] = e
        /\ Len(c) + 1 \in 1..Len(Append(c, e))
    BY <1>3
  <2>2. chain'[t] \in Seq(Event)
    BY <1>2, <1>4
  <2> HIDE DEF e
  <2>3. e \in Event
    BY <1>4, <2>1, <2>2, ElementOfSeq
  <2> QED
    BY <2>3 DEF e, NextEvent
<1> HIDE DEF e
<1>6. \A k \in FeedbackKey, a \in Clicks!FeedbackAction :
        Tells(p, k, a) <=> (k = click /\ a = action)
  BY DEF Tells, ClickPayload
<1> HIDE DEF p
<1>7. feedback' \in [FeedbackKey -> [Clicks!FeedbackAction -> Nat]]
      /\ \A k \in FeedbackKey, a \in Clicks!FeedbackAction :
           feedback'[k][a] = feedback[k][a] + (IF k = click /\ a = action THEN 1 ELSE 0)
  <2> DEFINE row == [feedback[click] EXCEPT ![action] = @ + 1]
  <2> HIDE DEF click
  <2>1. feedback[click] \in [Clicks!FeedbackAction -> Nat]
    BY <1>2 DEF FeedbackInv
  <2>2. /\ row \in [Clicks!FeedbackAction -> Nat] /\ row[action] = feedback[click][action] + 1
        /\ \A a \in Clicks!FeedbackAction : a # action => row[a] = feedback[click][a]
    BY <2>1
  <2>3. feedback' = [feedback EXCEPT ![click] = row]
    BY <1>1
  <2> HIDE DEF row
  <2>4. /\ feedback' \in [FeedbackKey -> [Clicks!FeedbackAction -> Nat]] /\ feedback'[click] = row
        /\ \A k \in FeedbackKey : k # click => feedback'[k] = feedback[k]
    BY <1>2, <2>2, <2>3 DEF FeedbackInv
  <2>5. \A k \in FeedbackKey, a \in Clicks!FeedbackAction : feedback[k][a] \in Nat
    BY DEF FeedbackInv
  <2> QED
    BY <2>2, <2>4, <2>5
<1>8. ASSUME faults = 0, NEW k \in FeedbackKey, NEW a \in Clicks!FeedbackAction
      PROVE  feedback'[k][a] = Audited(k, a)'
  <2>1. k[1] \in Tenant /\ feedback[k][a] = Cardinality(ClicksIn(chain[k[1]], k, a))
    BY <1>8 DEF FeedbackKey, FeedbackInv, FeedbackIsAudited, Audited
  <2>2. Audited(k, a)' = Cardinality(ClicksIn(chain'[k[1]], k, a))
    BY DEF Audited, ClicksIn
  <2>3. CASE k[1] = t
    <3>1. Cardinality(ClicksIn(chain'[t], k, a))
            = Cardinality(ClicksIn(c, k, a)) + (IF Tells(p, k, a) THEN 1 ELSE 0)
      BY <1>3, <1>4, <1>5, ClicksAppend
    <3> QED
      BY <1>6, <1>7, <2>1, <2>2, <2>3, <3>1
  <2>4. CASE k[1] # t
    <3>1. chain'[k[1]] = chain[k[1]] /\ k # click
      BY <1>3, <2>1, <2>4
    <3>2. feedback'[k][a] = feedback[k][a] + 0 /\ feedback[k][a] \in Nat
      BY <1>7, <3>1 DEF FeedbackInv
    <3> QED
      BY <2>1, <2>2, <3>1, <3>2
  <2> QED
    BY <2>3, <2>4
<1>9. ASSUME faults = 0, NEW u \in Tenant, NEW i \in DOMAIN chain'[u],
             chain'[u][i].payload.action = "feedback.record"
      PROVE  \E tok \in DOMAIN Principal :
               /\ Principal[tok].user = chain'[u][i].payload.actor
               /\ Principal[tok].tenant = u
               /\ Principal[tok].role # "read_only"
  <2>1. CASE i \in DOMAIN chain[u] /\ chain'[u][i] = chain[u][i]
    BY <1>9, <2>1 DEF FeedbackInv, FeedbackIsAudited
  <2>2. CASE u = t /\ chain'[u][i] = e
    BY <1>2, <1>5, <2>2 DEF p, ClickPayload
  <2>3. \/ i \in DOMAIN chain[u] /\ chain'[u][i] = chain[u][i]
        \/ u = t /\ chain'[u][i] = e
    <3>1. CASE u = t
      <4>1. /\ Append(c, e) \in Seq(Event) /\ Len(Append(c, e)) = Len(c) + 1
            /\ Append(c, e)[Len(c) + 1] = e /\ \A j \in 1..Len(c) : Append(c, e)[j] = c[j]
        BY <1>3, <1>5, AppendProperties
      <4>2. i \in 1..(Len(c) + 1) /\ DOMAIN c = 1..Len(c) /\ Len(c) \in Nat
        BY <1>3, <1>4, <1>9, <3>1, <4>1
      <4> QED
        BY <1>4, <3>1, <4>1, <4>2
    <3>2. CASE u # t
      BY <1>3, <1>9, <3>2
    <3> QED
      BY <3>1, <3>2
  <2> QED
    BY <2>1, <2>2, <2>3
<1>10. FeedbackIsAudited'
  BY <1>3, <1>8, <1>9 DEF FeedbackIsAudited
<1> QED
  BY <1>7, <1>10 DEF FeedbackInv
(* An accepted webhook tells of no click.                                  *)
LEMMA WebhookKeeps ==
  ASSUME FeedbackInv, AuditInv', NEW repo \in Repo, WebhookAccepted(repo)
  PROVE  FeedbackInv'
<1> DEFINE t == TenantOf[repo]
           c == chain[t]
           e == NextEvent(c, WebhookPayload(repo))
<1>1. t \in Tenant /\ feedback' = feedback /\ faults' = faults
  BY ServerAssumption DEF WebhookAccepted, Record
<1>2. /\ chain \in [Tenant -> Seq(Event)] /\ c \in Seq(Event)
      /\ chain' = [chain EXCEPT ![t] = Append(c, e)]
  BY <1>1 DEF FeedbackInv, AuditInv, AuditTypeOK, WebhookAccepted, Record
<1>3. chain' \in [Tenant -> Seq(Event)] /\ chain'[t] = Append(c, e)
  BY <1>1, <1>2 DEF AuditInv, AuditTypeOK
<1>4. e.payload.action # "feedback.record"
  BY DEF NextEvent, WebhookPayload
<1> HIDE DEF e
<1>5. /\ Append(c, e) \in Seq(Event) /\ e \in Event /\ Len(c) \in Nat
      /\ Len(Append(c, e)) = Len(c) + 1
      /\ Append(c, e)[Len(c) + 1] = e /\ \A j \in 1..Len(c) : Append(c, e)[j] = c[j]
  <2>1. Append(c, e) \in Seq(Event) /\ Len(Append(c, e)) = Len(c) + 1 /\ Append(c, e)[Len(c) + 1] = e
        /\ Len(c) + 1 \in 1..Len(Append(c, e))
    BY <1>1, <1>2, <1>3
  <2>2. e \in Event
    BY <2>1, ElementOfSeq
  <2> QED
    BY <1>2, <2>1, <2>2, AppendProperties
<1>6. \A k \in FeedbackKey, a \in Clicks!FeedbackAction : Audited(k, a)' = Audited(k, a)
  <2> TAKE k \in FeedbackKey, a \in Clicks!FeedbackAction
  <2>1. k[1] \in Tenant /\ Audited(k, a)' = Cardinality(ClicksIn(chain'[k[1]], k, a))
    BY DEF FeedbackKey, Audited, ClicksIn
  <2>2. CASE k[1] = t
    <3>1. ~Tells(e.payload, k, a)
      BY <1>4 DEF Tells
    <3> QED
      BY <1>2, <1>3, <1>5, <2>1, <2>2, <3>1, ClicksAppend DEF Audited
  <2>3. CASE k[1] # t
    BY <1>2, <2>1, <2>3 DEF Audited
  <2> QED
    BY <2>2, <2>3
<1>7. \A u \in Tenant : \A i \in DOMAIN chain'[u] :
        chain'[u][i].payload.action = "feedback.record" => i \in DOMAIN chain[u] /\ chain'[u][i] = chain[u][i]
  <2> SUFFICES ASSUME NEW u \in Tenant, NEW i \in DOMAIN chain'[u],
                      chain'[u][i].payload.action = "feedback.record"
               PROVE  i \in DOMAIN chain[u] /\ chain'[u][i] = chain[u][i]
    OBVIOUS
  <2>1. CASE u = t
    <3>1. i \in 1..(Len(c) + 1) /\ DOMAIN c = 1..Len(c) /\ chain'[u][i] = Append(c, e)[i]
      BY <1>2, <1>3, <1>5, <2>1
    <3> QED
      BY <1>4, <1>5, <2>1, <3>1
  <2>2. CASE u # t
    BY <1>2, <2>2
  <2> QED
    BY <2>1, <2>2
<1>8. FeedbackIsAudited'
  BY <1>1, <1>6, <1>7 DEF FeedbackInv, FeedbackIsAudited
<1> QED
  BY <1>1, <1>8 DEF FeedbackInv

LEMMA FeedbackInitInv == Init => FeedbackInv
<1> SUFFICES ASSUME Init PROVE FeedbackInv
  OBVIOUS
<1>1. AuditInv
  BY AuditInitInv DEF Init
<1>2. feedback = [k \in FeedbackKey |-> [a \in Clicks!FeedbackAction |-> 0]]
  BY DEF Init, Clicks!FeedbackInit
<1>3. \A t \in Tenant : chain[t] = <<>> /\ DOMAIN chain[t] = {}
  <2>1. DOMAIN <<>> = {}
    OBVIOUS
  <2> QED
    BY <2>1 DEF Init, AuditInit
<1>4. \A k \in FeedbackKey : k[1] \in Tenant
  BY DEF FeedbackKey
<1>5. \A k \in FeedbackKey, a \in Clicks!FeedbackAction : Audited(k, a) = 0
  BY <1>3, <1>4, FS_EmptySet DEF Audited, ClicksIn
<1>6. FeedbackIsAudited
  BY <1>2, <1>3, <1>5 DEF FeedbackIsAudited
<1> QED
  BY <1>1, <1>2, <1>6 DEF FeedbackInv

LEMMA FeedbackStep == FeedbackInv /\ [Next]_serverVars => FeedbackInv'
<1> SUFFICES ASSUME FeedbackInv, [Next]_serverVars PROVE FeedbackInv'
  OBVIOUS
<1>1. AuditInv'
  BY ServerStepIsAudit, AuditStep DEF FeedbackInv
<1>2. ASSUME UNCHANGED <<auditVars, feedback>> PROVE FeedbackInv'
  <2>1. chain' = chain /\ faults' = faults /\ feedback' = feedback
    BY <1>2 DEF auditVars
  <2>2. \A k \in FeedbackKey, a \in Clicks!FeedbackAction : Audited(k, a)' = Audited(k, a)
    BY <2>1 DEF Audited, ClicksIn
  <2>3. FeedbackIsAudited'
    BY <2>1, <2>2 DEF FeedbackInv, FeedbackIsAudited
  <2> QED
    BY <1>1, <2>1, <2>3 DEF FeedbackInv
<1>3. CASE Faulty
  <2>1. faults' # 0 /\ feedback' = feedback
    BY <1>3 DEF Faulty, StorageFault, Alter, Lose, Duplicate, Misplace, Fault, FeedbackInv, AuditInv, AuditTypeOK
  <2> QED
    BY <1>1, <2>1 DEF FeedbackInv, FeedbackIsAudited
<1>4. ASSUME NEW summary \in Summary, ReviewDone(summary) PROVE FeedbackInv'
  BY <1>2, <1>4 DEF ReviewDone
<1>5. CASE UNCHANGED serverVars
  BY <1>2, <1>5 DEF serverVars
<1> QED
  BY <1>1, <1>3, <1>4, <1>5, ClickKeeps, WebhookKeeps DEF Next

(* The Golden Path learns from exactly the clicks the audit log of the     *)
(* tenant tells of, by whoever may give them (feedback.py:32-49).          *)
THEOREM ClicksAreAudited == Spec => []FeedbackIsAudited
<1>1. FeedbackInv => FeedbackIsAudited
  BY DEF FeedbackInv
<1> QED
  BY FeedbackInitInv, FeedbackStep, <1>1, PTL DEF Spec

-----------------------------------------------------------------------------
(* The dashboard.                                                          *)

SummaryRecord == [id : Nat, summary : Summary, created_at : Nat]

(* The records of a list, told apart by their ids.                         *)
Shelf(all) ==
  /\ IsFiniteSet(all) /\ all \subseteq SummaryRecord
  /\ \A r, q \in all : r.id = q.id => r = q

(* An id is the place in the list.                                         *)
IdsArePlaces(list) == list \in Seq(SummaryRecord) /\ \A i \in 1..Len(list) : list[i].id = i

RecordsOK == DOMAIN reviews = Tenant /\ \A t \in Tenant : IdsArePlaces(reviews[t])

LEMMA ListIsShelf ==
  ASSUME NEW list, IdsArePlaces(list)
  PROVE  Shelf(Range(list))
<1>1. /\ Len(list) \in Nat /\ DOMAIN list = 1..Len(list)
      /\ \A i \in 1..Len(list) : list[i] \in SummaryRecord /\ list[i].id = i
  BY DEF IdsArePlaces
<1>2. PICK all : all = Range(list)
  OBVIOUS
<1>3. all = {list[i] : i \in 1..Len(list)}
  BY <1>1, <1>2 DEF Range
<1>4. IsFiniteSet(all)
  <2>1. list \in Surjection(1..Len(list), all)
    BY <1>1, <1>3 DEF Surjection, IdsArePlaces
  <2>2. IsFiniteSet(1..Len(list))
    BY <1>1, FS_Interval
  <2> QED
    BY <2>1, <2>2, FS_Surjection
<1>5. \A r, q \in all : r.id = q.id => r = q
  BY <1>1, <1>3
<1> QED
  BY <1>1, <1>2, <1>3, <1>4, <1>5 DEF Shelf

LEMMA RecordsOKHold == Spec => []RecordsOK
<1>1. Init => RecordsOK
  BY DEF Init, AnalyticsInit, RecordsOK, IdsArePlaces
<1>2. RecordsOK /\ [Next]_serverVars => RecordsOK'
  <2> SUFFICES ASSUME RecordsOK, [Next]_serverVars PROVE RecordsOK'
    OBVIOUS
  <2>1. ASSUME UNCHANGED reviews PROVE RecordsOK'
    BY <2>1 DEF RecordsOK
  <2>2. ASSUME NEW summary \in Summary, ReviewDone(summary) PROVE RecordsOK'
    <3>1. PICK time \in WallClock : RecordReview(TenantOf[summary.repo], summary, time)
      BY <2>2 DEF ReviewDone
    <3>2. PICK t, new : /\ t = TenantOf[summary.repo]
                        /\ new = [id |-> Len(reviews[t]) + 1, summary |-> summary, created_at |-> time]
      OBVIOUS
    <3>3. t \in Tenant /\ time \in Nat
      BY <3>2, SummaryAssumption, ServerAssumption
    <3>4. reviews' = [reviews EXCEPT ![t] = Append(reviews[t], new)]
      BY <3>1, <3>2 DEF RecordReview
    <3>5. IdsArePlaces(reviews[t]) /\ DOMAIN reviews = Tenant
      BY <3>3 DEF RecordsOK
    <3>6. new \in SummaryRecord /\ new.id = Len(reviews[t]) + 1
      BY <3>2, <3>3, <3>5 DEF SummaryRecord, IdsArePlaces
    <3>7. IdsArePlaces(Append(reviews[t], new))
      BY <3>5, <3>6, AppendProperties DEF IdsArePlaces
    <3> QED
      BY <3>3, <3>4, <3>5, <3>7 DEF RecordsOK
  <2>3. ASSUME NEW token \in Token, NEW repo \in Repo, NEW topic \in Topic,
               NEW action \in Clicks!FeedbackAction, SubmitFeedback(token, repo, topic, action)
        PROVE  RecordsOK'
    BY <2>1, <2>3 DEF SubmitFeedback
  <2>4. ASSUME NEW repo \in Repo, WebhookAccepted(repo) PROVE RecordsOK'
    BY <2>1, <2>4 DEF WebhookAccepted
  <2>5. ASSUME Faulty PROVE RecordsOK'
    BY <2>1, <2>5 DEF Faulty
  <2>6. UNCHANGED serverVars => RecordsOK'
    BY <2>1 DEF serverVars
  <2> QED
    BY <2>2, <2>3, <2>4, <2>5, <2>6 DEF Next
<1> QED
  BY <1>1, <1>2, PTL DEF Spec

-----------------------------------------------------------------------------
(* Sorted lists.                                                           *)

(* list has the members of all in the order R.                             *)
InOrder(list, all, R) ==
  /\ DOMAIN list = 1..Cardinality(all) /\ Len(list) = Cardinality(all)
  /\ \A i \in 1..Cardinality(all) : list[i] \in all /\ Cardinality(Ahead(R, all, list[i])) = i - 1

(* Who comes later in the list is after the other.                         *)
LEMMA LaterIsAfter ==
  ASSUME NEW all, IsFiniteSet(all), NEW R, IsOrder(R, all), NEW list, InOrder(list, all, R),
         NEW i \in 1..Cardinality(all), NEW j \in 1..Cardinality(all), i < j
  PROVE  list[i] \in all /\ list[j] \in all /\ <<list[i], list[j]>> \in R
<1>1. PICK x, y : x = list[i] /\ y = list[j]
  OBVIOUS
<1>2. /\ x \in all /\ y \in all
      /\ Cardinality(Ahead(R, all, x)) = i - 1 /\ Cardinality(Ahead(R, all, y)) = j - 1
  BY <1>1 DEF InOrder
<1>3. x # y
  BY <1>2
<1>4. ~(<<y, x>> \in R)
  <2> SUFFICES ASSUME <<y, x>> \in R PROVE FALSE
    OBVIOUS
  <2>1. Cardinality(Ahead(R, all, y)) < Cardinality(Ahead(R, all, x))
    BY <1>2, AheadGrows
  <2> QED
    BY <1>2, <2>1
<1>5. <<x, y>> \in R
  BY <1>2, <1>3, <1>4 DEF IsOrder
<1> QED
  BY <1>1, <1>2, <1>5

(* Every member is somewhere in the list.                                  *)
LEMMA MemberInList ==
  ASSUME NEW all, IsFiniteSet(all), NEW R, IsOrder(R, all), NEW list, InOrder(list, all, R), NEW x \in all
  PROVE  \E i \in 1..Cardinality(all) : list[i] = x
<1>1. PICK i : i = Cardinality(Ahead(R, all, x)) + 1
  OBVIOUS
<1>2. i \in 1..Cardinality(all) /\ Cardinality(Ahead(R, all, x)) = i - 1
  BY <1>1, AheadCounts
<1>3. PICK y : y = list[i]
  OBVIOUS
<1>4. y \in all /\ Cardinality(Ahead(R, all, y)) = i - 1
  BY <1>2, <1>3 DEF InOrder
<1>5. y = x
  BY <1>2, <1>4, PlaceIsOne
<1> QED
  BY <1>2, <1>3, <1>5

EarlierIn(all) == {p \in all \X all : Earlier(p[1], p[2])}
QuickerIn(all) == {p \in all \X all : Quicker(p[1], p[2])}

LEMMA ShelfPart ==
  ASSUME NEW all, Shelf(all), NEW part, part \subseteq all
  PROVE  Shelf(part)
BY FS_Subset DEF Shelf

LEMMA EarlierOrders ==
  ASSUME NEW all, Shelf(all)
  PROVE  /\ \A r, q \in all : <<r, q>> \in EarlierIn(all) <=> Earlier(r, q)
         /\ IsOrder(EarlierIn(all), all)
<1>1. \A r, q \in all : <<r, q>> \in EarlierIn(all) <=> Earlier(r, q)
  BY DEF EarlierIn
<1>2. \A r \in all : r.created_at \in Nat /\ r.id \in Nat
  BY DEF Shelf, SummaryRecord
<1>3. \A r \in all : ~Earlier(r, r)
  BY <1>2 DEF Earlier
<1>4. ASSUME NEW r \in all, NEW q \in all, NEW s \in all, Earlier(r, q), Earlier(q, s) PROVE Earlier(r, s)
  <2>1. /\ r.created_at \in Nat /\ r.id \in Nat /\ q.created_at \in Nat /\ q.id \in Nat
        /\ s.created_at \in Nat /\ s.id \in Nat
    BY <1>2
  <2> QED
    BY <1>4, <2>1 DEF Earlier
<1>5. ASSUME NEW r \in all, NEW q \in all, r # q PROVE Earlier(r, q) \/ Earlier(q, r)
  <2>1. /\ r.created_at \in Nat /\ r.id \in Nat /\ q.created_at \in Nat /\ q.id \in Nat
    BY <1>2
  <2>2. r.id # q.id
    BY <1>5 DEF Shelf
  <2> QED
    BY <2>1, <2>2 DEF Earlier
<1> QED
  BY <1>1, <1>3, <1>4, <1>5 DEF IsOrder

LEMMA QuickerOrders ==
  ASSUME NEW all, Shelf(all)
  PROVE  /\ \A r, q \in all : <<r, q>> \in QuickerIn(all) <=> Quicker(r, q)
         /\ IsOrder(QuickerIn(all), all)
         /\ \A r \in all : r.summary.latency \in Nat
<1>1. \A r, q \in all : <<r, q>> \in QuickerIn(all) <=> Quicker(r, q)
  BY DEF QuickerIn
<1>2. \A r \in all : r.summary.latency \in Nat /\ r.id \in Nat
  BY SummaryAssumption DEF Shelf, SummaryRecord
<1>3. \A r \in all : ~Quicker(r, r)
  BY <1>2 DEF Quicker
<1>4. ASSUME NEW r \in all, NEW q \in all, NEW s \in all, Quicker(r, q), Quicker(q, s) PROVE Quicker(r, s)
  <2>1. PICK a, b, c : a = r.summary.latency /\ b = q.summary.latency /\ c = s.summary.latency
    OBVIOUS
  <2>2. a \in Nat /\ b \in Nat /\ c \in Nat /\ r.id \in Nat /\ q.id \in Nat /\ s.id \in Nat
    BY <1>2, <2>1
  <2> QED
    BY <1>4, <2>1, <2>2 DEF Quicker
<1>5. ASSUME NEW r \in all, NEW q \in all, r # q PROVE Quicker(r, q) \/ Quicker(q, r)
  <2>1. PICK a, b : a = r.summary.latency /\ b = q.summary.latency
    OBVIOUS
  <2>2. a \in Nat /\ b \in Nat /\ r.id \in Nat /\ q.id \in Nat
    BY <1>2, <2>1
  <2>3. r.id # q.id
    BY <1>5 DEF Shelf
  <2> QED
    BY <2>1, <2>2, <2>3 DEF Quicker
<1> QED
  BY <1>1, <1>2, <1>3, <1>4, <1>5 DEF IsOrder

(* The two lists that views sort.                                          *)
LEMMA TimelineInOrder ==
  ASSUME NEW all, Shelf(all), NEW repo
  PROVE  InOrder(QualityTimeline(all, repo), OfRepo(all, repo), EarlierIn(OfRepo(all, repo)))
<1>1. PICK mine, R, list : mine = OfRepo(all, repo) /\ R = EarlierIn(mine) /\ list = QualityTimeline(all, repo)
  OBVIOUS
<1>2. Shelf(mine)
  BY <1>1, ShelfPart DEF OfRepo
<1>3. \A r \in mine : {q \in mine : Earlier(q, r)} = Ahead(R, mine, r)
  BY <1>1, <1>2, EarlierOrders DEF Ahead
<1>4. list = [i \in 1..Cardinality(mine) |-> CHOOSE r \in mine : Cardinality({q \in mine : Earlier(q, r)}) = i - 1]
  BY <1>1 DEF QualityTimeline, Sorted
<1>5. IsOrder(R, mine) /\ IsFiniteSet(mine)
  BY <1>1, <1>2, EarlierOrders DEF Shelf
<1>6. Cardinality(mine) \in Nat /\ DOMAIN list = 1..Cardinality(mine) /\ Len(list) = Cardinality(mine)
  <2>1. Cardinality(mine) \in Nat
    BY <1>5, FS_CardinalityType
  <2> QED
    BY <1>4, <2>1
<1>7. ASSUME NEW i \in 1..Cardinality(mine)
      PROVE  list[i] \in mine /\ Cardinality(Ahead(R, mine, list[i])) = i - 1
  <2>1. i - 1 \in 0..(Cardinality(mine) - 1)
    BY <1>6
  <2>2. \E r \in mine : Cardinality(Ahead(R, mine, r)) = i - 1
    BY <1>5, <2>1, PlacesTaken
  <2>3. \E r \in mine : Cardinality({q \in mine : Earlier(q, r)}) = i - 1
    BY <1>3, <2>2
  <2>4. list[i] = CHOOSE r \in mine : Cardinality({q \in mine : Earlier(q, r)}) = i - 1
    BY <1>4
  <2>5. list[i] \in mine /\ Cardinality({q \in mine : Earlier(q, list[i])}) = i - 1
    BY <2>3, <2>4
  <2> QED
    BY <1>3, <2>5
<1> QED
  BY <1>1, <1>6, <1>7 DEF InOrder

LEMMA LatenciesInOrder ==
  ASSUME NEW all, Shelf(all)
  PROVE  InOrder(Sorted(all, Quicker), all, QuickerIn(all))
<1>1. PICK R, list : R = QuickerIn(all) /\ list = Sorted(all, Quicker)
  OBVIOUS
<1>2. \A r \in all : {q \in all : Quicker(q, r)} = Ahead(R, all, r)
  BY <1>1, QuickerOrders DEF Ahead
<1>3. list = [i \in 1..Cardinality(all) |-> CHOOSE r \in all : Cardinality({q \in all : Quicker(q, r)}) = i - 1]
  BY <1>1 DEF Sorted
<1>4. IsOrder(R, all) /\ IsFiniteSet(all)
  BY <1>1, QuickerOrders DEF Shelf
<1>5. Cardinality(all) \in Nat /\ DOMAIN list = 1..Cardinality(all) /\ Len(list) = Cardinality(all)
  <2>1. Cardinality(all) \in Nat
    BY <1>4, FS_CardinalityType
  <2> QED
    BY <1>3, <2>1
<1>6. ASSUME NEW i \in 1..Cardinality(all)
      PROVE  list[i] \in all /\ Cardinality(Ahead(R, all, list[i])) = i - 1
  <2>1. i - 1 \in 0..(Cardinality(all) - 1)
    BY <1>5
  <2>2. \E r \in all : Cardinality(Ahead(R, all, r)) = i - 1
    BY <1>4, <2>1, PlacesTaken
  <2>3. \E r \in all : Cardinality({q \in all : Quicker(q, r)}) = i - 1
    BY <1>2, <2>2
  <2>4. list[i] = CHOOSE r \in all : Cardinality({q \in all : Quicker(q, r)}) = i - 1
    BY <1>3
  <2>5. list[i] \in all /\ Cardinality({q \in all : Quicker(q, list[i])}) = i - 1
    BY <2>3, <2>4
  <2> QED
    BY <1>2, <2>5
<1> QED
  BY <1>1, <1>5, <1>6 DEF InOrder

-----------------------------------------------------------------------------
(* What the views tell.                                                    *)

(* A record in force comes last of its pull request's in the timeline.     *)
LEMMA TimelineTells ==
  ASSUME NEW all, Shelf(all), NEW repo, NEW mine, mine = OfRepo(all, repo),
         NEW list, list = QualityTimeline(all, repo)
  PROVE  /\ Len(list) = Cardinality(mine)
         /\ \A s \in LatestPerPr(mine) : \E i \in DOMAIN list :
              list[i] = s /\ \A j \in (i + 1)..Len(list) : PrOf(list[j]) # PrOf(s)
<1>1. PICK R : R = EarlierIn(mine)
  OBVIOUS
<1>2. InOrder(list, mine, R)
  BY <1>1, TimelineInOrder
<1>3. Shelf(mine)
  BY ShelfPart DEF OfRepo
<1>4. IsFiniteSet(mine) /\ IsOrder(R, mine) /\ \A r, q \in mine : <<r, q>> \in R <=> Earlier(r, q)
  BY <1>1, <1>3, EarlierOrders DEF Shelf
<1>5. PICK n : n = Cardinality(mine)
  OBVIOUS
<1>6. n \in Nat /\ DOMAIN list = 1..n /\ Len(list) = n
  BY <1>2, <1>4, <1>5, FS_CardinalityType DEF InOrder
<1>7. ASSUME NEW s \in LatestPerPr(mine)
      PROVE  \E i \in DOMAIN list : list[i] = s /\ \A j \in (i + 1)..Len(list) : PrOf(list[j]) # PrOf(s)
  <2>1. s \in mine /\ InForce(mine, s)
    BY DEF LatestPerPr
  <2>2. PICK i \in 1..n : list[i] = s
    BY <1>2, <1>4, <1>5, <2>1, MemberInList
  <2>3. ASSUME NEW j \in (i + 1)..n PROVE PrOf(list[j]) # PrOf(s)
    <3>1. j \in 1..n /\ i < j
      BY <1>6
    <3>2. list[j] \in mine /\ <<list[i], list[j]>> \in R
      BY <1>2, <1>4, <1>5, <3>1, LaterIsAfter
    <3>3. PICK q : q = list[j]
      OBVIOUS
    <3>4. q \in mine /\ Earlier(s, q)
      BY <1>4, <2>1, <2>2, <3>2, <3>3
    <3>5. s.created_at \in Nat /\ q.created_at \in Nat /\ s.id \in Nat /\ q.id \in Nat
      BY <1>3, <2>1, <3>4 DEF Shelf, SummaryRecord
    <3>6. PrOf(q) # PrOf(s)
      BY <2>1, <3>4, <3>5 DEF Earlier, InForce
    <3> QED
      BY <3>3, <3>6
  <2> QED
    BY <1>6, <2>2, <2>3
<1> QED
  BY <1>5, <1>6, <1>7

(* Half of the reviews take no longer than the slowest.                    *)
LEMMA MedianBelowMax ==
  ASSUME NEW all, Shelf(all)
  PROVE  /\ Latency(all).count = Cardinality(all)
         /\ Latency(all).p50 <= Latency(all).max
<1>1. PICK R, list, n : R = QuickerIn(all) /\ list = Sorted(all, Quicker) /\ n = Cardinality(all)
  OBVIOUS
<1>2. InOrder(list, all, R)
  BY <1>1, LatenciesInOrder
<1>3. /\ IsFiniteSet(all) /\ IsOrder(R, all) /\ \A r, q \in all : <<r, q>> \in R <=> Quicker(r, q)
      /\ \A r \in all : r.summary.latency \in Nat
  BY <1>1, QuickerOrders DEF Shelf
<1>4. n \in Nat /\ Len(list) = n
  BY <1>1, <1>2, <1>3, FS_CardinalityType DEF InOrder
<1>5. CASE all = {}
  <2>1. Latency(all) = [count |-> 0, sum |-> 0, p50 |-> 0, max |-> 0]
    BY <1>5 DEF Latency
  <2> QED
    BY <1>5, <2>1, FS_EmptySet
<1>6. CASE all # {}
  <2>1. PICK m : m = n \div 2 + 1
    OBVIOUS
  <2>2. /\ Latency(all).count = n /\ Latency(all).p50 = list[m].summary.latency
        /\ Latency(all).max = list[n].summary.latency
    BY <1>1, <1>4, <1>6, <2>1 DEF Latency
  <2>3. n # 0
    BY <1>1, <1>3, <1>6, FS_EmptySet
  <2>4. m \in 1..n /\ n \in 1..n
    BY <1>4, <2>1, <2>3
  <2>5. list[m] \in all /\ list[n] \in all
    BY <1>1, <1>2, <2>4 DEF InOrder
  <2>6. CASE m = n
    <3>1. list[m].summary.latency \in Nat
      BY <1>3, <2>5
    <3> QED
      BY <1>1, <2>2, <2>6, <3>1
  <2>7. CASE m # n
    <3>1. m < n
      BY <2>4, <2>7
    <3>2. <<list[m], list[n]>> \in R
      BY <1>1, <1>2, <1>3, <2>4, <3>1, LaterIsAfter
    <3>3. PICK r, q : r = list[m] /\ q = list[n]
      OBVIOUS
    <3>4. r \in all /\ q \in all /\ Quicker(r, q)
      BY <1>3, <2>5, <3>2, <3>3
    <3>5. r.summary.latency \in Nat /\ q.summary.latency \in Nat
      BY <1>3, <3>4
    <3>6. r.summary.latency <= q.summary.latency
      BY <3>4, <3>5 DEF Quicker
    <3> QED
      BY <1>1, <2>2, <3>3, <3>6
  <2> QED
    BY <2>6, <2>7
<1> QED
  BY <1>5, <1>6

LEMMA ReposFinite ==
  ASSUME NEW all, IsFiniteSet(all)
  PROVE  IsFiniteSet(ReposOf(all))
<1>1. PICK f, K : f = [r \in all |-> r.summary.repo] /\ K = ReposOf(all)
  OBVIOUS
<1>2. f \in Surjection(all, K)
  BY <1>1 DEF Surjection, ReposOf
<1> QED
  BY <1>1, <1>2, FS_Surjection

(* A repository's pull requests are in force alone as among others.        *)
LEMMA InForceAlone ==
  ASSUME NEW all, NEW repo
  PROVE  LatestPerPr(OfRepo(all, repo)) = {r \in LatestPerPr(all) : r.summary.repo = repo}
<1>1. ASSUME NEW r \in all, r.summary.repo = repo PROVE InForce(OfRepo(all, repo), r) <=> InForce(all, r)
  <2>1. \A q \in all : PrOf(q) = PrOf(r) => q.summary.repo = repo
    BY <1>1 DEF PrOf
  <2>2. \A q \in all : PrOf(q) = PrOf(r) => q \in OfRepo(all, repo)
    BY <2>1 DEF OfRepo
  <2>3. OfRepo(all, repo) \subseteq all
    BY DEF OfRepo
  <2> QED
    BY <2>2, <2>3 DEF InForce
<1> QED
  BY <1>1 DEF LatestPerPr, OfRepo

(* Counted by repository, records are all counted, and once.               *)
LEMMA ReposCount ==
  ASSUME NEW all, IsFiniteSet(all), NEW some, some \subseteq all,
         NEW f, f = [repo \in ReposOf(all) |-> Cardinality({r \in some : r.summary.repo = repo})]
  PROVE  SumFunction(f) = Cardinality(some)
<1>1. PICK c, K : c = [r \in some |-> r.summary.repo] /\ K = ReposOf(all)
  OBVIOUS
<1>2. c \in [some -> K]
  BY <1>1 DEF ReposOf
<1>3. IsFiniteSet(some) /\ IsFiniteSet(K)
  BY <1>1, ReposFinite, FS_Subset
<1>4. \A repo : {r \in some : r.summary.repo = repo} = InGroup(c, some, repo)
  BY <1>1 DEF InGroup
<1>5. f = [repo \in K |-> Cardinality(InGroup(c, some, repo))]
  <2>1. \A repo \in K : f[repo] = Cardinality(InGroup(c, some, repo))
    BY <1>1, <1>4
  <2>2. f = [repo \in K |-> f[repo]]
    BY <1>1
  <2> QED
    BY <2>1, <2>2
<1>6. SumFunction([repo \in K |-> Cardinality(InGroup(c, some, repo))]) = Cardinality(some)
  BY <1>2, <1>3, GroupsCount
<1> QED
  BY <1>5, <1>6

LEMMA OpenPrsAddUp ==
  ASSUME NEW all, IsFiniteSet(all),
         NEW f, f = [repo \in ReposOf(all) |-> Cardinality(OpenPrs(OfRepo(all, repo)))]
  PROVE  SumFunction(f) = Cardinality(OpenPrs(all))
<1>1. PICK some : some = OpenPrs(all)
  OBVIOUS
<1>2. some \subseteq all
  BY <1>1 DEF OpenPrs, LatestPerPr
<1>3. \A repo : OpenPrs(OfRepo(all, repo)) = {r \in some : r.summary.repo = repo}
  BY <1>1, InForceAlone DEF OpenPrs
<1>4. f = [repo \in ReposOf(all) |-> Cardinality({r \in some : r.summary.repo = repo})]
  BY <1>3
<1> QED
  BY <1>1, <1>2, <1>4, ReposCount

LEMMA ReviewsAddUp ==
  ASSUME NEW all, IsFiniteSet(all),
         NEW f, f = [repo \in ReposOf(all) |-> Cardinality(OfRepo(all, repo))]
  PROVE  SumFunction(f) = Cardinality(all)
BY ReposCount DEF OfRepo

LEMMA CostsAddUp ==
  ASSUME NEW all, Shelf(all)
  PROVE  SumFunction(CostAnalytics(all).by_repo) = CostAnalytics(all).total_cost
<1>1. PICK w, c, K : /\ w = [r \in all |-> r.summary.cost]
                     /\ c = [r \in all |-> r.summary.repo] /\ K = ReposOf(all)
  OBVIOUS
<1>2. \A r \in all : r.summary.cost \in Nat
  BY SummaryAssumption DEF Shelf, SummaryRecord
<1>3. w \in [all -> Nat] /\ c \in [all -> K]
  BY <1>1, <1>2 DEF ReposOf
<1>4. IsFiniteSet(all) /\ IsFiniteSet(K)
  BY <1>1, ReposFinite DEF Shelf
<1>5. \A repo : Part(w, InGroup(c, all, repo)) = [r \in OfRepo(all, repo) |-> r.summary["cost"]]
  <2>1. \A repo : InGroup(c, all, repo) = OfRepo(all, repo) /\ OfRepo(all, repo) \subseteq all
    BY <1>1 DEF InGroup, OfRepo
  <2> QED
    BY <1>1, <2>1 DEF Part
<1>6. CostAnalytics(all).by_repo = GroupSums(w, c, all, K)
  BY <1>1, <1>5 DEF CostAnalytics, SumOf, GroupSums
<1>7. CostAnalytics(all).total_cost = SumFunction(Part(w, all))
  BY <1>1 DEF CostAnalytics, SumOf, Part
<1> QED
  BY <1>3, <1>4, <1>6, <1>7, GroupsAddUp

LEMMA LocatedFinite ==
  ASSUME NEW all, Shelf(all)
  PROVE  IsFiniteSet(Located(LatestPerPr(all)))
<1>1. PICK rs, located : rs = LatestPerPr(all) /\ located = Located(rs)
  OBVIOUS
<1>2. rs \subseteq all /\ IsFiniteSet(rs)
  BY <1>1, FS_Subset DEF LatestPerPr, Shelf
<1>3. IsFiniteSet(located)
  <2>1. PICK rows : rows = {{r} \X DOMAIN r.summary.decisions : r \in rs}
    OBVIOUS
  <2>2. \A row \in rows : IsFiniteSet(row)
    <3>1. ASSUME NEW r \in rs PROVE IsFiniteSet({r} \X DOMAIN r.summary.decisions)
      <4>1. r.summary \in Summary
        BY <1>2 DEF Shelf, SummaryRecord
      <4>2. IsFiniteSet(DOMAIN r.summary.decisions)
        BY <4>1, SummaryAssumption
      <4>3. IsFiniteSet({r})
        BY FS_Singleton
      <4> QED
        BY <4>2, <4>3, FS_Product
    <3> QED
      BY <2>1, <3>1
  <2>3. IsFiniteSet(rows)
    <3>1. PICK g : g = [r \in rs |-> {r} \X DOMAIN r.summary.decisions]
      OBVIOUS
    <3>2. g \in Surjection(rs, rows)
      BY <2>1, <3>1 DEF Surjection
    <3> QED
      BY <1>2, <3>2, FS_Surjection
  <2>4. IsFiniteSet(UNION rows)
    BY <2>2, <2>3, FS_UNION
  <2>5. located \subseteq UNION rows
    BY <1>1, <2>1 DEF Located
  <2> QED
    BY <2>4, <2>5, FS_Subset
<1> QED
  BY <1>1, <1>3

(* The heatmap has every located decision at its file.                     *)
LEMMA HeatmapCounts ==
  ASSUME NEW all, Shelf(all), NEW heat, heat = RiskHeatmap(all)
  PROVE  SumFunction([f \in DOMAIN heat |-> heat[f].findings]) = Cardinality(Located(LatestPerPr(all)))
<1>1. PICK rs, located, c, K : /\ rs = LatestPerPr(all) /\ located = Located(rs)
                               /\ c = [d \in located |-> FileOf(d)] /\ K = {FileOf(d) : d \in located}
  OBVIOUS
<1>2. rs \subseteq all /\ IsFiniteSet(rs)
  BY <1>1, FS_Subset DEF LatestPerPr, Shelf
<1>3. IsFiniteSet(located)
  BY <1>1, LocatedFinite
<1>4. c \in [located -> K] /\ c \in Surjection(located, K)
  BY <1>1 DEF Surjection
<1>5. IsFiniteSet(K)
  BY <1>3, <1>4, FS_Surjection
<1>6. \A f : {d \in located : FileOf(d) = f} = InGroup(c, located, f)
  BY <1>1 DEF InGroup
<1>7. DOMAIN heat = K /\ \A f \in K : heat[f].findings = Cardinality({d \in located : FileOf(d) = f})
  BY <1>1 DEF RiskHeatmap
<1>8. [f \in DOMAIN heat |-> heat[f].findings] = [f \in K |-> Cardinality(InGroup(c, located, f))]
  BY <1>6, <1>7
<1> QED
  BY <1>1, <1>3, <1>4, <1>5, <1>8, GroupsCount

(* Risks are numbers, so a heatmap has files to lead it.                   *)
LEMMA HeatmapRisks ==
  ASSUME NEW all, Shelf(all), NEW heat, heat = RiskHeatmap(all)
  PROVE  IsFiniteSet(DOMAIN heat) /\ \A f \in DOMAIN heat : heat[f].risk \in Nat
<1>1. PICK located, K : located = Located(LatestPerPr(all)) /\ K = {FileOf(d) : d \in located}
  OBVIOUS
<1>2. IsFiniteSet(located)
  BY <1>1, LocatedFinite
<1>3. IsFiniteSet(K)
  <2>1. PICK c : c = [d \in located |-> FileOf(d)]
    OBVIOUS
  <2>2. c \in Surjection(located, K)
    BY <1>1, <2>1 DEF Surjection
  <2> QED
    BY <1>2, <2>2, FS_Surjection
<1>4. \A d \in located : ScoreOf(d) \in Nat
  <2> TAKE d \in located
  <2>1. PICK r \in LatestPerPr(all) : d \in {r} \X DOMAIN r.summary.decisions
    BY <1>1 DEF Located
  <2>2. d[1] = r /\ d[2] \in DOMAIN r.summary.decisions /\ r.summary \in Summary
    BY <2>1 DEF LatestPerPr, Shelf, SummaryRecord
  <2>3. d[1].summary.decisions[d[2]].severity \in Severity
    BY <2>2, SummaryAssumption
  <2>4. \A s \in Severity : SeverityScore[s] \in Nat
    BY DEF Severity, SeverityScore
  <2> QED
    BY <2>3, <2>4 DEF ScoreOf
<1>5. ASSUME NEW f \in K PROVE SumFunction([d \in {e \in located : FileOf(e) = f} |-> ScoreOf(d)]) \in Nat
  <2>1. PICK on, w : on = {e \in located : FileOf(e) = f} /\ w = [d \in on |-> ScoreOf(d)]
    OBVIOUS
  <2>2. IsFiniteSet(on) /\ w \in [on -> Nat]
    BY <1>2, <1>4, <2>1, FS_Subset
  <2> QED
    BY <2>1, <2>2, SumNat
<1>6. /\ DOMAIN heat = K
      /\ \A f \in K : heat[f].risk = SumFunction([d \in {e \in located : FileOf(e) = f} |-> ScoreOf(d)])
  BY <1>1 DEF RiskHeatmap
<1> QED
  BY <1>3, <1>5, <1>6

LEMMA LeadersExist ==
  ASSUME NEW all, Shelf(all), NEW heat, heat = RiskHeatmap(all)
  PROVE  \E fs \in SUBSET DOMAIN heat : Leading(heat, fs)
<1>1. PICK K, w : K = DOMAIN heat /\ w = [f \in K |-> heat[f].risk]
  OBVIOUS
<1>2. IsFiniteSet(K) /\ w \in [K -> Nat]
  BY <1>1, HeatmapRisks
<1>3. PICK n : n = IF Cardinality(K) < MaxHotspots THEN Cardinality(K) ELSE MaxHotspots
  OBVIOUS
<1>4. n \in Nat /\ n <= Cardinality(K)
  BY <1>2, <1>3, FS_CardinalityType, SummaryAssumption
<1>5. PICK fs : Heaviest(fs, K, w) /\ Cardinality(fs) = n
  BY <1>2, <1>4, HeaviestExists
<1> QED
  BY <1>1, <1>3, <1>5 DEF Heaviest, Leading

(* The hotspots are leading rows of the heatmap, cut for want of room.     *)
LEMMA HotspotsLead ==
  ASSUME NEW all, Shelf(all), NEW r, Shelf(OfRepo(all, r)), NEW heat, heat = RiskHeatmap(OfRepo(all, r)),
         NEW spots, spots = TechDebt(all, r).hotspots
  PROVE  /\ Cardinality(DOMAIN spots) <= MaxHotspots
         /\ \A f \in DOMAIN heat \ DOMAIN spots :
              /\ Cardinality(DOMAIN spots) = MaxHotspots
              /\ \A g \in DOMAIN spots : heat[f].risk <= spots[g].risk
<1>1. PICK fs : fs = CHOOSE gs \in SUBSET DOMAIN heat : Leading(heat, gs)
  OBVIOUS
<1>2. fs \in SUBSET DOMAIN heat /\ Leading(heat, fs)
  BY <1>1, LeadersExist
<1>3. spots = Restrict(heat, fs)
  BY <1>1 DEF TechDebt
<1>4. DOMAIN spots = fs /\ \A g \in fs : spots[g] = heat[g]
  BY <1>3 DEF Restrict
<1>5. IsFiniteSet(DOMAIN heat) /\ Cardinality(DOMAIN heat) \in Nat /\ MaxHotspots \in Nat
  BY HeatmapRisks, FS_CardinalityType, SummaryAssumption
<1>6. ASSUME NEW f \in DOMAIN heat \ fs PROVE Cardinality(fs) = MaxHotspots
  <2>1. Cardinality(fs) # Cardinality(DOMAIN heat)
    BY <1>2, <1>5, FS_Subset
  <2> QED
    BY <1>2, <2>1 DEF Leading
<1>7. Cardinality(fs) <= MaxHotspots
  BY <1>2, <1>5 DEF Leading
<1>8. \A f \in fs, g \in DOMAIN heat \ fs : heat[g].risk <= heat[f].risk
  BY <1>2 DEF Leading
<1> QED
  BY <1>4, <1>6, <1>7, <1>8

LEMMA RepoPages ==
  ASSUME NEW all, Shelf(all), NEW r \in ReposOf(all)
  PROVE  RepoPagesAgree(all, r)
<1>1. PICK mine, overview, debt, list, heat :
        /\ mine = OfRepo(all, r) /\ overview = RepoOverview(all)[r] /\ debt = TechDebt(all, r)
        /\ list = QualityTimeline(all, r) /\ heat = RiskHeatmap(mine)
  OBVIOUS
<1>2. Shelf(mine) /\ IsFiniteSet(mine)
  BY <1>1, ShelfPart DEF OfRepo, Shelf
<1>3. overview.reviews = Cardinality(mine) /\ overview.open_prs = Cardinality(OpenPrs(mine))
  BY <1>1 DEF RepoOverview
<1>4. debt.prs = Cardinality(LatestPerPr(mine))
  BY <1>1 DEF TechDebt
<1>5. overview.open_prs <= debt.prs
  <2>1. OpenPrs(mine) \subseteq LatestPerPr(mine) /\ LatestPerPr(mine) \subseteq mine
    BY DEF OpenPrs, LatestPerPr
  <2>2. IsFiniteSet(LatestPerPr(mine))
    BY <1>2, <2>1, FS_Subset
  <2> QED
    BY <1>3, <1>4, <2>1, <2>2, FS_Subset
<1>6. /\ Len(list) = Cardinality(mine)
      /\ \A s \in LatestPerPr(mine) : \E i \in DOMAIN list :
           list[i] = s /\ \A j \in (i + 1)..Len(list) : PrOf(list[j]) # PrOf(s)
  BY <1>1, TimelineTells
<1>7. SumFunction([f \in DOMAIN heat |-> heat[f].findings]) = Cardinality(Located(LatestPerPr(mine)))
  BY <1>1, <1>2, HeatmapCounts
<1>8. /\ Cardinality(DOMAIN debt.hotspots) <= MaxHotspots
      /\ \A f \in DOMAIN heat \ DOMAIN debt.hotspots :
           /\ Cardinality(DOMAIN debt.hotspots) = MaxHotspots
           /\ \A g \in DOMAIN debt.hotspots : heat[f].risk <= debt.hotspots[g].risk
  BY <1>1, <1>2, HotspotsLead
<1> QED
  BY <1>1, <1>3, <1>5, <1>6, <1>7, <1>8 DEF RepoPagesAgree

LEMMA AllPages ==
  ASSUME NEW all, Shelf(all)
  PROVE  PagesAgree(all)
<1>1. PICK overview, cost : overview = RepoOverview(all) /\ cost = CostAnalytics(all)
  OBVIOUS
<1>2. IsFiniteSet(all)
  BY DEF Shelf
<1>3. /\ DOMAIN overview = ReposOf(all)
      /\ \A r \in ReposOf(all) : /\ overview[r].reviews = Cardinality(OfRepo(all, r))
                                 /\ overview[r].open_prs = Cardinality(OpenPrs(OfRepo(all, r)))
  BY <1>1 DEF RepoOverview
<1>4. DOMAIN cost.by_repo = ReposOf(all) /\ cost.reviews = Cardinality(all)
  BY <1>1 DEF CostAnalytics
<1>5. SumFunction([r \in DOMAIN overview |-> overview[r].open_prs]) = Cardinality(OpenPrs(all))
  <2>1. [r \in DOMAIN overview |-> overview[r].open_prs]
          = [r \in ReposOf(all) |-> Cardinality(OpenPrs(OfRepo(all, r)))]
    BY <1>3
  <2>2. SumFunction([r \in ReposOf(all) |-> Cardinality(OpenPrs(OfRepo(all, r)))]) = Cardinality(OpenPrs(all))
    BY <1>2, OpenPrsAddUp
  <2> QED
    BY <2>1, <2>2
<1>6. SumFunction([r \in DOMAIN overview |-> overview[r].reviews]) = cost.reviews
  <2>1. [r \in DOMAIN overview |-> overview[r].reviews] = [r \in ReposOf(all) |-> Cardinality(OfRepo(all, r))]
    BY <1>3
  <2>2. SumFunction([r \in ReposOf(all) |-> Cardinality(OfRepo(all, r))]) = Cardinality(all)
    BY <1>2, ReviewsAddUp
  <2> QED
    BY <1>4, <2>1, <2>2
<1>7. cost.total_cost = SumFunction(cost.by_repo)
  BY <1>1, CostsAddUp
<1>8. Latency(all).count = cost.reviews /\ Latency(all).p50 <= Latency(all).max
  BY <1>4, MedianBelowMax
<1>9. \A r \in DOMAIN overview : RepoPagesAgree(all, r)
  BY <1>3, RepoPages
<1> QED
  BY <1>1, <1>3, <1>4, <1>5, <1>6, <1>7, <1>8, <1>9 DEF PagesAgree

(* The views of one dashboard agree, whatever was recorded in whatever     *)
(* order and at whatever times (store.py:79-180).                          *)
THEOREM ViewsHold == Spec => []ViewsAgree
<1>1. RecordsOK => ViewsAgree
  BY ListIsShelf, AllPages DEF RecordsOK, ViewsAgree
<1> QED
  BY <1>1, RecordsOKHold, PTL
=============================================================================
