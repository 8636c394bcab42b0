------------------------------ MODULE AuditLog -------------------------------
(***************************************************************************)
(* HashChainedAuditLog (dashboard/audit.py): per tenant a list of events,  *)
(* each carrying the hash of its own payload and the hash of its           *)
(* predecessor.  sha256 is taken as injective, so a payload hash is the    *)
(* payload, and a chain hash, which is computed from the predecessor's     *)
(* hash and the payload's, is the sequence of payloads it was computed     *)
(* from; the genesis hash is the empty one.                                *)
(*                                                                         *)
(* Faults of the storage under the list, one event at a time: an event is  *)
(* altered, lost, stored twice, or stored out of order.                    *)
(***************************************************************************)
EXTENDS Access, Sequences, SequencesExt

CONSTANTS
  Payload,   \* actor, action, detail and time of an event
  MaxFaults  \* bound: storage faults in a behaviour

ASSUME AuditAssumption == MaxFaults \in Nat

VARIABLES
  chain,    \* per tenant: the list of events
  written,  \* history, per tenant: what was recorded, each payload upon the
            \* one that was the last when record was called
  faults    \* history: storage faults so far

auditVars == <<chain, written, faults>>

Hash == Seq(Payload)
GENESIS == <<>>

Event == [seq : Nat, payload : Payload, payload_hash : Payload, prev_hash : Hash, hash : Hash]

AuditTypeOK ==
  /\ chain \in [Tenant -> Seq(Event)]
  /\ written \in [Tenant -> SUBSET Hash]
  /\ faults \in Nat

AuditInit ==
  /\ chain = [t \in Tenant |-> <<>>]
  /\ written = [t \in Tenant |-> {}]
  /\ faults = 0

-----------------------------------------------------------------------------
ChainHash(prev, payload_hash) == Append(prev, payload_hash)

HashOf(c) == IF c = <<>> THEN GENESIS ELSE c[Len(c)].hash

(* The event record appends to c.                                          *)
NextEvent(c, p) ==
  [seq |-> Len(c), payload |-> p, payload_hash |-> p,
   prev_hash |-> HashOf(c), hash |-> ChainHash(HashOf(c), p)]

(* HashChainedAuditLog.record.                                             *)
Record(t, p) ==
  /\ chain' = [chain EXCEPT ![t] = Append(@, NextEvent(@, p))]
  /\ written' = [written EXCEPT ![t] = @ \cup {ChainHash(HashOf(chain[t]), p)}]
  /\ UNCHANGED faults

(* Mutant of Linked: the event's own hash is recomputed, its place is not  *)
(* looked at.                                                              *)
LinkedAnywhere(c, i) ==
  /\ c[i].payload = c[i].payload_hash
  /\ c[i].hash = ChainHash(c[i].prev_hash, c[i].payload)

(* The hashes of event i are its payload's and its predecessor's.          *)
Linked(c, i) ==
  /\ c[i].payload = c[i].payload_hash
  /\ c[i].prev_hash = (IF i = 1 THEN GENESIS ELSE c[i - 1].hash)
  /\ c[i].hash = ChainHash(c[i].prev_hash, c[i].payload)

(* HashChainedAuditLog.verify.                                             *)
Verify(c) == \A i \in DOMAIN c : Linked(c, i)

(* list_events: newest first, those of the slice [-limit:], which is the   *)
(* last limit events, all of them for 0, and without the oldest ones for a *)
(* negative limit.                                                         *)
ListEvents(c, limit) ==
  LET first == IF limit > 0 THEN Len(c) - limit + 1 ELSE 1 - limit
  IN Reverse(SubSeq(c, IF first < 1 THEN 1 ELSE first, Len(c)))

-----------------------------------------------------------------------------
Fault(t, c) ==
  /\ faults < MaxFaults
  /\ faults' = faults + 1
  /\ chain' = [chain EXCEPT ![t] = c]
  /\ UNCHANGED written

(* A field of an event changes; its chain hashes stay.                     *)
Alter(t) ==
  \E i \in DOMAIN chain[t] :
    \/ \E p \in Payload : Fault(t, [chain[t] EXCEPT ![i].payload = p])
    \/ \E p \in Payload : Fault(t, [chain[t] EXCEPT ![i].payload_hash = p])
    \/ \E n \in 0..Len(chain[t]) : Fault(t, [chain[t] EXCEPT ![i].seq = n])

Lose(t) == \E i \in DOMAIN chain[t] : Fault(t, RemoveAt(chain[t], i))

Duplicate(t) ==
  \E i \in DOMAIN chain[t] : \E j \in 1..(Len(chain[t]) + 1) :
    Fault(t, InsertAt(chain[t], j, chain[t][i]))

Misplace(t) ==
  \E i, j \in DOMAIN chain[t] :
    Fault(t, [chain[t] EXCEPT ![i] = chain[t][j], ![j] = chain[t][i]])

StorageFault(t) == Alter(t) \/ Lose(t) \/ Duplicate(t) \/ Misplace(t)

AuditNext == \E t \in Tenant : (\E p \in Payload : Record(t, p)) \/ StorageFault(t)

AuditSpec == AuditInit /\ [][AuditNext]_auditVars

-----------------------------------------------------------------------------
PayloadsOf(c) == [i \in DOMAIN c |-> c[i].payload]

(* What a successful verify tells: the payloads of the list were recorded, *)
(* in this order, each upon the one before it.  An event altered, doubled  *)
(* or moved, or lost before the last one was recorded upon it, would show; *)
(* events lost from the end do not (audit.py:102-112).                     *)
VerifiedIsIntact ==
  \A t \in Tenant : Verify(chain[t]) =>
    chain[t] = <<>> \/ PayloadsOf(chain[t]) \in written[t]
=============================================================================
