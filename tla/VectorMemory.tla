---------------------------- MODULE VectorMemory -----------------------------
(***************************************************************************)
(* The past findings a tenant's reviews search for context                 *)
(* (memory/service.py, memory/vector/inmemory.py).  A record's id is the   *)
(* number of the pull request and the finding's index; the repository is   *)
(* no part of it.  A bucket is kept as a sequence per number.  How alike   *)
(* two texts are is the embedder's matter, a constant here.  The other     *)
(* collections are written and never searched, and left out.               *)
(***************************************************************************)
EXTENDS Integers, Sequences, FiniteSets

CONSTANTS
  PRNumber,  \* pull request numbers
  Text,      \* texts of findings
  Score,     \* per number and text: similarity of the review's query to it
  TopK       \* records a search returns

ASSUME VectorAssumption ==
  /\ PRNumber \subseteq Nat /\ TopK \in Nat \ {0}
  /\ Score \in [PRNumber \X Text -> Int]

VARIABLES
  past,      \* per number: the records of PAST_FINDINGS under it
  latest,    \* history: per number, the findings of the last review recorded
  indexed    \* history: reviews recorded

vectorVars == <<past, latest, indexed>>

VectorInit ==
  /\ past = [n \in PRNumber |-> <<>>] /\ latest = [n \in PRNumber |-> <<>>]
  /\ indexed = 0

Records(n, findings) ==
  [i \in DOMAIN findings |-> [id |-> <<n, i>>, text |-> findings[i]]]

(* Mutant of Upserted: a record that is there stays.                       *)
UpsertedIfMissing(old, new) == old \o SubSeq(new, Len(old) + 1, Len(new))

(* upsert: new records replace those of their ids, others stay.            *)
Upserted(old, new) == new \o SubSeq(old, Len(new) + 1, Len(old))

(* _index_for_rag.                                                         *)
IndexForRag(n, findings) ==
  /\ past' = [past EXCEPT ![n] = Upserted(@, Records(n, findings))]
  /\ latest' = [latest EXCEPT ![n] = Records(n, findings)]
  /\ indexed' = indexed + 1

(* search: of the records that are alike at all, the top_k most alike.     *)
(* Which of equals is left to the order of the dictionary.                 *)
Searches(n) ==
  LET ScoreOf(r) == Score[n, r.text]
      alike == {r \in UNION {{past[m][i] : i \in DOMAIN past[m]} : m \in PRNumber} : ScoreOf(r) > 0}
  IN  {hits \in SUBSET alike :
        /\ Cardinality(hits) = TopK \/ (Cardinality(hits) < TopK /\ hits = alike)
        /\ \A h \in hits, r \in alike \ hits : ScoreOf(h) >= ScoreOf(r)}
=============================================================================
