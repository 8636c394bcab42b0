--------------------------- MODULE MCMemoryStores ----------------------------
(* Three files, two pull requests of one repository, a second repository   *)
(* with a pull request of the number of one of them.                       *)
EXTENDS MemoryStores

CONSTANTS f1, f2, f3, p1, p2

Diffs == p1 :> {f1, f2} @@ p2 :> {f2, f3}
Numbers == p1 :> 1 @@ p2 :> 2
Ranks == f1 :> 1 @@ f2 :> 2 @@ f3 :> 3
Scores == [x \in {1, 2} \X {"near", "far"} |-> IF x[2] = "near" THEN 2 ELSE 1]
Found == {<<"near">>, <<"far", "far">>}
=============================================================================
