--------------------------- MODULE MCSuggestedFixes --------------------------
(* Lines of every kind for TLC. *)
EXTENDS SuggestedFixes, TLC

CONSTANTS a, b, stray, hash, hashAndTls, plus

(* One line with two mechanical fixes, one with one.                       *)
Fixes == {<<hash, "weak-hash">>, <<hashAndTls, "weak-hash">>, <<hashAndTls, "tls-verification-disabled">>}

(* No definition tells the files apart.                                    *)
FileSymmetry == Permutations(Path)
=============================================================================
