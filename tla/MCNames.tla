------------------------------ MODULE MCNames ------------------------------
(* Ids and tabs are interchangeable; the names are sorted, and are not.    *)
EXTENDS Names, TLC

CONSTANTS d1, d2, k1, k2, t1, t2

\* The second name is "Copy of" the first, and the third has an ampersand.
MCCopies == <<<<2>>, <<>>, <<>>>>

Symmetry == Permutations(ColId) \cup Permutations(CondId) \cup Permutations(Tab)
=============================================================================
