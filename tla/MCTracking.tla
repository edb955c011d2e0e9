----------------------------- MODULE MCTracking -----------------------------
(* Rows and server processes are interchangeable; the numbers of the       *)
(* columns are not: the smallest free one is taken.                        *)
EXTENDS Tracking, TLC

CONSTANTS r1, r2, c1, w1, w2

Symmetry == Permutations(Row) \cup Permutations(Web)
=============================================================================
