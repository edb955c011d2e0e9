----------------------------- MODULE MCColumns -----------------------------
(* Instances of Columns for TLC. *)
EXTENDS Columns, TLC

\* Names, conditions and views are interchangeable: nothing compares them but
\* for equality, and a position belongs to one name.
Symmetry == Permutations(Name) \cup Permutations(Cond) \cup Permutations(View)
=============================================================================
