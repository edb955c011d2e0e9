------------------------------- MODULE Lists -------------------------------
(***************************************************************************)
(* Lists of columns when some of them are left out: pandas' drop, and the  *)
(* list comprehensions with a condition.                                   *)
(***************************************************************************)
EXTENDS Naturals, Sequences, FiniteSets, Functions

\* The entries of a sequence that are in S, in their order.
Those(seq, S) ==
    LET I == {p \in DOMAIN seq : seq[p] \in S}
        Upto(p) == {q \in I : q <= p}
    IN [k \in 1..Cardinality(I) |-> seq[CHOOSE p \in I : Cardinality(Upto(p)) = k]]

Without(seq, e) == Those(seq, Range(seq) \ {e})
=============================================================================
