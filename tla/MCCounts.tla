------------------------------ MODULE MCCounts ------------------------------
(* A filter looks at one of the columns.  One condition looks at both; the *)
(* other has the operator that only the queries know.                      *)
EXTENDS Counts, TLC

CONSTANTS r1, r2, a1, a2, c1, c2

Rule(id, operator, n) == [id |-> id, operator |-> operator, value |-> <<n, n>>]

AnyOf(rules) == [condition |-> "OR", not |-> FALSE, rules |-> rules]

MCFilterFormula == {AnyOf({Rule("reads", "less", 1)}), AnyOf({Rule("answer", "equal", 1)})}

MCCondFormula == {AnyOf({Rule("reads", "between", 1), Rule("answer", "not_equal", 1)}),
                  AnyOf({Rule("answer", "not_begins_with", 1)})}

Symmetry == Permutations(Row) \cup Permutations(Action) \cup Permutations(Cond)
=============================================================================
