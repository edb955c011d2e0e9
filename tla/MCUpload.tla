------------------------------ MODULE MCUpload ------------------------------
(* A key, two columns, and tables that agree, disagree, miss values and    *)
(* bring rows and columns of their own.                                    *)
EXTENDS Upload

CONSTANT x

Frame(cols, rows) == [cols |-> cols, rows |-> {[c \in Names(cols) |-> r[c]] : r \in rows}]

MCStart == {None, Frame(<<"k", "a">>, {[k |-> 1, a |-> 1], [k |-> 2, a |-> 1]})}

MCFiles == {Frame(<<"k", "a">>, {[k |-> 2, a |-> 2], [k |-> 3, a |-> NaN]}),
            Frame(<<"a", "k", "b">>, {[k |-> 2, a |-> 3, b |-> x], [k |-> 1, a |-> NaN, b |-> NaN]})}

\* The key under the name of a column, and a column under a new name.
MCRenamings == {[c \in Name |-> c],
                [c \in Name |-> IF c = "k" THEN "b" ELSE c],
                [c \in Name |-> IF c = "a" THEN "b" ELSE c]}

MCCategories == [c \in Name |-> IF c = "b" THEN {1, 2, x} ELSE {}]
=============================================================================
