----------------------------- MODULE MCTransfer -----------------------------
(* One workflow with a key, a column with categories of either kind, an    *)
(* action with a condition, and two views.                                 *)
EXTENDS Transfer

CONSTANT a1

\* The same key, or one of another name.
MCUpload == {[cols |-> <<c>>, uniq |-> {c}, rows |-> 2] : c \in {"k", "e"}}

Col(name, key, cats) == [name |-> name, key |-> key, cats |-> cats]
MCStart ==
    {[wf |-> [name |-> <<"t", 0>>, size |-> [nrows |-> 2, ncols |-> 2], stored |-> TRUE,
              cols |-> <<Col("k", TRUE, "none"), Col("c", FALSE, cats)>>,
              acts |-> [b \in Action |-> IF b # a1 THEN None
                          ELSE [columns |-> {"k"}, names |-> {"c"}, links |-> {"c"}]],
              views |-> {{"c"}, {"k", "c"}}, sure |-> TRUE],
      table |-> [cols |-> <<"k", "c">>, uniq |-> {"k"}, rows |-> 2]] :
     cats \in {"text", "number"}}
=============================================================================
