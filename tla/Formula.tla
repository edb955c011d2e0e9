------------------------------ MODULE Formula ------------------------------
(***************************************************************************)
(* The formulas of conditions, filters and views, and the two programs     *)
(* that evaluate them: evaluate_node in Python, over the values of a row   *)
(* when a text is made, and evaluate_node_sql, as the WHERE clause of the  *)
(* queries that select and count rows.                                     *)
(*                                                                         *)
(* A formula is a group of rules as the query builder makes them; the      *)
(* values are numbers.  Every operator of the query builder behaves, as to *)
(* empty values, like one of those here: begins_with, contains, ends_with  *)
(* and is_not_empty like equal; not_contains and is_empty like not_equal;  *)
(* less_or_equal like less; greater and greater_or_equal like between.     *)
(***************************************************************************)
EXTENDS Integers

CONSTANT Null       \* no value: NULL in the table, None or NaN in Python

Operator == {"equal", "not_equal", "not_begins_with", "less", "between", "not_between"}

Vars(f) == {rule.id : rule \in f.rules}

Bool(b) == IF b THEN "true" ELSE "false"

Within(v, rule) == rule.value[1] <= v /\ v <= rule.value[2]

-----------------------------------------------------------------------------
(* evaluate_node: a comparison with NaN is false.  A column of the frame    *)
(* with nothing but missing values (none is the set of these) has None for *)
(* them, which in Python 2 is less than any number.  The operator that the *)
(* query builder calls not_begins_with is not one it knows.                *)

RulePython(rule, v, none) ==
    LET op == rule.operator IN
    CASE op = "equal"           -> Bool(v = rule.value[1])
      [] op = "not_equal"       -> Bool(v # rule.value[1])
      [] op = "not_begins_with" -> "raised"
      [] op = "less"            -> IF v = Null THEN Bool(rule.id \in none)
                                  ELSE Bool(v < rule.value[1])
      [] op = "between"         -> IF v = Null THEN "false" ELSE Bool(Within(v, rule))
      [] op = "not_between"     -> IF v = Null THEN "true" ELSE Bool(~Within(v, rule))

\* all or any of the rules, and not.
Python(f, row, none) ==
    LET subs == {RulePython(rule, row[rule.id], none) : rule \in f.rules}
        result == IF f.condition = "AND" THEN subs \subseteq {"true"} ELSE ("true" \in subs)
    IN  IF "raised" \in subs THEN "raised" ELSE Bool(result # f.not)

-----------------------------------------------------------------------------
(* evaluate_node_sql, with the three values of SQL: equal and not_equal    *)
(* say what to do with NULL, the orders do not.                            *)

\* Mutant: variable <> value alone.
RuleSqlBare(rule, v) ==
    LET op == rule.operator IN
    CASE v = Null -> "unknown"
      [] v # Null /\ op = "equal"   -> Bool(v = rule.value[1])
      [] v # Null /\ op \in {"not_equal", "not_begins_with"} -> Bool(v # rule.value[1])
      [] v # Null /\ op = "less"        -> Bool(v < rule.value[1])
      [] v # Null /\ op = "between"     -> Bool(Within(v, rule))
      [] v # Null /\ op = "not_between" -> Bool(~Within(v, rule))

RuleSql(rule, v) ==
    LET op == rule.operator IN
    CASE op = "equal" -> Bool(v = rule.value[1])
      [] op \in {"not_equal", "not_begins_with"} -> Bool(v # rule.value[1])
      [] op = "less"        -> IF v = Null THEN "unknown" ELSE Bool(v < rule.value[1])
      [] op = "between"     -> IF v = Null THEN "unknown" ELSE Bool(Within(v, rule))
      [] op = "not_between" -> IF v = Null THEN "unknown" ELSE Bool(~Within(v, rule))

SqlAnd(subs) ==
    IF "false" \in subs THEN "false" ELSE IF "unknown" \in subs THEN "unknown" ELSE "true"

SqlOr(subs) ==
    IF "true" \in subs THEN "true" ELSE IF "unknown" \in subs THEN "unknown" ELSE "false"

SqlNot(x) == CASE x = "true" -> "false" [] x = "false" -> "true" [] OTHER -> "unknown"

Sql(f, row) ==
    LET subs == {RuleSql(rule, row[rule.id]) : rule \in f.rules}
        result == IF f.condition = "AND" THEN SqlAnd(subs) ELSE SqlOr(subs)
    IN  IF f.not THEN SqlNot(result) ELSE result

\* The rows of a table that a WHERE clause selects.
Select(f, rows) == {r \in DOMAIN rows : Sql(f, rows[r]) = "true"}

\* The conjunction of a filter and a condition, made by
\* Condition.update_n_rows_selected.
SelectBoth(f, g, rows) ==
    {r \in DOMAIN rows : SqlAnd({Sql(f, rows[r]), Sql(g, rows[r])}) = "true"}

-----------------------------------------------------------------------------
(* The formulas the two programs are expected to agree on: those without   *)
(* orders, which None is below, and without a negation over between.       *)

Plain(f) ==
    /\ \A rule \in f.rules : rule.operator \in {"equal", "not_equal", "between"}
    /\ f.not => \A rule \in f.rules : rule.operator \in {"equal", "not_equal"}
=============================================================================
