------------------------------- MODULE Counts -------------------------------
(***************************************************************************)
(* Actions with their filters and conditions.  Each condition carries the  *)
(* number of rows it selects, computed by a query and stored, so that it   *)
(* has to be computed again whenever the table, the condition or the       *)
(* filter of its action changes.  Every request is one step: the change    *)
(* and the recounts its handler makes.                                     *)
(*                                                                         *)
(* The table has a key and two more columns: "reads" counts how often an   *)
(* email was read, and "answer" is one that actions In collect.  A         *)
(* condition is linked to the columns of its formula when it is saved; the *)
(* links decide whether an image, which changes only "reads", recounts it. *)
(***************************************************************************)
EXTENDS Formula, FiniteSets

CONSTANTS
    Row,        \* values of the key
    Action,     \* names of actions
    Cond,       \* names of conditions of an action
    Filter,     \* the filter of an action, beside its conditions
    MaxConds,   \* bound: conditions of the workflow, filters included
    MaxReads,   \* bound: reads counted
    Given,      \* bound: answers other than Null
    FilterFormula, \* bound: the formulas of filters
    CondFormula,\* bound: the formulas of conditions
    None        \* no such action, no such condition

VARIABLES
    rows,       \* the table: the values of the two columns, by key
    actions     \* the actions, by name

vars == <<rows, actions>>

Slot == Cond \cup {Filter}
Column == {"key", "reads", "answer"}
InColumn == {"key", "answer"}       \* those an action In shows
Values == [reads: 0..MaxReads, answer: Given \cup {Null}]
Tables == UNION {[R -> Values] : R \in SUBSET Row}

\* What the query builder makes, on the columns that change.
Formulas == [condition: {"AND", "OR"}, not: BOOLEAN,
             rules: SUBSET [id: Column \ {"key"}, operator: Operator, value: Int \X Int]]

(* counted is history: the number comes from a query, not from the file of *)
(* an imported action.                                                     *)
Condition == [formula: FilterFormula \cup CondFormula, links: SUBSET Column,
              n: Nat, counted: BOOLEAN]

ASSUME CountsAssumption ==
    /\ Filter \notin Cond
    /\ MaxReads \in Nat /\ MaxConds \in Nat /\ Given \subseteq Int /\ Null \notin Int
    /\ IsFiniteSet(Row)
    /\ FilterFormula \cup CondFormula \subseteq Formulas
    /\ None \notin Condition

ActionRow == [is_out: BOOLEAN, columns: SUBSET InColumn,
              conds: [Slot -> Condition \cup {None}]]

TypeOK ==
    /\ rows \in Tables
    /\ actions \in [Action -> ActionRow \cup {None}]

Init ==
    /\ rows = [r \in Row |-> [reads |-> 0, answer |-> Null]]
    /\ actions = [a \in Action |-> None]

Saved == {a \in Action : actions[a] # None}

Bounded ==
    Cardinality({p \in Saved \X Slot : actions[p[1]].conds[p[2]] # None}) <= MaxConds

-----------------------------------------------------------------------------
(* update_n_rows_selected.                                                 *)

Counted(c, S) == [c EXCEPT !.n = Cardinality(S), !.counted = TRUE]

\* Case 1 of Condition.update_n_rows_selected: the filter counts itself and
\* has every condition of the action counted in conjunction with it.
Propagate(conds, T) ==
    LET f == conds[Filter].formula IN
    [s \in Slot |->
        IF conds[s] = None THEN None
        ELSE IF s = Filter THEN Counted(conds[s], Select(f, T))
        ELSE Counted(conds[s], SelectBoth(f, conds[s].formula, T))]

\* Action.update_n_rows_selected(column): with a filter it is all or nothing,
\* without one each of the conditions in chosen.
RecountFor(conds, T, chosen) ==
    IF conds[Filter] # None
    THEN IF Filter \in chosen THEN Propagate(conds, T) ELSE conds
    ELSE [s \in Slot |->
            IF conds[s] # None /\ s \in chosen
            THEN Counted(conds[s], Select(conds[s].formula, T)) ELSE conds[s]]

Linked(conds) == {s \in Slot : conds[s] # None /\ "reads" \in conds[s].links}

Recount(conds, T) == RecountFor(conds, T, Slot)
RecountReads(conds, T) == RecountFor(conds, T, Linked(conds))

\* Every action of the workflow, some or all of its conditions.
RecountAll(T) ==
    [a \in Action |-> IF actions[a] = None THEN None
                      ELSE [actions[a] EXCEPT !.conds = Recount(@, T)]]

RecountAllReads(T) ==
    [a \in Action |-> IF actions[a] = None THEN None
                      ELSE [actions[a] EXCEPT !.conds = RecountReads(@, T)]]

-----------------------------------------------------------------------------
(* The rows of the table.                                                  *)

\* Mutant: only the filters recounted, as when an action In is opened.
StoreRowsFilters(T) ==
    /\ rows' = T
    /\ actions' = [a \in Action |->
         IF actions[a] = None \/ actions[a].conds[Filter] = None THEN actions[a]
         ELSE [actions[a] EXCEPT !.conds[Filter] = Counted(@, Select(@.formula, T))]]

\* row_update, row_create, row_delete, serve_action_in, the PUT of the API and
\* a merge change the table and then recount every condition of the workflow.
StoreRows(T) ==
    /\ rows' = T
    /\ actions' = RecountAll(T)

RowUpdate(r, v) ==
    /\ r \in DOMAIN rows
    /\ StoreRows([rows EXCEPT ![r] = v])

RowCreate(r, v) ==
    /\ rows # <<>> /\ r \notin DOMAIN rows
    /\ StoreRows([q \in DOMAIN rows \cup {r} |-> IF q = r THEN v ELSE rows[q]])

RowDelete(r) ==
    /\ r \in DOMAIN rows
    /\ StoreRows([q \in DOMAIN rows \ {r} |-> rows[q]])

\* A merge or an upload through the API changes several rows at once and adds
\* those that were missing; the same values for all are enough.
Merge(v) == StoreRows([r \in Row |-> v])

\* Mutant: the counter stored, as any other operation on the frame.
ImageStored(r) ==
    /\ r \in DOMAIN rows /\ rows[r].reads < MaxReads
    /\ rows' = [rows EXCEPT ![r].reads = @ + 1]
    /\ UNCHANGED actions

\* trck: only the conditions with the counter among their columns.
Image(r) ==
    /\ r \in DOMAIN rows /\ rows[r].reads < MaxReads
    /\ rows' = [rows EXCEPT ![r].reads = @ + 1]
    /\ actions' = RecountAllReads(rows')

-----------------------------------------------------------------------------
(* Conditions and filters: views_condition.                                *)

New(f, n) == [formula |-> f, links |-> Vars(f), n |-> n, counted |-> TRUE]

\* Mutant: the filter saved and counted, the conditions left.
SaveFilterOnly(a, f) ==
    /\ a \in Saved
    /\ actions' = [actions EXCEPT ![a].conds[Filter] = New(f, Cardinality(Select(f, rows)))]
    /\ Bounded'
    /\ UNCHANGED rows

\* Creating the filter or editing it.
SaveFilter(a, f) ==
    /\ a \in Saved
    /\ actions' = [actions EXCEPT ![a].conds =
                     Propagate([@ EXCEPT ![Filter] = New(f, 0)], rows)]
    /\ Bounded'
    /\ UNCHANGED rows

\* Mutant: saved with the default of the field.
SaveConditionUncounted(a, c, f) ==
    /\ a \in Saved /\ actions[a].is_out
    /\ actions' = [actions EXCEPT ![a].conds[c] = New(f, -1)]
    /\ Bounded'
    /\ UNCHANGED rows

\* Creating or editing a condition counts it alone, filter or not.
SaveCondition(a, c, f) ==
    /\ a \in Saved /\ actions[a].is_out
    /\ actions' = [actions EXCEPT ![a].conds[c] = New(f, Cardinality(Select(f, rows)))]
    /\ Bounded'
    /\ UNCHANGED rows

DeleteFilter(a) ==
    /\ a \in Saved /\ actions[a].conds[Filter] # None
    /\ actions' = [actions EXCEPT ![a].conds = Recount([@ EXCEPT ![Filter] = None], rows)]
    /\ UNCHANGED rows

DeleteCondition(a, c) ==
    /\ a \in Saved /\ actions[a].conds[c] # None
    /\ actions' = [actions EXCEPT ![a].conds[c] = None]
    /\ UNCHANGED rows

\* clone_condition saves a copy of the row, and the links stay behind.
Copy(c) == IF c = None THEN None ELSE [c EXCEPT !.links = {}]

CloneCondition(a, c, d) ==
    /\ a \in Saved /\ actions[a].conds[c] # None /\ actions[a].conds[d] = None
    /\ actions' = [actions EXCEPT ![a].conds[d] = Copy(actions[a].conds[c])]
    /\ Bounded'
    /\ UNCHANGED rows

-----------------------------------------------------------------------------
(* Actions: views_action.                                                  *)

ActionCreate(a, is_out) ==
    /\ a \notin Saved
    /\ actions' = [actions EXCEPT ![a] =
         [is_out |-> is_out, columns |-> {}, conds |-> [s \in Slot |-> None]]]
    /\ UNCHANGED rows

\* clone_action: the copy has the columns, and copies of the conditions.
ActionClone(a, b) ==
    /\ a \in Saved /\ b \notin Saved
    /\ actions' = [actions EXCEPT ![b] =
         [actions[a] EXCEPT !.conds = [s \in Slot |-> Copy(@[s])]]]
    /\ Bounded'
    /\ UNCHANGED rows

ActionDelete(a) ==
    /\ a \in Saved
    /\ actions' = [actions EXCEPT ![a] = None]
    /\ UNCHANGED rows

\* do_import_action of a file with a filter and a condition: the numbers are
\* those of the file, and zero stands for them.
ActionImport(a, f, g) ==
    /\ a \notin Saved
    /\ actions' = [actions EXCEPT ![a] =
         [is_out |-> TRUE, columns |-> {},
          conds |-> [s \in Slot |-> [New(IF s = Filter THEN f ELSE g, 0)
                                      EXCEPT !.counted = FALSE]]]]
    /\ Bounded'
    /\ UNCHANGED rows

\* select_column_action: one key at a time; unselect_column_action.
SelectColumn(a, c) ==
    /\ rows # <<>> /\ a \in Saved /\ ~actions[a].is_out
    /\ actions' = [actions EXCEPT ![a].columns = @ \cup {c}]
    /\ UNCHANGED rows

UnselectColumn(a, c) ==
    /\ rows # <<>> /\ a \in Saved /\ ~actions[a].is_out
    /\ actions' = [actions EXCEPT ![a].columns = @ \ {c}]
    /\ UNCHANGED rows

\* The columns of the frame of those rows that have only missing values.
Hollow(S) == {c \in {"reads", "answer"} : \A r \in S : rows[r][c] = Null}

\* The number of an existing filter, counted and saved on its own: when the
\* page of an action In is opened, and when the emails of an action are sent
\* (as many as the filter selects), which first evaluates all of the texts.
CountFilter(a) ==
    LET f == actions[a].conds[Filter]
        R == Select(f.formula, rows) IN
    /\ a \in Saved /\ f # None
    /\ \/ ~actions[a].is_out
       \/ \A c \in Cond, r \in R : actions[a].conds[c] # None =>
            Python(actions[a].conds[c].formula, rows[r], Hollow(R)) # "raised"
    /\ actions' = [actions EXCEPT ![a].conds[Filter] = Counted(f, R)]
    /\ UNCHANGED rows

-----------------------------------------------------------------------------
(* Answers to an action In: serve_action_in.                               *)

\* EnterActionIn: the key is a field, disabled, for instructors only.
Fields(a, is_inst) == IF is_inst THEN actions[a].columns ELSE actions[a].columns \ {"key"}

\* The loop over the columns looks each of them up in the form, and needs a
\* key to say which row to update.
Storable(a, is_inst) ==
    /\ actions[a].columns \subseteq Fields(a, is_inst)
    /\ "key" \in actions[a].columns

\* A form with something changed, for a row of the table.
ServeActionIn(a, is_inst, r, v) ==
    /\ a \in Saved /\ ~actions[a].is_out
    /\ r \in DOMAIN rows
    /\ Storable(a, is_inst)
    /\ "answer" \in actions[a].columns /\ v # rows[r].answer
    /\ StoreRows([rows EXCEPT ![r].answer = v])

-----------------------------------------------------------------------------
DataStep ==
    \/ \E r \in Row, v \in Values : RowUpdate(r, v) \/ RowCreate(r, v)
    \/ \E r \in Row : RowDelete(r)
    \/ \E v \in Values : Merge(v)
    \/ \E a \in Action, is_inst \in BOOLEAN, r \in Row, v \in Given \cup {Null} :
          ServeActionIn(a, is_inst, r, v)

Next ==
    \/ DataStep
    \/ \E r \in Row : Image(r)
    \/ \E a \in Action :
        \/ \E f \in FilterFormula : SaveFilter(a, f)
        \/ \E c \in Cond, f \in CondFormula : SaveCondition(a, c, f)
        \/ \E c \in Cond : DeleteCondition(a, c) \/ \E d \in Cond : CloneCondition(a, c, d)
        \/ \E is_out \in BOOLEAN : ActionCreate(a, is_out)
        \/ \E b \in Action : ActionClone(a, b)
        \/ \E f \in FilterFormula, g \in CondFormula : ActionImport(a, f, g)
        \/ \E c \in InColumn : SelectColumn(a, c) \/ UnselectColumn(a, c)
        \/ DeleteFilter(a) \/ ActionDelete(a) \/ CountFilter(a)

Spec == Init /\ [][Next]_vars

-----------------------------------------------------------------------------
(* Properties.                                                             *)

Conds(a) == actions[a].conds
Has(a, s) == a \in Saved /\ Conds(a)[s] # None

Alone(a, s) == Cardinality(Select(Conds(a)[s].formula, rows))

InFilter(a, s) ==
    IF Conds(a)[Filter] = None THEN Alone(a, s)
    ELSE Cardinality(SelectBoth(Conds(a)[Filter].formula, Conds(a)[s].formula, rows))

\* What the number says: it was counted here, and the links of the condition
\* are those of its formula (a clone has none until it is edited).
Tracked(c) == c.counted /\ c.links = Vars(c.formula)

\* The number of rows of a filter is right at any time, whatever happened to
\* the table, except in clones and imports nobody has edited: the handlers
\* that do not recount it do not need to (trck, save_condition_form,
\* delete_condition, send_messages).
FilterCountRight ==
    \A a \in Action : Has(a, Filter) /\ Tracked(Conds(a)[Filter]) =>
        Conds(a)[Filter].n = Alone(a, Filter)

\* The number of rows of a condition is that of its formula, or that of the
\* conjunction with the filter, depending on what was counted last.  Not after
\* an image that changes what either selects when the filter is not linked to
\* the counter: then nothing in the action is recounted.
ConditionCountMeans ==
    \A a \in Action, c \in Cond : Has(a, c) /\ Tracked(Conds(a)[c]) =>
        \/ /\ Conds(a)[Filter] # None
           /\ "reads" \notin Conds(a)[Filter].links
           /\ "reads" \in Vars(Conds(a)[c].formula) \cup Vars(Conds(a)[Filter].formula)
        \/ Conds(a)[c].n \in {Alone(a, c), InFilter(a, c)}

\* A change of rows by an instructor, the API or an answer leaves every number
\* of every action right, with the filter taken into account, in clones and
\* imports too (row_update, row_create, row_delete, serve_action_in,
\* override, perform_dataframe_upload_merge).
RecountComplete ==
    [][DataStep => \A a \in Action, s \in Slot :
         Has(a, s)' => Conds(a)'[s].n = InFilter(a, s)']_vars

\* For plain formulas, the texts sent to the rows of an action take the branch
\* of a condition in the rows that a query counts: the Python evaluator and
\* the WHERE clause agree, missing values included (evaluate_node,
\* evaluate_node_sql).
TextsMatchCounts ==
    \A a \in Action, c \in Cond : Has(a, c) /\ Plain(Conds(a)[c].formula) =>
        Select(Conds(a)[c].formula, rows)
            = {r \in DOMAIN rows : Python(Conds(a)[c].formula, rows[r],
                                           Hollow(DOMAIN rows)) = "true"}
=============================================================================
