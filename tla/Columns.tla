------------------------------ MODULE Columns ------------------------------
(***************************************************************************)
(* The columns of a workflow, kept twice: as Column rows with a name, a    *)
(* position and a key mark, and as the columns of the database table that  *)
(* holds the data frame.  Every operation of the web application that      *)
(* changes the set of columns, their names, their order or their keys has  *)
(* to leave both in step, together with what mentions columns by name: the *)
(* operators offered by the query builder, the formulas of the conditions  *)
(* and the views.  Each operation is one step here: the model is of one    *)
(* request after another.                                                  *)
(*                                                                         *)
(* Cell values are abstracted to what the operations ask of them: which    *)
(* columns have a different value in every row (uniq).                     *)
(***************************************************************************)
EXTENDS Integers, FiniteSets, Sequences, Functions

CONSTANTS
    Name,       \* column names
    Cond,       \* conditions of the actions of the workflow
    View,       \* views of the table
    None        \* no such condition or view

\* Names have at most 512 characters.
ASSUME NameAssumption == IsFiniteSet(Name)

VARIABLES
    pos,        \* position of each Column row, by name
    key,        \* columns with is_key
    ncols,      \* Workflow.ncols
    table,      \* column names of the data table, in order; <<>> is no table
    uniq,       \* columns of the table without repeated values
    qbOps,      \* names in Workflow.query_builder_ops
    conds,      \* Condition: variables of the formula, linked columns
    views       \* View: variables of the formula, linked columns

vars == <<pos, key, ncols, table, uniq, qbOps, conds, views>>
others == <<conds, views>>

Cols == DOMAIN pos
HasTable == table # <<>>
Mention == [vars: SUBSET Name, cols: SUBSET Name]

TypeOK ==
    /\ pos \in [Cols -> Nat] /\ Cols \subseteq Name
    /\ key \subseteq Cols
    /\ ncols \in Nat
    /\ table \in Seq(Name)
    /\ uniq \subseteq Range(table)
    /\ qbOps \in Seq(Name)
    /\ conds \in [Cond -> Mention \cup {None}]
    /\ views \in [View -> Mention \cup {None}]

Init ==
    /\ pos = [c \in {} |-> 0]
    /\ key = {}
    /\ ncols = 0
    /\ table = <<>>
    /\ uniq = {}
    /\ qbOps = <<>>
    /\ conds = [f \in Cond |-> None]
    /\ views = [v \in View |-> None]

-----------------------------------------------------------------------------
(* Positions.                                                              *)

\* Column.Meta.ordering: the names in the order of their positions.  The i-th
\* row has fewer than i rows before it, and at least i up to itself.
ByPosition(p) ==
    [i \in 1..Cardinality(DOMAIN p) |->
        CHOOSE c \in DOMAIN p :
            /\ Cardinality({d \in DOMAIN p : p[d] < p[c]}) < i
            /\ Cardinality({d \in DOMAIN p : p[d] <= p[c]}) >= i]

\* Mutant: the range of columns to shift taken without its last one.
ShiftShort(p, from, to) ==
    [c \in DOMAIN p |->
        IF from < p[c] /\ p[c] < to THEN p[c] - 1
        ELSE IF to <= p[c] /\ p[c] < from THEN p[c] + 1
        ELSE p[c]]

\* Mutant: the query without its position__gt condition.
ShiftUnbounded(p, from, to) ==
    [c \in DOMAIN p |->
        IF from < to /\ p[c] <= to THEN p[c] - 1
        ELSE IF to <= p[c] /\ p[c] < from THEN p[c] + 1
        ELSE p[c]]

\* reposition_columns: the columns between the two indices make room.
Shift(p, from, to) ==
    [c \in DOMAIN p |->
        IF from < p[c] /\ p[c] <= to THEN p[c] - 1
        ELSE IF to <= p[c] /\ p[c] < from THEN p[c] + 1
        ELSE p[c]]

\* A Column row saved with a position, new or not.
Place(p, c, i) == [d \in DOMAIN p \cup {c} |-> IF d = c THEN i ELSE p[d]]

Drop(p, c) == [d \in DOMAIN p \ {c} |-> p[d]]

\* ALTER TABLE ... DROP COLUMN: the list without c.
Without(t, c) ==
    LET k == CHOOSE i \in DOMAIN t : t[i] = c IN
    [i \in 1..Len(t) - 1 |-> IF i < k THEN t[i] ELSE t[i + 1]]

RenamedTo(p, c, n) ==
    [d \in (DOMAIN p \ {c}) \cup {n} |-> IF d = n THEN p[c] ELSE p[d]]

\* The rows store_table_in_db creates for the columns of the frame it finds
\* without one, in the order of the frame.
Extend(p, s) ==
    [d \in DOMAIN p \cup Range(s) |->
        IF d \in DOMAIN p THEN p[d]
        ELSE Cardinality(DOMAIN p) + CHOOSE i \in DOMAIN s : s[i] = d]

\* Mutant: the data frame stored in the order it was loaded in.
StoreTableUnordered(p) ==
    /\ pos' = p
    /\ table' = SelectSeq(table, LAMBDA c : c \in DOMAIN p)
                    \o SelectSeq(ByPosition(p), LAMBDA c : c \notin Range(table))
    /\ ncols' = Cardinality(DOMAIN p)
    /\ qbOps' = ByPosition(p)

\* store_table_in_db: the frame is stored in the order of the positions, and
\* the workflow row follows it.
StoreTable(p) ==
    /\ pos' = p
    /\ table' = ByPosition(p)
    /\ ncols' = Cardinality(DOMAIN p)
    /\ qbOps' = ByPosition(p)

\* New columns of an uploaded frame: some names, in some order.
FreshSeqs == UNION {Injection(1..Cardinality(S), S) : S \in SUBSET (Name \ Cols)}

-----------------------------------------------------------------------------
(* Upload and merge.                                                       *)

\* Mutant: no check that a column without repeated values is being uploaded.
UploadAny(s, u) ==
    /\ ~HasTable
    /\ s # <<>>
    /\ u \subseteq Range(s)
    /\ StoreTable(Extend(pos, s))
    /\ key' = key \cup u
    /\ uniq' = u
    /\ UNCHANGED others

\* The first upload: the form asks for at least one column without repeats.
Upload(s, u) ==
    /\ ~HasTable
    /\ s # <<>>
    /\ u \subseteq Range(s) /\ u # {}
    /\ StoreTable(Extend(pos, s))
    /\ key' = key \cup u
    /\ uniq' = u
    /\ UNCHANGED others

\* A merge whose result keeps every key: u are its columns without repeats,
\* and each column is marked as a key when it is among them.
MergeAccepted(s, u) ==
    /\ HasTable
    /\ key \subseteq u /\ u \subseteq Cols \cup Range(s)
    /\ StoreTable(Extend(pos, s))
    /\ key' = u
    /\ uniq' = u
    /\ UNCHANGED others

\* The check of the columns, in order, fails at the i-th: it lost its key, its
\* type or its categories.  The ones before it have been saved already.
MergeRejected(u, i) ==
    LET done == {c \in Cols : pos[c] < i} IN
    /\ HasTable
    /\ u \subseteq Cols /\ i \in 1..ncols
    /\ key \cap done \subseteq u
    /\ key' = (u \cap done) \cup (key \ done)
    /\ UNCHANGED <<pos, ncols, table, uniq, qbOps, others>>

\* flush_workflow: the query builder is rebuilt before the columns go.
Flush ==
    /\ pos' = [c \in {} |-> 0]
    /\ key' = {}
    /\ ncols' = 0
    /\ table' = <<>>
    /\ uniq' = {}
    /\ qbOps' = ByPosition(pos)
    /\ conds' = [f \in Cond |-> None]
    /\ views' = [v \in View |-> None]

-----------------------------------------------------------------------------
(* The column views.                                                       *)

\* A new column goes in at position i, the ones from there on moving up; its
\* values repeat or not (u).  It is not a key.
Insert(c, i, u) ==
    /\ HasTable
    /\ c \in Name \ Cols
    /\ i \in 1..ncols + 1
    /\ StoreTable(Place(Shift(pos, ncols + 1, i), c, i))
    /\ uniq' = uniq \cup (IF u THEN {c} ELSE {})
    /\ UNCHANGED <<key, others>>

\* column_add: one initial value for every row.
ColumnAdd(c, i, u) == Insert(c, i, u)

\* formula_column_add: a column computed from some others; when the operation
\* fails the row saved for it is deleted again and nothing has changed.
FormulaColumnAdd(c, i, u) == Cols # {} /\ Insert(c, i, u)

\* email tracking: a column of zeroes at the end.
TrackColumnAdd(c, u) ==
    /\ HasTable
    /\ c \in Name \ Cols
    /\ StoreTable(Place(pos, c, ncols + 1))
    /\ uniq' = uniq \cup (IF u THEN {c} ELSE {})
    /\ UNCHANGED <<key, others>>

\* clone_column: saved at the end first, then moved next to the original.
ColumnClone(c, d) ==
    /\ c \in Cols
    /\ d \in Name \ Cols
    /\ StoreTable(Place(Shift(Place(pos, d, ncols + 1), ncols + 1, pos[c] + 1),
                        d, pos[c] + 1))
    /\ key' = key \cup (IF c \in key THEN {d} ELSE {})
    /\ uniq' = uniq \cup (IF c \in uniq THEN {d} ELSE {})
    /\ UNCHANGED others

Rename(S, c, n) == IF c \in S THEN (S \ {c}) \cup {n} ELSE S

\* rename_df_column rewrites the formula; the linked rows are the same rows.
RenameMention(m, c, n) ==
    IF m = None THEN None
    ELSE [vars |-> Rename(m.vars, c, n), cols |-> Rename(m.cols, c, n)]

\* column_edit: name, position and key mark from one form.  The only key
\* cannot be unmarked, and a column with repeated values cannot be marked.
ColumnEdit(c, n, i, isKey) ==
    LET moved == Place(Shift(pos, pos[c], i), c, i)
        marked == IF isKey THEN key \cup {c} ELSE key \ {c} IN
    /\ c \in Cols
    /\ n \in (Name \ Cols) \cup {c}
    /\ i \in 1..ncols
    /\ c \in key /\ ~isKey => Cardinality(key) # 1
    /\ c \notin key /\ isKey => c \in uniq
    /\ StoreTable(RenamedTo(moved, c, n))
    /\ key' = Rename(marked, c, n)
    /\ uniq' = Rename(uniq, c, n)
    /\ conds' = [f \in Cond |-> RenameMention(conds[f], c, n)]
    /\ views' = [v \in View |-> RenameMention(views[v], c, n)]

\* Mutant: the linked columns alone decide.
DoomedByLink(c) == {f \in Cond : conds[f] # None /\ c \in conds[f].cols}

\* column_delete collects the conditions whose formula has the name;
\* workflow_delete_column falls back on the linked columns when there are none.
Doomed(c) ==
    LET named == {f \in Cond : conds[f] # None /\ c \in conds[f].vars}
        linked == {f \in Cond : conds[f] # None /\ c \in conds[f].cols} IN
    IF named # {} THEN named ELSE linked

\* Deleting the row of a column deletes the links to it.
Unlink(m, c) == IF m = None THEN None ELSE [m EXCEPT !.cols = @ \ {c}]

\* Mutant: the views without columns stay.
UnlinkOnly(m, c) == Unlink(m, c)

\* A view with no column left goes too.
UnlinkOrDrop(m, c) ==
    IF m = None \/ m.cols \subseteq {c} THEN None ELSE Unlink(m, c)

\* column_delete with workflow_delete_column: the only key stays.  The query
\* builder is not rebuilt.
ColumnDelete(c) ==
    /\ c \in Cols
    /\ ~(c \in key /\ Cardinality(key) = 1)
    /\ pos' = Drop(Shift(pos, pos[c], ncols + 1), c)
    /\ key' = key \ {c}
    /\ ncols' = ncols - 1
    /\ table' = Without(table, c)
    /\ uniq' = uniq \ {c}
    /\ conds' = [f \in Cond |-> IF f \in Doomed(c) THEN None ELSE Unlink(conds[f], c)]
    /\ views' = [v \in View |-> UnlinkOrDrop(views[v], c)]
    /\ UNCHANGED qbOps

\* Mutant: the two columns exchange places.
MoveToSwap(c, i) ==
    /\ StoreTable([d \in Cols |-> IF d = c THEN i
                                  ELSE IF pos[d] = i THEN pos[c] ELSE pos[d]])
    /\ UNCHANGED <<key, uniq, others>>

\* reposition_column_and_update_df
MoveTo(c, i) ==
    /\ StoreTable(Place(Shift(pos, pos[c], i), c, i))
    /\ UNCHANGED <<key, uniq, others>>

ColumnMovePrev(c) == c \in Cols /\ pos[c] > 1 /\ MoveTo(c, pos[c] - 1)
ColumnMoveNext(c) == c \in Cols /\ pos[c] < ncols /\ MoveTo(c, pos[c] + 1)
ColumnMoveTop(c) == c \in Cols /\ pos[c] > 1 /\ MoveTo(c, 1)
ColumnMoveBottom(c) == c \in Cols /\ pos[c] < ncols /\ MoveTo(c, ncols)

-----------------------------------------------------------------------------
(* Rows.  Adding and changing values may create repeats, though not in the *)
(* keys; deleting a row may remove some.                                   *)

RowCreate(u) ==
    /\ HasTable
    /\ key \subseteq u /\ u \subseteq uniq
    /\ StoreTable(pos)
    /\ uniq' = u
    /\ UNCHANGED <<key, others>>

\* The key fields of the form are read-only.
RowUpdate(u) ==
    /\ HasTable
    /\ u \subseteq Cols /\ u \cap key = uniq \cap key
    /\ uniq' = u
    /\ UNCHANGED <<pos, key, ncols, table, qbOps, others>>

RowDelete(u) ==
    /\ HasTable
    /\ uniq \subseteq u /\ u \subseteq Cols
    /\ uniq' = u
    /\ UNCHANGED <<pos, key, ncols, table, qbOps, others>>

-----------------------------------------------------------------------------
(* Conditions and views: their formulas are made of the names the query    *)
(* builder offers.                                                         *)

Offered == Range(qbOps)

\* save_condition_form saves the formula, counts the rows it selects and then
\* links the columns; the count fails on a name the table does not have.
SaveCondition(f, formula) ==
    LET linked == IF formula \subseteq Cols THEN formula
                  ELSE IF conds[f] = None THEN {} ELSE conds[f].cols IN
    /\ formula \in (SUBSET Offered) \ {{}}
    /\ conds' = [conds EXCEPT ![f] = [vars |-> formula, cols |-> linked]]
    /\ UNCHANGED <<pos, key, ncols, table, uniq, qbOps, views>>

DeleteCondition(f) ==
    /\ conds[f] # None
    /\ conds' = [conds EXCEPT ![f] = None]
    /\ UNCHANGED <<pos, key, ncols, table, uniq, qbOps, views>>

\* clone_condition copies the row, and not the links.
CloneCondition(f, g) ==
    /\ conds[f] # None /\ conds[g] = None
    /\ conds' = [conds EXCEPT ![g] = [conds[f] EXCEPT !.cols = {}]]
    /\ UNCHANGED <<pos, key, ncols, table, uniq, qbOps, views>>

\* save_view_form: the columns shown include a key.
SaveView(v, formula, shown) ==
    /\ HasTable
    /\ formula \subseteq Offered
    /\ shown \subseteq Cols /\ shown \cap key # {}
    /\ views' = [views EXCEPT ![v] = [vars |-> formula, cols |-> shown]]
    /\ UNCHANGED <<pos, key, ncols, table, uniq, qbOps, conds>>

DeleteView(v) ==
    /\ views[v] # None
    /\ views' = [views EXCEPT ![v] = None]
    /\ UNCHANGED <<pos, key, ncols, table, uniq, qbOps, conds>>

CloneView(v, w) ==
    /\ views[v] # None /\ views[w] = None
    /\ views' = [views EXCEPT ![w] = views[v]]
    /\ UNCHANGED <<pos, key, ncols, table, uniq, qbOps, conds>>

-----------------------------------------------------------------------------
DataStep ==
    \/ \E s \in FreshSeqs : \E u \in SUBSET Range(s) : Upload(s, u)
    \/ \E s \in FreshSeqs : \E u \in SUBSET (Cols \cup Range(s)) : MergeAccepted(s, u)
    \/ \E u \in SUBSET Cols, i \in 1..ncols : MergeRejected(u, i)
    \/ Flush
    \/ \E u \in SUBSET uniq : RowCreate(u)
    \/ \E u \in SUBSET Cols : RowUpdate(u) \/ RowDelete(u)

ColumnStep ==
    \/ \E c \in Name, i \in 1..ncols + 1, u \in BOOLEAN :
          ColumnAdd(c, i, u) \/ FormulaColumnAdd(c, i, u)
    \/ \E c \in Name, u \in BOOLEAN : TrackColumnAdd(c, u)
    \/ \E c \in Cols, d \in Name : ColumnClone(c, d)
    \/ \E c \in Cols, n \in Name, i \in 1..ncols, k \in BOOLEAN : ColumnEdit(c, n, i, k)
    \/ \E c \in Cols :
          \/ ColumnDelete(c)
          \/ ColumnMovePrev(c) \/ ColumnMoveNext(c)
          \/ ColumnMoveTop(c) \/ ColumnMoveBottom(c)

MentionStep ==
    \/ \E f \in Cond :
          \/ \E formula \in SUBSET Offered : SaveCondition(f, formula)
          \/ DeleteCondition(f)
          \/ \E g \in Cond : CloneCondition(f, g)
    \/ \E v \in View :
          \/ \E formula \in SUBSET Offered, shown \in SUBSET Cols : SaveView(v, formula, shown)
          \/ DeleteView(v)
          \/ \E w \in View : CloneView(v, w)

Next == DataStep \/ ColumnStep \/ MentionStep

Spec == Init /\ [][Next]_vars

-----------------------------------------------------------------------------
(* Properties.                                                             *)

\* The positions of the columns are 1 to ncols, each taken once: the assertion
\* of the workflow page (WorkflowDetailView.get_context_data).
PositionsConsecutive ==
    /\ ncols = Cardinality(Cols)
    /\ Range(pos) = 1..Cardinality(Cols)

\* The data table has the columns of the workflow, in the order of their
\* positions, and the workflow row their number (check_wf_df).
TableMatchesColumns ==
    /\ ncols = Len(table)
    /\ table = ByPosition(pos)

\* A workflow with data always has a key column, the one every row operation
\* and every merge needs ("There must be at least one column with unique
\* values").
HasKey == HasTable => key # {}

\* Every column marked as a key has a different value in every row: "When a
\* column is marked as Unique, all the values it contains are different".
KeyColumnsUnique == key \subseteq uniq

\* The positions implement an ordered list: each operation on the columns
\* inserts, removes, renames, moves or appends as its name says, and the other
\* columns keep their order (reposition_columns).
Ordered == INSTANCE OrderedTable WITH Item <- Name, order <- ByPosition(pos)

ImplementsOrder == Ordered!Spec

\* No condition mentions a column name that has just disappeared, whether its
\* column was deleted, renamed or flushed ("If a column disappears, the
\* conditions that contain that variable are removed").
NoMentionLeft ==
    [][\A c \in Cols \ Cols', f \in Cond :
          conds'[f] # None => c \notin conds'[f].vars]_vars

\* Every view shows at least one column: deleting columns one by one leaves no
\* view empty (workflow_delete_column).
ViewsShowColumns == \A v \in View : views[v] # None => views[v].cols # {}

=============================================================================
