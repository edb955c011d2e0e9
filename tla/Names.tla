------------------------------- MODULE Names -------------------------------
(***************************************************************************)
(* The names a text can mention.  The text of an action Out mentions       *)
(* columns and attributes of the workflow as {{ name }} and conditions of  *)
(* the action as {% if name %}; when the text is made all three are put in *)
(* one dictionary, so that a name has to belong to only one of them, and   *)
(* the texts have to follow the names when these change.                   *)
(*                                                                         *)
(* The user works in tabs of the browser: a page shows the text of an      *)
(* action or an attribute as it was when the page was opened, and sends    *)
(* the whole text back, or the place of the attribute in the sorted list.  *)
(*                                                                         *)
(* A text is HTML.  In it a name with &, < or > is written escaped by the  *)
(* editor, and as it is by the requests that rename; it is looked up       *)
(* escaped.                                                                *)
(***************************************************************************)
EXTENDS Integers, FiniteSets, Sequences

CONSTANTS
    Name,       \* names, in the order they are sorted in: numbers
    Special,    \* those with & < or >, which HTML escapes
    ColId,      \* ids of Column rows
    Action,     \* actions Out
    CondId,     \* ids of Condition rows of an action
    Copies,     \* of a name: "Copy of ...", "Copy of Copy of ...", and so on
    Tab,        \* tabs of the browser
    MaxMentions,\* bound: mentions in a text
    MaxAttrs,   \* bound: attributes
    MaxGone,    \* bound: mentions given up, by action
    None        \* no such column, condition or page

ASSUME NamesAssumption ==
    /\ Name \subseteq Nat /\ IsFiniteSet(Name) /\ None \notin Name
    /\ Special \subseteq Name
    /\ Copies \in [Name -> Seq(Name)]
    /\ MaxMentions \in Nat /\ MaxAttrs \in Nat /\ MaxGone \in Nat

VARIABLES
    colName,    \* name of each Column row
    attrs,      \* keys of Workflow.attributes
    condName,   \* name of each Condition row, by action
    text,       \* what Action.content mentions, by action
    tab,        \* the page open in each tab
    gone        \* history, by action: mentions that were given up, because what
                \* they mean was deleted, because a renaming could not reach
                \* them, or because they came with a file

vars == <<colName, attrs, condName, text, tab, gone>>

Mention == [form: {"var", "if"}, name: Name, raw: BOOLEAN]
Text == {T \in SUBSET Mention : Cardinality(T) <= MaxMentions}
Closed == [page |-> "none", action |-> None, text |-> {}, index |-> 0]
Page == [page: {"none", "text", "attribute"}, action: Action \cup {None},
         text: Text, index: Nat]

TypeOK ==
    /\ colName \in [ColId -> Name \cup {None}]
    /\ attrs \subseteq Name
    /\ condName \in [Action -> [CondId -> Name \cup {None}]]
    /\ text \in [Action -> Text]
    /\ tab \in [Tab -> Page]
    /\ gone \in [Action -> SUBSET Mention]

Init ==
    /\ colName \in {f \in [ColId -> Name \cup {None}] :
                      \E c \in ColId, n \in Name : f = [d \in ColId |-> IF d = c THEN n ELSE None]}
    /\ attrs = {}
    /\ condName = [a \in Action |-> [k \in CondId |-> None]]
    /\ text = [a \in Action |-> {}]
    /\ tab = [t \in Tab |-> Closed]
    /\ gone = [a \in Action |-> {}]

Columns == {colName[c] : c \in ColId} \ {None}
Conditions(a) == {condName[a][k] : k \in CondId} \ {None}
AllConditions == UNION {Conditions(a) : a \in Action}

-----------------------------------------------------------------------------
(* Mentions.  The name of a raw one is not escaped, although it should be. *)

Escaped(form, n) == [form |-> form, name |-> n, raw |-> FALSE]
Unescaped(form, n) == [form |-> form, name |-> n, raw |-> TRUE]
Written(form, n) == IF n \in Special THEN Unescaped(form, n) ELSE Escaped(form, n)

\* Written as it is, the name is not found; looked for as it is, neither.
Unread(form, n) == {Written(form, n)} \ {Escaped(form, n)}
Missed(form, n) == {Escaped(form, n)} \ {Written(form, n)}

Substitute(T, from, to) == IF from \in T THEN (T \ {from}) \cup {to} ELSE T

\* What the browser makes of a text it shows: what was raw is escaped.
Normal(T) == {Escaped(m.form, m.name) : m \in T}
Raw(T) == {m \in T : m.raw}

\* What evaluate_row_out looks a mention up in.
Defined(a, m) == ~m.raw /\ m.name \in Columns \cup Conditions(a) \cup attrs

\* What the editor offers to insert.
Offered(a) == {Escaped("var", n) : n \in Columns \cup attrs} \cup
              {Escaped("if", n) : n \in Conditions(a)}

\* What the pages of an action show, and all that is mentioned, now or when
\* the text is next opened.
Shown(a, T) == UNION {tab[t].text : t \in {u \in T : tab[u].action = a}}
Mentioned(a) == text[a] \cup Normal(text[a]) \cup Shown(a, Tab)

\* The mentions in L[a], where there are some, are given up.
GiveUp(L) ==
    /\ gone' = [a \in Action |-> gone[a] \cup (L[a] \cap Mentioned(a)')]
    /\ \A a \in Action : Cardinality(gone'[a]) <= MaxGone
Everywhere(S) == [a \in Action |-> S]
In(a, S) == [b \in Action |-> IF b = a THEN S ELSE {}]

-----------------------------------------------------------------------------
(* Texts and the pages that show them.                                     *)

OpenText(t, a) ==
    /\ tab' = [tab EXCEPT ![t] = [Closed EXCEPT !.page = "text", !.action = a,
                                                !.text = Normal(text[a])]]
    /\ UNCHANGED <<colName, attrs, condName, text, gone>>

\* The user inserts a mention, or takes one out.  What is offered was loaded
\* with the page; to insert what has gone since is the same as to have
\* inserted it before it went.
Edit(t, m) ==
    LET T == IF m \in tab[t].text THEN tab[t].text \ {m} ELSE tab[t].text \cup {m} IN
    /\ tab[t].page = "text"
    /\ m \in tab[t].text \cup Offered(tab[t].action)
    /\ T \in Text
    /\ tab' = [tab EXCEPT ![t].text = T]
    /\ UNCHANGED <<colName, attrs, condName, text, gone>>

\* action_out_save_content, edit_action_out, and the forms of conditions and
\* filters that are refused or change no name: whatever the page has.
SaveContent(t) ==
    /\ tab[t].page = "text"
    /\ text' = [text EXCEPT ![tab[t].action] = tab[t].text]
    /\ UNCHANGED <<colName, attrs, condName, tab, gone>>

Close(t) ==
    /\ tab[t].page # "none"
    /\ tab' = [tab EXCEPT ![t] = Closed]
    /\ UNCHANGED <<colName, attrs, condName, text, gone>>

-----------------------------------------------------------------------------
(* Columns: column_add and uploads, column_edit, column_delete, flush.     *)

\* ColumnBasicForm.clean compares a name with those of the columns only.
FreeForColumn(n) == n \notin Columns

ColumnAdd(c, n) ==
    /\ colName[c] = None /\ FreeForColumn(n)
    /\ colName' = [colName EXCEPT ![c] = n]
    /\ UNCHANGED <<attrs, condName, text, tab, gone>>

\* The mentions of a renamed column that stay as they are, in the pages and
\* where the name is not escaped, and those that are not found any more.
LeftByColumn(old, n) ==
    [a \in Action |-> ({Escaped("var", old)} \cap (Shown(a, Tab) \cup Normal(Raw(text[a]))))
                      \cup Unread("var", n)]

\* Mutant: the texts do not follow.
ColumnEditRow(c, n) ==
    LET old == colName[c] IN
    /\ old # None /\ FreeForColumn(n)
    /\ colName' = [colName EXCEPT ![c] = n]
    /\ UNCHANGED <<attrs, condName, text, tab>>
    /\ GiveUp(LeftByColumn(old, n))

\* rename_df_column: every formula and text of the workflow follows.  The old
\* name is looked for escaped, the new one written as it is.
ColumnEdit(c, n) ==
    LET old == colName[c] IN
    /\ old # None /\ FreeForColumn(n)
    /\ colName' = [colName EXCEPT ![c] = n]
    /\ text' = [a \in Action |-> Substitute(text[a], Escaped("var", old), Written("var", n))]
    /\ UNCHANGED <<attrs, condName, tab>>
    /\ GiveUp(LeftByColumn(old, n))

\* Of the conditions in K, by action, no name is left.
Without(K) == [a \in Action |-> [k \in CondId |-> IF k \in K[a] THEN None ELSE condName[a][k]]]
NamesOf(K, a) == {condName[a][k] : k \in K[a]} \ {None}

\* Mutant: the texts follow the column into nothing.
ColumnDeleteTexts(c, used) ==
    LET name == colName[c] IN
    /\ name # None
    /\ Cardinality(Columns) > 1
    /\ colName' = [colName EXCEPT ![c] = None]
    /\ text' = [a \in Action |-> Substitute(text[a], Escaped("var", name), Escaped("var", None))]
    /\ condName' = Without(used)
    /\ UNCHANGED <<attrs, tab, gone>>

\* column_delete: refused for the only key, so that a column is left.  The
\* conditions whose formula mentions it are deleted with it: formulas are not
\* kept here, and these are any.  No text follows, neither what mentions the
\* column nor what mentions the conditions.
ColumnDelete(c, used) ==
    LET name == colName[c] IN
    /\ name # None
    /\ Cardinality(Columns) > 1
    /\ colName' = [colName EXCEPT ![c] = None]
    /\ condName' = Without(used)
    /\ UNCHANGED <<attrs, text, tab>>
    /\ GiveUp([a \in Action |-> {Escaped("var", name)} \cup
                                {Escaped("if", n) : n \in NamesOf(used, a)}])

\* flush_workflow: all columns and all conditions.
Flush ==
    /\ Columns # {}
    /\ colName' = [c \in ColId |-> None]
    /\ condName' = [a \in Action |-> [k \in CondId |-> None]]
    /\ UNCHANGED <<attrs, text, tab>>
    /\ GiveUp([a \in Action |-> {Escaped("var", n) : n \in Columns} \cup
                                {Escaped("if", n) : n \in Conditions(a)}])

-----------------------------------------------------------------------------
(* Attributes: attribute_create, attribute_edit, attribute_delete.         *)

\* sorted(workflow.attributes.keys())[i], from one.
KeyAt(i) == CHOOSE k \in attrs : Cardinality({j \in attrs : j <= k}) = i

\* Mutant: the names of the conditions are not looked at.
FreeForAttributeNoConditions(n, keys) == n \notin keys \cup Columns

FreeForAttribute(n, keys) == n \notin keys \cup Columns \cup AllConditions

AttributeCreate(n) ==
    /\ FreeForAttribute(n, attrs) /\ Cardinality(attrs) < MaxAttrs
    /\ attrs' = attrs \cup {n}
    /\ UNCHANGED <<colName, condName, text, tab, gone>>

OpenAttribute(t, i) ==
    /\ i \in 1..Cardinality(attrs)
    /\ tab' = [tab EXCEPT ![t] = [Closed EXCEPT !.page = "attribute", !.index = i]]
    /\ UNCHANGED <<colName, attrs, condName, text, gone>>

\* The page knows the attribute by its place: the one that has it now gives
\* its place to the name of the form.  No text follows.
AttributeEdit(t, n) ==
    LET key == KeyAt(tab[t].index) IN
    /\ tab[t].page = "attribute" /\ tab[t].index <= Cardinality(attrs)
    /\ FreeForAttribute(n, attrs \ {key})
    /\ attrs' = (attrs \ {key}) \cup {n}
    /\ tab' = [tab EXCEPT ![t] = Closed]
    /\ UNCHANGED <<colName, condName, text>>
    /\ GiveUp(Everywhere(IF n = key THEN {} ELSE {Escaped("var", key)}))

AttributeDelete(t) ==
    LET key == KeyAt(tab[t].index) IN
    /\ tab[t].page = "attribute" /\ tab[t].index <= Cardinality(attrs)
    /\ attrs' = attrs \ {key}
    /\ tab' = [tab EXCEPT ![t] = Closed]
    /\ UNCHANGED <<colName, condName, text>>
    /\ GiveUp(Everywhere({Escaped("var", key)}))

-----------------------------------------------------------------------------
(* Conditions, from the page with the text of their action, which is sent  *)
(* along and saved first: save_condition_form, delete_condition.           *)

\* The name of the condition itself is no obstacle, unless a column or an
\* attribute has it too.
FreeForCondition(a, n, own) == n \notin (Conditions(a) \ {own}) \cup Columns \cup attrs

\* The page is loaded again.
Reload(t, a) == tab' = [tab EXCEPT ![t].text = Normal(text'[a])]

ConditionCreate(t, k, n) ==
    LET a == tab[t].action IN
    /\ tab[t].page = "text" /\ condName[a][k] = None
    /\ FreeForCondition(a, n, None)
    /\ condName' = [condName EXCEPT ![a][k] = n]
    /\ text' = [text EXCEPT ![a] = tab[t].text]
    /\ Reload(t, a)
    /\ UNCHANGED <<colName, attrs, gone>>

\* The mentions of a renamed condition that stay as they are, in other pages
\* and where the name is escaped, and those that are not found any more.
LeftByCondition(t, old, n) ==
    LET a == tab[t].action IN
    In(a, ({Escaped("if", old)} \cap Shown(a, Tab \ {t})) \cup Missed("if", old)
          \cup Unread("if", n))

\* Mutant: the text saved after the substitution, not before.
ConditionEditLate(t, k, n) ==
    LET a == tab[t].action
        old == condName[a][k] IN
    /\ tab[t].page = "text" /\ old \notin {n, None}
    /\ FreeForCondition(a, n, old)
    /\ condName' = [condName EXCEPT ![a][k] = n]
    /\ text' = [text EXCEPT ![a] = tab[t].text]
    /\ Reload(t, a)
    /\ UNCHANGED <<colName, attrs>>
    /\ GiveUp(LeftByCondition(t, old, n))

\* Old and new name are both taken as they are.
ConditionEdit(t, k, n) ==
    LET a == tab[t].action
        old == condName[a][k] IN
    /\ tab[t].page = "text" /\ old \notin {n, None}
    /\ FreeForCondition(a, n, old)
    /\ condName' = [condName EXCEPT ![a][k] = n]
    /\ text' = [text EXCEPT ![a] = Substitute(tab[t].text, Written("if", old), Written("if", n))]
    /\ Reload(t, a)
    /\ UNCHANGED <<colName, attrs>>
    /\ GiveUp(LeftByCondition(t, old, n))

ConditionDelete(t, k) ==
    LET a == tab[t].action IN
    /\ tab[t].page = "text" /\ condName[a][k] # None
    /\ condName' = [condName EXCEPT ![a][k] = None]
    /\ text' = [text EXCEPT ![a] = tab[t].text]
    /\ Reload(t, a)
    /\ UNCHANGED <<colName, attrs>>
    /\ GiveUp(In(a, {Escaped("if", condName[a][k])}))

\* The name with as many "Copy of " as it takes not to be that of another
\* condition of the action.  Columns and attributes are not looked at.
IsNewCopy(a, old, n) ==
    \E i \in DOMAIN Copies[old] :
        /\ n = Copies[old][i] /\ n \notin Conditions(a)
        /\ \A j \in 1..(i - 1) : Copies[old][j] \in Conditions(a)

\* clone.  The script of the page sends the text and goes on without waiting:
\* it is saved or not, and the next page shows it or what was there before.
ConditionClone(t, k, l, n) ==
    LET a == tab[t].action IN
    /\ tab[t].page = "text" /\ condName[a][k] # None /\ condName[a][l] = None
    /\ IsNewCopy(a, condName[a][k], n)
    /\ condName' = [condName EXCEPT ![a][l] = n]
    /\ text' \in {text, [text EXCEPT ![a] = tab[t].text]}
    /\ \/ Reload(t, a)
       \/ tab' = [tab EXCEPT ![t].text = Normal(text[a])]
    /\ UNCHANGED <<colName, attrs, gone>>

-----------------------------------------------------------------------------
(* A file with an action: do_import_action, ActionSelfcontainedSerializer. *)

\* No such action has been made yet.
Unmade(a) ==
    /\ text[a] = {} /\ Conditions(a) = {} /\ gone[a] = {}
    /\ \A t \in Tab : tab[t].action # a

\* The file has a text, and a condition n with a formula on the column u (one
\* condition: a bound).  The column is created if it is missing, unless there
\* is no table.  No name is compared with those of the workflow, and what the
\* text mentions besides may not be there.
ImportAction(a, k, n, u, T) ==
    /\ Unmade(a)
    /\ \/ u \in Columns /\ colName' = colName
       \/ u \notin Columns /\ Columns # {}
          /\ \E c \in ColId : colName[c] = None /\ colName' = [colName EXCEPT ![c] = u]
    /\ condName' = [condName EXCEPT ![a][k] = n]
    /\ text' = [text EXCEPT ![a] = T]
    /\ UNCHANGED <<attrs, tab>>
    /\ GiveUp(In(a, Mention \ (Offered(a) \cup {Escaped("if", n), Escaped("var", u)})))

-----------------------------------------------------------------------------
ColumnStep ==
    \/ \E c \in ColId :
        \/ \E n \in Name : ColumnAdd(c, n) \/ ColumnEdit(c, n)
        \/ \E used \in [Action -> SUBSET CondId] : ColumnDelete(c, used)
    \/ Flush

\* Names that come from a copy or a file.
CopyStep ==
    \/ \E t \in Tab, k, l \in CondId, n \in Name : ConditionClone(t, k, l, n)
    \/ \E a \in Action, k \in CondId, n, u \in Name, T \in Text : ImportAction(a, k, n, u, T)

Next ==
    \/ ColumnStep
    \/ CopyStep
    \/ \E n \in Name : AttributeCreate(n)
    \/ \E t \in Tab :
        \/ \E a \in Action : OpenText(t, a)
        \/ \E m \in Mention : Edit(t, m)
        \/ SaveContent(t) \/ Close(t)
        \/ \E i \in 1..MaxAttrs : OpenAttribute(t, i)
        \/ \E n \in Name : AttributeEdit(t, n)
        \/ AttributeDelete(t)
        \/ \E k \in CondId :
            \/ \E n \in Name : ConditionCreate(t, k, n) \/ ConditionEdit(t, k, n)
            \/ ConditionDelete(t, k)

Spec == Init /\ [][Next]_vars

-----------------------------------------------------------------------------
(* Properties.                                                             *)

\* "Attribute names, column names and condition names cannot overlap"
\* (save_attribute_form).  Not invariant: the names of new and renamed columns
\* are compared with those of other columns only, the names of copies and of
\* files with less or with nothing.
NamesDistinct ==
    /\ Columns \cap attrs = {}
    /\ AllConditions \cap (Columns \cup attrs) = {}

\* Whatever is open in which tab, no form about attributes or conditions makes
\* two names overlap: their checks cover each other, and an overlap has always
\* come from a column, a cloned condition or an imported action
\* (save_attribute_form, save_condition_form, AttributeItemForm.clean).
OverlapFromUnchecked ==
    [][NamesDistinct /\ ~NamesDistinct' => ColumnStep \/ CopyStep]_vars

\* A saved text mentions something that exists, unless what it means was
\* deleted or is an attribute that was renamed, or another page still showed
\* the old name when it was renamed, or the old or new name is one that HTML
\* escapes, or the text came with a file: the texts follow the columns and
\* conditions that are renamed (rename_df_column, Action.rename_variable,
\* save_condition_form).
MentionsDefined ==
    \A a \in Action : \A m \in text[a] : Defined(a, m) \/ m \in gone[a]

\* The columns, attributes and conditions that a text mentions.
Meaning(a) ==
    [columns    |-> {c \in ColId : colName[c] # None /\ Escaped("var", colName[c]) \in text[a]},
     attributes |-> {n \in attrs : Escaped("var", n) \in text[a]},
     conditions |-> {k \in CondId : condName[a][k] # None
                                    /\ Escaped("if", condName[a][k]) \in text[a]}]

\* Where names do not overlap, a text means the same columns, attributes and
\* conditions after a column is renamed, to a name that needs no escape and
\* that no lost mention is waiting for (Action.rename_variable).
RenameKeepsMeaning ==
    [][\A c \in ColId, a \in Action :
         LET new == colName'[c] IN
         /\ NamesDistinct /\ NamesDistinct'
         /\ colName[c] # None /\ new \notin {colName[c], None} \cup Special
         /\ Escaped("var", new) \notin gone[a]
         => Meaning(a)' = Meaning(a)]_vars
=============================================================================
