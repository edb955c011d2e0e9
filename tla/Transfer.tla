------------------------------ MODULE Transfer ------------------------------
(***************************************************************************)
(* Workflows as wholes: created, renamed, flushed, cloned, deleted, and    *)
(* carried to another place in a file, with all their actions or one       *)
(* action at a time.  A clone and an import save one row after another and *)
(* store a table in between; nothing is undone when the server dies, and   *)
(* the half-made workflow is in the list of workflows from its first row   *)
(* on, where another tab of the same user can open, change or delete it.   *)
(*                                                                         *)
(* Of a column the model keeps whether it is a key and which categories it *)
(* has; of a table, its columns in order, those that tell its rows apart,  *)
(* and how many rows; of an action, its columns and its conditions taken   *)
(* as one, with the columns the formula names and those it is linked to;   *)
(* of a view, its columns.  Counts and texts are in Counts and Names, who  *)
(* may open a workflow in WorkflowLock.                                    *)
(***************************************************************************)
EXTENDS Integers, Lists

CONSTANTS
    Column,     \* names of columns
    Title,      \* names of workflows a user types
    Action,     \* names of actions
    Web,        \* server processes
    Start,      \* workflow and table to begin with
    Upload,     \* frames of a first upload
    MaxId,      \* bound: workflows ever made
    MaxRequests,\* bound: requests served
    MaxFiles,   \* bound: files downloaded
    MaxCrashes, \* bound: processes that die
    None

VARIABLES
    wf,         \* rows of workflows, by id, with what belongs to each
    table,      \* tables of data frames, by id
    last,       \* the id given last
    files,      \* exported workflows and actions
    job,        \* the request of each process that is half way
    served,     \* number of requests and of crashes so far
    doubt       \* history: workflows a request was working on when it died
                \* or raised, or when another was writing what it had read

vars == <<wf, table, last, files, job, served, doubt>>

Id == 1..MaxId
Kind == {"none", "text", "number"}
ColumnRow == [name: Column, key: BOOLEAN, cats: Kind]
Size == [nrows: Int, ncols: Int]
Frame == [cols: Seq(Column), uniq: SUBSET Column, rows: Nat]
ActionRow == [columns: SUBSET Column, names: SUBSET Column, links: SUBSET Column]

\* sure is history: what the workflow was imported from, and what it is a
\* clone of, was in no doubt when it was exported.
Workflow == [name: Title \X Nat, size: Size, stored: BOOLEAN, cols: Seq(ColumnRow),
             acts: [Action -> ActionRow \cup {None}], views: SUBSET ((SUBSET Column) \ {{}}),
             sure: BOOLEAN]
WorkflowFile == [cols: Seq(ColumnRow), frame: Frame \cup {None}, size: Size,
                 acts: [Action -> ActionRow \cup {None}], views: SUBSET ((SUBSET Column) \ {{}}),
                 sure: BOOLEAN]
ActionFile == [act: ActionRow, used: Seq(ColumnRow)]

Bare == [columns |-> {}, names |-> {}, links |-> {}]
NoActions == [a \in Action |-> None]
Idle == [pc |-> "idle", src |-> None, dst |-> None, held |-> None]
Empty(name) == [name |-> name, size |-> [nrows |-> 0, ncols |-> 0], stored |-> FALSE,
                cols |-> <<>>, acts |-> NoActions, views |-> {}, sure |-> TRUE]

TypeOK ==
    /\ \A i \in Id : wf[i] = None \/ wf[i] \in Workflow
    /\ \A i \in Id : table[i] = None \/ table[i] \in Frame
    /\ last \in 0..MaxId
    /\ \A f \in files : f \in WorkflowFile \/ f \in ActionFile
    /\ \A w \in Web :
         /\ job[w].pc \in {"idle", "clone", "cloneactions", "clonesave", "columns",
                           "frame", "actions", "check", "addcolumns", "conditions"}
         /\ job[w].dst \in Id \cup {None}
    /\ doubt \subseteq Id

Init ==
    /\ \E s \in Start :
         /\ wf = [i \in Id |-> IF i = 1 THEN s.wf ELSE None]
         /\ table = [i \in Id |-> IF i = 1 THEN s.table ELSE None]
    /\ last = 1
    /\ files = {}
    /\ job = [w \in Web |-> Idle]
    /\ served = [requests |-> 0, crashes |-> 0]
    /\ doubt = {}

-----------------------------------------------------------------------------
(* Columns and tables.                                                     *)

Names(cols) == [p \in DOMAIN cols |-> cols[p].name]
Has(cols) == Range(Names(cols))

\* The Column rows of a frame that is stored: a name without a row gets one,
\* after the others, a key if its values are all different.
Reconciled(cols, df) ==
    LET new == Those(df.cols, Range(df.cols) \ Has(cols))
    IN cols \o [p \in DOMAIN new |->
                  [name |-> new[p], key |-> new[p] \in df.uniq, cats |-> "none"]]

\* data_frame[[x.name for x in wf_columns]] needs every column.
CanStore(cols, df) == df # None /\ Has(cols) \subseteq Range(df.cols)

\* store_table_in_db: the columns, the table in their order, the numbers.
StoreRow(row, df) ==
    LET cols == Reconciled(row.cols, df)
    IN [row EXCEPT !.cols = cols, !.stored = TRUE,
                   !.size = [nrows |-> df.rows, ncols |-> Len(cols)]]
StoreTable(row, df) == [df EXCEPT !.cols = Names(Reconciled(row.cols, df))]

\* check_wf_df: the numbers and the names agree with the table.
Sound(row, df) ==
    LET d == IF df = None THEN [cols |-> <<>>, rows |-> 0] ELSE df
    IN /\ row.size = [nrows |-> d.rows, ncols |-> Len(d.cols)]
       /\ Names(row.cols) = d.cols

\* What a workflow starts with agrees with itself, and a frame that is
\* uploaded has no name twice.
ASSUME TransferAssumption ==
    /\ None \notin Id \cup Workflow \cup Frame \cup ActionRow
    /\ {MaxId, MaxRequests, MaxFiles, MaxCrashes} \subseteq Nat /\ MaxId >= 1
    /\ \A s \in Start :
         /\ s.wf \in Workflow /\ s.table \in Frame \cup {None}
         /\ Sound(s.wf, s.table) /\ IsInjective(Names(s.wf.cols))
         /\ \A p \in DOMAIN s.wf.cols : s.wf.cols[p].key => s.wf.cols[p].name \in s.table.uniq
         /\ \A a \in Action : s.wf.acts[a] # None => s.wf.acts[a].columns \subseteq Has(s.wf.cols)
    /\ \A df \in Upload : df \in Frame /\ IsInjective(df.cols)

\* The name exists: for an import, a name of the user's own workflows.
Taken(name) == \E i \in Id : wf[i] # None /\ wf[i].name = name

\* 'Copy of ' before the name as often as needed.
CopyName(name) ==
    LET n == CHOOSE n \in 1..MaxId : /\ ~Taken(<<name[1], name[2] + n>>)
                                     /\ \A m \in 1..(n - 1) : Taken(<<name[1], name[2] + m>>)
    IN <<name[1], name[2] + n>>

-----------------------------------------------------------------------------
(* Requests.                                                               *)

Serve(w) ==
    /\ job[w].pc = "idle"
    /\ served.requests < MaxRequests
    /\ served' = [served EXCEPT !.requests = @ + 1]

\* A workflow that a clone or an import is still working on.
Working(i) == \E w \in Web : job[w].dst = i

\* What the other requests have in hand when workflow i is written.
Disturbs(w, i) ==
    {job[o].dst : o \in {o \in Web \ {w} : job[o].pc # "idle" /\ i \in {job[o].src, job[o].dst}}}

\* The row and the table of workflow i as one request leaves them.
Write(w, i, row, df) ==
    /\ wf' = [wf EXCEPT ![i] = row]
    /\ table' = [table EXCEPT ![i] = df]

Begin(w, pc, src, dst, held) ==
    job' = [job EXCEPT ![w] = [pc |-> pc, src |-> src, dst |-> dst, held |-> held]]
Continue(w, pc) == job' = [job EXCEPT ![w].pc = pc]
End(w) == job' = [job EXCEPT ![w] = Idle]

\* An exception that nothing below undoes: what was saved stays.
Raise(w) == End(w) /\ doubt' = doubt \cup {job[w].dst} /\ UNCHANGED <<wf, table>>

Disturb(w, i) == doubt' = doubt \cup Disturbs(w, i)

Crash(w) ==
    /\ job[w].pc # "idle"
    /\ served.crashes < MaxCrashes
    /\ served' = [served EXCEPT !.crashes = @ + 1]
    /\ Raise(w)
    /\ UNCHANGED <<last, files>>

-----------------------------------------------------------------------------
(* One workflow at a time.                                                 *)

\* save_workflow_form: the database has one name once for every user.
Create(w, t) ==
    /\ Serve(w) /\ last < MaxId
    /\ ~Taken(<<t, 0>>)
    /\ last' = last + 1
    /\ wf' = [wf EXCEPT ![last'] = Empty(<<t, 0>>)]
    /\ UNCHANGED <<table, files, job, doubt>>

Rename(w, i, t) ==
    /\ Serve(w) /\ wf[i] # None
    /\ ~Taken(<<t, 0>>)
    /\ Write(w, i, [wf[i] EXCEPT !.name = <<t, 0>>], table[i])
    /\ Disturb(w, i)
    /\ UNCHANGED <<last, files, job>>

\* A first upload, or a table put through the API.
FirstUpload(w, i, df) ==
    /\ Serve(w) /\ wf[i] # None /\ wf[i].cols = <<>>
    /\ Write(w, i, StoreRow(wf[i], df), StoreTable(wf[i], df))
    /\ Disturb(w, i)
    /\ UNCHANGED <<last, files, job>>

\* Mutant: a view of that column alone stays, and shows nothing.
ViewsKeepEmpty(views, c) == {v \ {c} : v \in views}

\* A view that showed only the column goes.
ViewsWithout(views, c) == {v \ {c} : v \in views} \ {{}}

\* column_delete, for a column that is not the only key.  The links go with
\* the Column row, and the conditions whose formula names it are deleted.
ColumnDelete(w, i, c) ==
    /\ Serve(w) /\ wf[i] # None /\ table[i] # None
    /\ \E p \in DOMAIN wf[i].cols :
         /\ wf[i].cols[p].name = c
         /\ \E q \in DOMAIN wf[i].cols : q # p /\ wf[i].cols[q].key
         /\ LET Left(a) ==
                  IF a = None THEN None
                  ELSE [a EXCEPT !.columns = @ \ {c},
                                 !.names = IF c \in @ THEN {} ELSE @,
                                 !.links = IF c \in a.names THEN {} ELSE @ \ {c}]
            IN Write(w, i,
                 [wf[i] EXCEPT !.cols = Without(@, wf[i].cols[p]),
                               !.size.ncols = @ - 1,
                               !.acts = [a \in Action |-> Left(@[a])],
                               !.views = ViewsWithout(@, c)],
                 [table[i] EXCEPT !.cols = Without(@, c), !.uniq = @ \ {c}])
    /\ Disturb(w, i)
    /\ UNCHANGED <<last, files, job>>

\* flush_workflow: the actions stay, without columns and conditions.
Flush(w, i) ==
    /\ Serve(w) /\ wf[i] # None /\ table[i] # None
    /\ Write(w, i, [Empty(wf[i].name) EXCEPT !.acts =
            [a \in Action |-> IF wf[i].acts[a] = None THEN None ELSE Bare]], None)
    /\ Disturb(w, i)
    /\ UNCHANGED <<last, files, job>>

Delete(w, i) ==
    /\ Serve(w) /\ wf[i] # None
    /\ Write(w, i, None, None)
    /\ Disturb(w, i)
    /\ UNCHANGED <<last, files, job>>

-----------------------------------------------------------------------------
(* clone: the new row is a copy of the old one, saved again at the end with *)
(* what it had in the beginning.                                           *)

Clone(w, i) ==
    /\ Serve(w) /\ wf[i] # None /\ last < MaxId
    /\ last' = last + 1
    /\ LET row == [wf[i] EXCEPT !.name = CopyName(@), !.cols = <<>>,
                                !.acts = NoActions, !.views = {}]
       IN /\ wf' = [wf EXCEPT ![last'] = row]
          /\ Begin(w, "clone", i, last', row)
    /\ doubt' = IF i \in doubt \/ Working(i) THEN doubt \cup {last'} ELSE doubt
    /\ UNCHANGED <<table, files>>

\* The frame of the workflow becomes that of the clone; without one, or when
\* either workflow has been deleted, the request fails here.
CloneTable(w) ==
    LET i == job[w].src  n == job[w].dst
    IN /\ job[w].pc = "clone"
       /\ IF wf[i] # None /\ wf[n] # None /\ CanStore(wf[n].cols, table[i])
          THEN /\ Write(w, n, StoreRow(wf[n], table[i]), StoreTable(wf[n], table[i]))
               /\ Disturb(w, n)
               /\ Continue(w, "cloneactions")
          ELSE Raise(w)
       /\ UNCHANGED <<last, files, served>>

\* Mutant: the columns of an action stay those of the workflow cloned.
CopyActionNoColumns(a, cols) ==
    IF a = None THEN None ELSE [columns |-> {}, names |-> a.names, links |-> {}]

\* clone_action: the columns by their names, the conditions without links.
CopyAction(a, cols) ==
    IF a = None THEN None
    ELSE [columns |-> a.columns \cap Has(cols), names |-> a.names, links |-> {}]

CloneActions(w) ==
    LET i == job[w].src  n == job[w].dst
        acts == IF wf[i] = None THEN NoActions ELSE wf[i].acts
    IN /\ job[w].pc = "cloneactions"
       /\ IF acts = NoActions \/ wf[n] = None
          THEN IF acts = NoActions
               THEN Continue(w, "clonesave") /\ UNCHANGED <<wf, table, doubt>>
               ELSE Raise(w)
          ELSE /\ Write(w, n, [wf[n] EXCEPT !.acts =
                    [a \in Action |-> IF acts[a] = None THEN @[a]
                                      ELSE CopyAction(acts[a], wf[n].cols)]], table[n])
               /\ Disturb(w, n)
               /\ Continue(w, "clonesave")
       /\ UNCHANGED <<last, files, served>>

\* workflow_new.save() writes every field of the row, and inserts the row
\* again when somebody has deleted it; but another may have the name by now.
CloneSave(w) ==
    LET n == job[w].dst  held == job[w].held
    IN /\ job[w].pc = "clonesave"
       /\ IF \E j \in Id \ {n} : wf[j] # None /\ wf[j].name = held.name THEN Raise(w)
          ELSE /\ Write(w, n, IF wf[n] = None THEN held
                              ELSE [wf[n] EXCEPT !.name = held.name, !.size = held.size,
                                                 !.stored = held.stored], table[n])
               /\ Disturb(w, n)
               /\ End(w)
       /\ UNCHANGED <<last, files, served>>

CloneStep(w) == CloneTable(w) \/ CloneActions(w) \/ CloneSave(w)

-----------------------------------------------------------------------------
(* Export, and import of a workflow.                                       *)

\* The table is exported when the row says there is one.
Export(w, i, chosen) ==
    /\ Serve(w) /\ wf[i] # None /\ Cardinality(files) < MaxFiles
    /\ files' = files \cup {[cols |-> wf[i].cols, size |-> wf[i].size, views |-> wf[i].views,
                             frame |-> IF wf[i].stored THEN table[i] ELSE None,
                             acts |-> [a \in Action |->
                                         IF a \in chosen THEN wf[i].acts[a] ELSE None],
                             sure |-> wf[i].sure /\ i \notin doubt /\ ~Working(i)]}
    /\ UNCHANGED <<wf, table, last, job, doubt>>

\* A file whose frame is null is refused by the serializer, before anything
\* is saved (no action here); otherwise the row comes first.
Import(w, f, t) ==
    /\ Serve(w) /\ last < MaxId
    /\ ~Taken(<<t, 0>>)
    /\ f.frame # None
    /\ last' = last + 1
    /\ wf' = [wf EXCEPT ![last'] = [Empty(<<t, 0>>) EXCEPT !.sure = f.sure]]
    /\ Begin(w, "columns", None, last', f)
    /\ UNCHANGED <<table, files, doubt>>

\* Categories are stripped as texts: those of a number raise.
Strips(col) == col.cats # "number"

\* ColumnSerializer.create, one column after another until one raises.
Created(cols) ==
    IF \A p \in DOMAIN cols : Strips(cols[p]) THEN cols
    ELSE SubSeq(cols, 1, (CHOOSE p \in DOMAIN cols :
                            /\ ~Strips(cols[p])
                            /\ \A q \in 1..(p - 1) : Strips(cols[q])) - 1)

ImportColumns(w) ==
    LET n == job[w].dst  f == job[w].held
    IN /\ job[w].pc = "columns"
       /\ \/ /\ wf[n] # None /\ Created(f.cols) = f.cols
             /\ Write(w, n, [wf[n] EXCEPT !.cols = f.cols], table[n])
             /\ Disturb(w, n)
             /\ Continue(w, "frame")
          \/ /\ wf[n] # None /\ Created(f.cols) # f.cols
             /\ Write(w, n, [wf[n] EXCEPT !.cols = Created(f.cols)], table[n])
             /\ doubt' = doubt \cup {n}
             /\ End(w)
          \/ wf[n] = None /\ Raise(w)
       /\ UNCHANGED <<last, files, served>>

\* The frame is stored, then the numbers of the file are saved in the row.
ImportFrame(w) ==
    LET n == job[w].dst  f == job[w].held
    IN /\ job[w].pc = "frame"
       /\ IF wf[n] # None /\ CanStore(wf[n].cols, f.frame)
          THEN /\ Write(w, n, [StoreRow(wf[n], f.frame) EXCEPT !.size = f.size],
                        StoreTable(wf[n], f.frame))
               /\ Disturb(w, n)
               /\ Continue(w, "actions")
          ELSE Raise(w)
       /\ UNCHANGED <<last, files, served>>

\* Mutant: a condition with links loses them.
LinkUnlinked(a, cols) ==
    [a EXCEPT !.links = IF @ = {} THEN a.names \cap Has(cols) ELSE {}]

\* A condition that came without links is linked to what its formula names.
Link(a, cols) == [a EXCEPT !.links = IF @ = {} THEN a.names \cap Has(cols) ELSE @]

\* Columns are looked up by name, and the lookup raises for one that is gone.
CanLink(a, cols) == a.columns \cup a.links \subseteq Has(cols)

\* ActionSerializer.create and ViewSerializer.create.  (The actions saved
\* before a name raised are left out: the workflow is in doubt anyway.)
ImportActions(w) ==
    LET n == job[w].dst  f == job[w].held
        all == {a \in Action : f.acts[a] # None}
    IN /\ job[w].pc = "actions"
       /\ IF /\ wf[n] # None
             /\ \A a \in all : CanLink(f.acts[a], wf[n].cols)
             /\ UNION f.views \subseteq Has(wf[n].cols)
          THEN /\ Write(w, n,
                    [wf[n] EXCEPT !.acts = [a \in Action |->
                        IF a \in all THEN Link(f.acts[a], wf[n].cols) ELSE @[a]],
                                  !.views = @ \cup f.views], table[n])
               /\ Disturb(w, n)
               /\ Continue(w, "check")
          ELSE Raise(w)
       /\ UNCHANGED <<last, files, served>>

\* Mutant: the structure is not checked.
ImportUnchecked(w) ==
    /\ job[w].pc = "check"
    /\ End(w)
    /\ UNCHANGED <<wf, table, last, files, served, doubt>>

\* The structure is checked last, on the row as this request knows it; a
\* workflow that fails is deleted, and its table stays.
ImportCheck(w) ==
    LET n == job[w].dst  f == job[w].held
    IN /\ job[w].pc = "check"
       /\ \/ /\ wf[n] # None /\ Sound([wf[n] EXCEPT !.size = f.size], table[n])
             /\ End(w)
             /\ UNCHANGED <<wf, table, doubt>>
          \/ /\ wf[n] # None /\ ~Sound([wf[n] EXCEPT !.size = f.size], table[n])
             /\ Write(w, n, None, table[n])
             /\ Disturb(w, n)
             /\ End(w)
          \/ wf[n] = None /\ Raise(w)
       /\ UNCHANGED <<last, files, served>>

ImportStep(w) ==
    ImportColumns(w) \/ ImportFrame(w) \/ ImportActions(w) \/ ImportCheck(w)

-----------------------------------------------------------------------------
(* Export and import of one action.                                        *)

\* Action.used_columns: of the links of its conditions, and its own.
ExportAction(w, i, a) ==
    /\ Serve(w) /\ wf[i] # None /\ wf[i].acts[a] # None
    /\ Cardinality(files) < MaxFiles
    /\ LET act == wf[i].acts[a]
           used == {c \in Range(wf[i].cols) : c.name \in act.columns \cup act.links}
       IN files' = files \cup {[act |-> act, used |-> Those(wf[i].cols, used)]}
    /\ UNCHANGED <<wf, table, last, job, doubt>>

\* Mutant: a key that is not there is created like the rest.
AdmitsKeys(cols, used) ==
    \A p \in DOMAIN used : used[p].name \in Has(cols) => \E q \in DOMAIN cols : cols[q] = used[p]

\* A column of the file is the same here, or new and no key.
Admits(cols, used) ==
    \A p \in DOMAIN used :
        IF used[p].name \in Has(cols)
        THEN \E q \in DOMAIN cols : cols[q] = used[p]
        ELSE ~used[p].key

\* New columns of the file, in the order of their positions.
Fresh(cols, used) == Those(used, {c \in Range(used) : c.name \notin Has(cols)})

\* The action is saved, then the new columns, up to one that raises, in which
\* case nothing is undone.  Without a table both would be deleted again.
ImportAction(w, i, f, a) ==
    LET fresh == Fresh(wf[i].cols, f.used)
        made == Created(fresh)
    IN /\ Serve(w) /\ wf[i] # None /\ wf[i].acts[a] = None
       /\ Admits(wf[i].cols, f.used)
       /\ fresh = <<>> \/ made # fresh \/ table[i] # None
       /\ Write(w, i, [wf[i] EXCEPT !.acts[a] = Bare, !.cols = @ \o made], table[i])
       /\ IF made # fresh
          THEN doubt' = doubt \cup Disturbs(w, i) \cup {i} /\ UNCHANGED job
          ELSE /\ Disturb(w, i)
               /\ Begin(w, IF fresh = <<>> THEN "conditions" ELSE "addcolumns", a, i,
                        [act |-> f.act, fresh |-> Names(fresh)])
       /\ UNCHANGED <<last, files>>

\* data_frame_add_column for each: an empty value in every row.
Widened(df, new) ==
    LET more == Those(new, Range(new) \ Range(df.cols))
    IN [df EXCEPT !.cols = @ \o more,
                  !.uniq = IF df.rows < 2 THEN @ \cup Range(more) ELSE @ \ Range(new)]

\* The Column rows and the action of a failed import are deleted.
Undone(row, new, a) ==
    [row EXCEPT !.cols = Those(@, {c \in Range(@) : c.name \notin Range(new)}),
                !.acts[a] = None]

\* The new columns enter the frame, which is stored; a failure is undone.
AddColumns(w) ==
    LET i == job[w].dst
        new == job[w].held.fresh
        df == IF table[i] = None THEN None ELSE Widened(table[i], new)
    IN /\ job[w].pc = "addcolumns"
       /\ \/ /\ wf[i] # None /\ CanStore(wf[i].cols, df)
             /\ Write(w, i, StoreRow(wf[i], df), StoreTable(wf[i], df))
             /\ Disturb(w, i)
             /\ Continue(w, "conditions")
          \/ /\ wf[i] # None /\ ~CanStore(wf[i].cols, df)
             /\ Write(w, i, Undone(wf[i], new, job[w].src), table[i])
             /\ Disturb(w, i)
             /\ End(w)
          \/ wf[i] = None /\ Raise(w)
       /\ UNCHANGED <<last, files, served>>

\* The conditions and the columns of the action; a name that is gone raises
\* (what was saved before it is left out: the workflow is in doubt anyway).
ImportConditions(w) ==
    LET i == job[w].dst  a == job[w].src  act == job[w].held.act
    IN /\ job[w].pc = "conditions"
       /\ IF wf[i] # None /\ wf[i].acts[a] # None /\ CanLink(act, wf[i].cols)
          THEN /\ Write(w, i, [wf[i] EXCEPT !.acts[a] = Link(act, wf[i].cols)], table[i])
               /\ Disturb(w, i)
               /\ End(w)
          ELSE Raise(w)
       /\ UNCHANGED <<last, files, served>>

-----------------------------------------------------------------------------
Owner(w) ==
    \/ \E t \in Title :
         \/ Create(w, t)
         \/ \E i \in Id : Rename(w, i, t)
         \/ \E f \in files \cap WorkflowFile : Import(w, f, t)
    \/ \E i \in Id :
         \/ \E df \in Upload : FirstUpload(w, i, df)
         \/ \E c \in Column : ColumnDelete(w, i, c)
         \/ Flush(w, i) \/ Delete(w, i) \/ Clone(w, i)
         \/ \E chosen \in SUBSET Action : Export(w, i, chosen)
         \/ \E a \in Action :
              \/ ExportAction(w, i, a)
              \/ \E f \in files \cap ActionFile : ImportAction(w, i, f, a)

Next ==
    \E w \in Web :
        \/ Owner(w) \/ CloneStep(w) \/ ImportStep(w)
        \/ AddColumns(w) \/ ImportConditions(w)
        \/ Crash(w)

Spec == Init /\ [][Next]_vars

-----------------------------------------------------------------------------
(* Properties.                                                             *)

\* The row of every workflow agrees with its table on the numbers of rows and
\* columns, on the names and on their order (check_wf_df): a clone and an
\* import leave anything else only when they died, raised, or raced another
\* request.
StructureSound ==
    \A i \in Id : wf[i] # None /\ ~Working(i) /\ i \notin doubt => Sound(wf[i], table[i])

\* The keys of such a workflow tell its rows apart, in clones and in imports
\* too, and after an action has brought columns of its own.  An import takes
\* the marks of the file as they are: they are right if they were when the
\* file was made.
KeysDistinct ==
    \A i \in Id :
        wf[i] # None /\ table[i] # None /\ wf[i].sure /\ ~Working(i) /\ i \notin doubt =>
        \A p \in DOMAIN wf[i].cols : wf[i].cols[p].key => wf[i].cols[p].name \in table[i].uniq

\* A clone that nothing disturbed has the table of the workflow, its columns
\* in the same order, and its actions with their columns and formulas:
\* "duplicating the data, actions and conditions of the current workflow".
SameAction(a, b) ==
    IF a = None \/ b = None THEN a = b ELSE a.columns = b.columns /\ a.names = b.names
CloneIsCopy ==
    [][\A w \in Web :
         job[w].pc = "clonesave" /\ job'[w].pc = "idle" /\ job[w].dst \notin doubt' =>
            LET i == job[w].src  n == job[w].dst
            IN /\ table'[n] = table[i]
               /\ Names(wf'[n].cols) = Names(wf[i].cols)
               /\ \A a \in Action : SameAction(wf[i].acts[a], wf'[n].acts[a])]_vars

\* An import that nothing disturbed ends with the workflow of the file: its
\* columns, keys and categories, table, views, and the actions with the links
\* of their conditions.  A file that does not agree with itself ends in a
\* workflow that does, or in none.
Restored(a, b) ==
    IF a = None \/ b = None THEN a = b
    ELSE a.columns = b.columns /\ a.names = b.names /\ a.links \in {b.links, {}}
ImportRestores ==
    [][\A w \in Web :
         job[w].pc = "check" /\ job'[w].pc = "idle" /\ job[w].dst \notin doubt' =>
            LET f == job[w].held  n == job[w].dst
            IN IF Sound(f, f.frame)
               THEN /\ wf'[n] # None
                    /\ wf'[n].cols = f.cols /\ wf'[n].views = f.views
                    /\ table'[n] = f.frame
                    /\ \A a \in Action : Restored(f.acts[a], wf'[n].acts[a])
               ELSE wf'[n] = None \/ Sound(wf'[n], table'[n])]_vars

\* What the documentation promises of a downloaded file, "You may take this
\* file and import back the workflow": an import of a workflow that was sound
\* when it was exported does not fail on the file.
ExportsImport ==
    [][\A w \in Web :
         job[w].pc = "columns" /\ job'[w].pc = "idle" /\ served' = served =>
            wf[job[w].dst] = None]_vars
=============================================================================
