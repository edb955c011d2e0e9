------------------------------ MODULE Tracking ------------------------------
(***************************************************************************)
(* The data frame under several requests at once.  Every operation on the  *)
(* frame loads the whole table in memory, changes its copy and stores it   *)
(* back, and nothing is locked between the two: the requests of the owner  *)
(* of the workflow (a column or a row added, changed or deleted, an action *)
(* that sends emails with read tracking) run next to the requests for the  *)
(* images in those emails, which come from anybody at any time and take no *)
(* lock on the workflow at all.                                            *)
(*                                                                         *)
(* Columns are either the ones that count the reads of an email, known by  *)
(* the number in their name EmailRead_n, or others.  Of a row the table    *)
(* keeps its key and the counters.  The positions of the columns belong to *)
(* module Columns, the conditions to module Counts.                        *)
(***************************************************************************)
EXTENDS Integers, FiniteSets

CONSTANTS
    Row,        \* values of the key; each is the address of one recipient
    Track,      \* numbers n for EmailRead_n: a bound on the names tried
    Other,      \* names of the other columns
    Web,        \* server processes, each serving one request at a time
    MaxRequests,\* bound: requests served
    MaxCrashes, \* bound: server processes that die
    None        \* no column or row

ASSUME TrackingAssumption ==
    /\ Track \subseteq Nat /\ Track \cap Other = {}
    /\ IsFiniteSet(Row) /\ IsFiniteSet(Track) /\ IsFiniteSet(Other)
    /\ MaxRequests \in Nat /\ MaxCrashes \in Nat

VARIABLES
    colRows,    \* names with a Column row
    wf,         \* Workflow.ncols and Workflow.nrows
    table,      \* the table of the data frame: its columns and rows
    mails,      \* <<recipient, n>> of the images sent out
    req,        \* the request each server process is serving
    served,     \* number of requests and of crashes so far
    reads,      \* history: images answered, by recipient and column
    base,       \* history: the reads before the counter was created
    sound       \* history: no request has failed half way, or has written
                \* after another one changed what it had read

vars == <<colRows, wf, table, mails, req, served, reads, base, sound>>

NaN == -1
Col == Track \cup Other
Zeros == [t \in Track |-> 0]
Record == [id: Row, n: [Track -> Nat \cup {NaN}]]
Frame == [cols: SUBSET Col, rows: SUBSET Record]
Size == [ncols: Int, nrows: Int]
Request == [pc: {"idle", "form", "column", "count", "reconcile", "create",
                 "clear", "fill", "save", "drop", "delete", "deleterow", "size"},
            op: {"none", "image", "mail", "columnadd", "rowcreate",
                 "rowupdate", "columndelete", "rowdelete"},
            arg: Col \cup Row \cup {None},
            frame: Frame, size: Size, todo: SUBSET Col, fresh: BOOLEAN]

Idle == [pc |-> "idle", op |-> "none", arg |-> None,
         frame |-> [cols |-> {}, rows |-> {}],
         size |-> [ncols |-> 0, nrows |-> 0], todo |-> {}, fresh |-> TRUE]

TypeOK ==
    /\ colRows \subseteq Col
    /\ wf \in Size
    /\ table \in Frame
    /\ mails \subseteq Row \X Track
    /\ req \in [Web -> Request]
    /\ served \in [requests: 0..MaxRequests, crashes: 0..MaxCrashes]
    /\ reads \in [Row -> [Track -> Nat]]
    /\ base \in [Row -> [Track -> Nat]]
    /\ sound \in BOOLEAN

\* A workflow with one ordinary column and some of the rows.
Init ==
    /\ \E c \in Other, R \in (SUBSET Row) \ {{}} :
         /\ colRows = {c}
         /\ wf = [ncols |-> 1, nrows |-> Cardinality(R)]
         /\ table = [cols |-> {c}, rows |-> [id: R, n: {Zeros}]]
    /\ mails = {}
    /\ req = [w \in Web |-> Idle]
    /\ served = [requests |-> 0, crashes |-> 0]
    /\ reads = [r \in Row |-> Zeros]
    /\ base = [r \in Row |-> Zeros]
    /\ sound = TRUE

-----------------------------------------------------------------------------
(* Frames.                                                                 *)

Ids == {rec.id : rec \in table.rows}

\* The rows with the counters of T set to v.
SetAll(rows, T, v) ==
    {[rec EXCEPT !.n = [t \in Track |-> IF t \in T THEN v ELSE @[t]]] :
        rec \in rows}

\* Only the columns of C: the counters that go are reset.
Project(rows, C) == SetAll(rows, Track \ C, 0)

\* Mutant: down instead of up.
PlusDown(v) == v - 1

Plus(v) == IF v = NaN THEN NaN ELSE v + 1

\* Mutant: every row of the frame, without the mask.
BumpAll(rows, r, t) == {[rec EXCEPT !.n[t] = Plus(@)] : rec \in rows}

\* Mutant: read or not, instead of how often.
BumpOnce(rows, r, t) ==
    {IF rec.id = r THEN [rec EXCEPT !.n[t] = 1] ELSE rec : rec \in rows}

\* data_frame.loc[data_frame[column_to] == msg_to, track_col_name] += 1
Bump(rows, r, t) ==
    {IF rec.id = r THEN [rec EXCEPT !.n[t] = Plus(@)] ELSE rec : rec \in rows}

-----------------------------------------------------------------------------
(* Requests: how they start, write and end.                                *)

Arrive(w, new) ==
    /\ req[w].pc = "idle"
    /\ served.requests < MaxRequests
    /\ served' = [served EXCEPT !.requests = @ + 1]
    /\ req' = [req EXCEPT ![w] = new]

\* w goes on as new, having changed what the others may have read.
Write(w, new) ==
    /\ req' = [v \in Web |-> IF v = w THEN new
                             ELSE [req[v] EXCEPT !.fresh = (req[v].pc = "idle")]]
    /\ sound' = (sound /\ req[w].fresh)

\* An exception: what has been done stays done.
Fail(w) ==
    /\ req' = [req EXCEPT ![w] = Idle]
    /\ sound' = FALSE
    /\ UNCHANGED <<colRows, wf, table, mails, served, reads, base>>

\* w goes on as new, having changed nothing.
Continue(w, new) ==
    /\ req' = [req EXCEPT ![w] = new]
    /\ UNCHANGED <<colRows, wf, table, mails, served, reads, base, sound>>

Crash(w) ==
    /\ req[w].pc \notin {"idle", "form"}
    /\ served.crashes < MaxCrashes
    /\ served' = [served EXCEPT !.crashes = @ + 1]
    /\ req' = [req EXCEPT ![w] = Idle]
    /\ sound' = FALSE
    /\ UNCHANGED <<colRows, wf, table, mails, reads, base>>

-----------------------------------------------------------------------------
(* store_table_in_db, at the end of the requests that store a frame.       *)

\* The names with a Column row are read once; the rest of the columns of the
\* frame get one.
Reconcile(w) ==
    LET new == req[w].frame.cols \ colRows IN
    /\ req[w].pc = "reconcile"
    /\ Continue(w, [req[w] EXCEPT !.todo = new,
                                  !.pc = IF new = {} THEN "clear" ELSE "create"])

\* Another request may have created it in the meantime.
CreateColumn(w, c) ==
    LET rest == req[w].todo \ {c} IN
    /\ req[w].pc = "create" /\ c \in req[w].todo
    /\ \/ /\ c \in colRows
          /\ Fail(w)
       \/ /\ c \notin colRows
          /\ colRows' = colRows \cup {c}
          /\ Write(w, [req[w] EXCEPT !.todo = rest,
                                     !.pc = IF rest = {} THEN "clear" ELSE "create"])
          /\ UNCHANGED <<wf, table, mails, served, reads, base>>

\* data_frame[[x.name for x in wf_columns]]: a KeyError when there is a Column
\* row the frame knows nothing of.  to_sql then replaces the table by an empty
\* one, and commits.
Clear(w) ==
    /\ req[w].pc = "clear"
    /\ \/ /\ ~(colRows \subseteq req[w].frame.cols)
          /\ Fail(w)
       \/ /\ colRows \subseteq req[w].frame.cols
          /\ table' = [cols |-> colRows, rows |-> {}]
          /\ Write(w, [req[w] EXCEPT !.pc = "fill",
                         !.frame = [cols |-> colRows, rows |-> Project(@.rows, colRows)]])
          /\ UNCHANGED <<colRows, wf, mails, served, reads, base>>

\* The counters that start with this request.
Born(q, r, t) == (q.op = "mail" /\ q.arg = t) \/ (q.op = "rowcreate" /\ q.arg = r)

\* The rows are inserted in whatever table there is by now.
FillTable(w) ==
    LET f == req[w].frame IN
    /\ req[w].pc = "fill"
    /\ \/ /\ ~(f.cols \subseteq table.cols)
          /\ Fail(w)
       \/ /\ f.cols \subseteq table.cols
          /\ table' = [table EXCEPT !.rows =
                         @ \cup SetAll(f.rows, Track \cap (table.cols \ f.cols), NaN)]
          /\ base' = [r \in Row |-> [t \in Track |->
                        IF Born(req[w], r, t) THEN reads[r][t] ELSE base[r][t]]]
          /\ Write(w, [req[w] EXCEPT !.pc = "save"])
          /\ UNCHANGED <<colRows, wf, mails, served, reads>>

\* Mutant: the dimensions of the workflow left as they were.
SaveNoSize(w) ==
    /\ req[w].pc = "save"
    /\ Write(w, Idle)
    /\ UNCHANGED <<colRows, wf, table, mails, served, reads, base>>

\* The columns whose type the table has changed are saved with it, which
\* inserts again those of them that have been deleted meanwhile.
SaveWorkflow(w) ==
    /\ req[w].pc = "save"
    /\ \E C \in SUBSET (req[w].frame.cols \ colRows) : colRows' = colRows \cup C
    /\ wf' = [ncols |-> Cardinality(req[w].frame.cols),
              nrows |-> Cardinality(req[w].frame.rows)]
    /\ Write(w, Idle)
    /\ UNCHANGED <<table, mails, served, reads, base>>

-----------------------------------------------------------------------------
(* The image in an email: trck.                                            *)

\* Without the column the request ends in a KeyError, before any effect.
ServeImage(w, r, t) ==
    /\ <<r, t>> \in mails
    /\ t \in table.cols
    /\ reads' = [reads EXCEPT ![r][t] = @ + 1]
    /\ Arrive(w, [Idle EXCEPT !.pc = "reconcile", !.op = "image", !.arg = t,
                    !.frame = [table EXCEPT !.rows = Bump(@, r, t)]])
    /\ UNCHANGED <<colRows, wf, table, mails, base, sound>>

-----------------------------------------------------------------------------
(* Sending the emails of an action, to the rows its filter selects.        *)

\* The first name the frame does not have.
NewName(t) == t \in Track \ table.cols /\ \A u \in Track \ table.cols : t <= u

\* send_messages loads the frame before it sends: from now on the images are
\* out.
SendMessages(w, R, t) ==
    /\ NewName(t) /\ R \subseteq Ids
    /\ mails' = mails \cup (R \X {t})
    /\ Arrive(w, [Idle EXCEPT !.pc = "column", !.op = "mail", !.arg = t, !.size = wf,
                    !.frame = [cols |-> table.cols \cup {t},
                               rows |-> SetAll(table.rows, {t}, 0)]])
    /\ UNCHANGED <<colRows, wf, table, reads, base, sound>>

\* The connection fails after some of the messages: the action reports it, and
\* their images count in a column that is never made.
SendFails(w, R, t) ==
    /\ NewName(t) /\ R \subseteq Ids
    /\ mails' = mails \cup (R \X {t})
    /\ Arrive(w, Idle)
    /\ UNCHANGED <<colRows, wf, table, reads, base, sound>>

\* column.save(), also in column_add.
SaveColumn(w) ==
    LET c == req[w].arg IN
    /\ req[w].pc = "column"
    /\ \/ /\ c \in colRows
          /\ Fail(w)
       \/ /\ c \notin colRows
          /\ colRows' = colRows \cup {c}
          /\ Write(w, [req[w] EXCEPT !.pc = IF req[w].op = "mail" THEN "count"
                                           ELSE "reconcile"])
          /\ UNCHANGED <<wf, table, mails, served, reads, base>>

\* action.workflow.ncols += 1, saved with the rest of the row as it was read.
CountColumn(w) ==
    /\ req[w].pc = "count"
    /\ wf' = [req[w].size EXCEPT !.ncols = @ + 1]
    /\ Write(w, [req[w] EXCEPT !.pc = "reconcile"])
    /\ UNCHANGED <<colRows, table, mails, served, reads, base>>

-----------------------------------------------------------------------------
(* The other requests of the owner.                                        *)

\* column_add: the name is checked against the Column rows.
ColumnAdd(w, c) ==
    /\ wf.nrows # 0
    /\ c \in Other \ colRows
    /\ Arrive(w, [Idle EXCEPT !.pc = "column", !.op = "columnadd", !.arg = c,
                    !.frame = [table EXCEPT !.cols = @ \cup {c}]])
    /\ UNCHANGED <<colRows, wf, table, mails, reads, base, sound>>

\* row_create: the row has a value for every Column row, the frame gets the
\* columns of both, and the key is checked on the copy.
RowCreate(w, r) ==
    /\ wf.nrows # 0
    /\ r \in Row \ Ids
    /\ Arrive(w, [Idle EXCEPT !.pc = "reconcile", !.op = "rowcreate", !.arg = r,
         !.frame = [cols |-> table.cols \cup colRows,
                    rows |-> SetAll(table.rows, Track \cap (colRows \ table.cols), NaN)
                      \cup SetAll([id: {r}, n: {Zeros}],
                                  Track \cap (table.cols \ colRows), NaN)]])
    /\ UNCHANGED <<colRows, wf, table, mails, reads, base, sound>>

\* row_update shows the values of a row.  Values and columns are paired by
\* position, which makes no sense unless there are as many of each.
RowForm(w, rec) ==
    /\ rec \in table.rows
    /\ colRows = table.cols
    /\ Arrive(w, [Idle EXCEPT !.pc = "form", !.op = "rowupdate", !.arg = rec.id,
                    !.frame = [cols |-> colRows, rows |-> {rec}]])
    /\ UNCHANGED <<colRows, wf, table, mails, reads, base, sound>>

\* Only the columns of C take what the form has shown.
Overwritten(rec, shown, C) ==
    [rec EXCEPT !.n = [t \in Track |-> IF t \in C THEN shown.n[t] ELSE @[t]]]

\* The form comes back with what it showed in all the columns, the counters
\* too.  One that was shown for other columns is not considered.
RowUpdate(w) ==
    LET f == req[w].frame IN
    /\ req[w].pc = "form"
    /\ colRows = f.cols /\ colRows \subseteq table.cols
    /\ \E shown \in f.rows :
         table' = [table EXCEPT !.rows = {IF rec.id = req[w].arg THEN Overwritten(rec, shown, f.cols)
                                          ELSE rec : rec \in @}]
    /\ Write(w, Idle)
    /\ UNCHANGED <<colRows, wf, mails, served, reads, base>>

CloseForm(w) ==
    /\ req[w].pc = "form"
    /\ Continue(w, Idle)

\* column_delete, with the workflow as get_workflow has read it.
ColumnDelete(w, c) ==
    /\ c \in colRows
    /\ Arrive(w, [Idle EXCEPT !.pc = "drop", !.op = "columndelete", !.arg = c,
                    !.size = [wf EXCEPT !.ncols = @ - 1]])
    /\ UNCHANGED <<colRows, wf, table, mails, reads, base, sound>>

\* Mutant: the table left as it is.
DropNothing(w) ==
    /\ req[w].pc = "drop"
    /\ Continue(w, [req[w] EXCEPT !.pc = "delete"])

\* workflow_delete_column: ALTER TABLE first, an error without the column.
DropColumn(w) ==
    LET C == table.cols \ {req[w].arg} IN
    /\ req[w].pc = "drop"
    /\ \/ /\ req[w].arg \notin table.cols
          /\ Continue(w, Idle)
       \/ /\ req[w].arg \in table.cols
          /\ table' = [cols |-> C, rows |-> Project(table.rows, C)]
          /\ Write(w, [req[w] EXCEPT !.pc = "delete"])
          /\ UNCHANGED <<colRows, wf, mails, served, reads, base>>

DeleteColumn(w) ==
    /\ req[w].pc = "delete"
    /\ colRows' = colRows \ {req[w].arg}
    /\ Write(w, [req[w] EXCEPT !.pc = "size"])
    /\ UNCHANGED <<wf, table, mails, served, reads, base>>

\* row_delete, from a page that may show a row that is gone.
RowDelete(w, r) ==
    /\ Arrive(w, [Idle EXCEPT !.pc = "deleterow", !.op = "rowdelete", !.arg = r,
                    !.size = [wf EXCEPT !.nrows = @ - 1]])
    /\ UNCHANGED <<colRows, wf, table, mails, reads, base, sound>>

\* The row count goes down whether or not a row was deleted.
DeleteRow(w) ==
    LET r == req[w].arg IN
    /\ req[w].pc = "deleterow"
    /\ table' = [table EXCEPT !.rows = {rec \in @ : rec.id # r}]
    /\ Write(w, [req[w] EXCEPT !.pc = "size", !.fresh = @ /\ r \in Ids])
    /\ UNCHANGED <<colRows, wf, mails, served, reads, base>>

\* workflow.save(): the whole row, as it was read at the start.
SaveSize(w) ==
    /\ req[w].pc = "size"
    /\ wf' = req[w].size
    /\ Write(w, Idle)
    /\ UNCHANGED <<colRows, table, mails, served, reads, base>>

-----------------------------------------------------------------------------
Store(w) ==
    \/ Reconcile(w) \/ Clear(w) \/ FillTable(w) \/ SaveWorkflow(w)
    \/ \E c \in Col : CreateColumn(w, c)

Email(w) ==
    \/ \E r \in Row, t \in Track : ServeImage(w, r, t)
    \/ \E R \in SUBSET Row, t \in Track : SendMessages(w, R, t) \/ SendFails(w, R, t)
    \/ SaveColumn(w) \/ CountColumn(w)

Owner(w) ==
    \/ \E c \in Col : ColumnAdd(w, c) \/ ColumnDelete(w, c)
    \/ \E r \in Row : RowCreate(w, r) \/ RowDelete(w, r)
    \/ \E rec \in table.rows : RowForm(w, rec)
    \/ RowUpdate(w) \/ CloseForm(w)
    \/ DropColumn(w) \/ DeleteColumn(w) \/ DeleteRow(w) \/ SaveSize(w)

Next == \E w \in Web : Store(w) \/ Email(w) \/ Owner(w) \/ Crash(w)

Spec == Init /\ [][Next]_vars

-----------------------------------------------------------------------------
(* Properties.                                                             *)

Known == table.rows \cup UNION {req[w].frame.rows : w \in Web}

\* However the requests interleave, fail or crash, no counter, stored or in
\* the copy of a request, exceeds the images answered for its recipient:
\* reads are lost, never invented (trck, store_table_in_db, row_update).
NeverOvercounted ==
    \A rec \in Known : \A t \in Track : rec.n[t] <= reads[rec.id][t]

Quiet == \A w \in Web : req[w].pc \in {"idle", "form"}

\* When no request has written over what another one changed, and none has
\* failed half way, every counter is the number of images answered since it
\* was made: a name EmailRead_n used again starts from zero although it also
\* counts the images of the older emails (send_messages, trck).
CountsExact ==
    Quiet /\ sound =>
        \A rec \in table.rows : \A t \in Track \cap table.cols :
            rec.n[t] = reads[rec.id][t] - base[rec.id][t]

\* On the same condition the Column rows are the columns of the table, and the
\* workflow has its dimensions, whichever of its three writers came last
\* (store_table_in_db, workflow_delete_column, row_delete).
StructureSound ==
    Quiet /\ sound =>
        /\ colRows = table.cols
        /\ wf = [ncols |-> Cardinality(table.cols), nrows |-> Cardinality(table.rows)]

\* A Column row comes back after its deletion only by a request that stores a
\* frame loaded before it: nothing but the request that adds it makes a
\* column otherwise (store_table_in_db reconciles silently).
DeletedStaysDeleted ==
    [][\A c \in colRows' \ colRows :
          \/ ~sound'
          \/ \E w \in Web : req[w].op \in {"mail", "columnadd"} /\ req[w].arg = c]_vars
=============================================================================
