------------------------------- MODULE Upload -------------------------------
(***************************************************************************)
(* The four steps of an upload (csvupload1, excelupload1 and sqlupload1,   *)
(* then upload_s2 to upload_s4), the run of a plugin, and what the user    *)
(* can do in another tab between two steps.  What the steps have gathered  *)
(* is in the session, and the uploaded table in the database under the     *)
(* number of the workflow: neither knows about the other.  This is one     *)
(* workflow; what a session does in another one only shows in its data.    *)
(***************************************************************************)
EXTENDS Merge, Lists, SequencesExt

CONSTANTS
    Session,
    Files,      \* tables the user can upload
    Start,      \* tables the workflow can start with, or None
    Outputs,    \* values a plugin gives
    Renamings,  \* bound: the names users give, by the name in the file
    MaxDropped, \* bound: columns of a file not uploaded
    MaxUploads, \* bound: files uploaded and plugins run
    None        \* no table, no data

Table == [cols: Seq(Name), rows: SUBSET UNION {[S -> Cell] : S \in SUBSET Name}]
\* A column read from a file, or given by a plugin, has strings or numbers.
OneType(S) == S \subseteq Strings \/ S \cap Strings = {}
TableOf(t) == t \in Table /\ t.rows \subseteq [Names(t.cols) -> Cell] /\ t.rows # {}
Data == [initial: Seq(Name), isKey: Seq(BOOLEAN), names: Seq(Name), chosen: Seq(BOOLEAN),
         dstKeys: (SUBSET Name) \cup {None}, dk: Name \cup {None}, sk: Name \cup {None},
         how: How \cup {None}]

ASSUME UploadAssumption ==
    /\ {MaxUploads, MaxDropped} \subseteq Nat
    /\ Renamings \subseteq [Name -> Name] /\ Outputs \subseteq Value
    /\ \A t \in Files \cup (Start \ {None}) : TableOf(t) /\ IsInjective(t.cols)
         /\ \A c \in Names(t.cols) : OneType({r[c] : r \in t.rows} \ {NaN})
    /\ None \notin Table /\ None \notin Data

VARIABLES
    table,      \* the table of the workflow, or None
    columns,    \* names of its Column rows, by position
    keys,       \* those with is_key
    texts,      \* those of strings; the others are of numbers
    upload,     \* the table UPLOAD_n, or None
    data,       \* upload_data of each session, or None
    uploads,    \* bound
    doubt       \* history: columns whose is_key was saved by a request that
                \* then failed, and no merge has looked at since

stored == <<table, columns, keys, texts>>
vars == <<table, columns, keys, texts, upload, data, uploads, doubt>>

TypeOK ==
    /\ table = None \/ TableOf(table)
    /\ upload = None \/ TableOf(upload)
    /\ columns \in Seq(Name) /\ IsInjective(columns)
    /\ keys \subseteq Names(columns) /\ texts \subseteq Names(columns)
    /\ data \in [Session -> Data \cup {None}]
    /\ uploads \in 0..MaxUploads
    /\ doubt \subseteq Name

Init ==
    /\ table \in Start
    /\ columns = IF table = None THEN <<>> ELSE table.cols
    /\ keys = IF table = None THEN {} ELSE Keys(table)
    /\ texts = IF table = None THEN {} ELSE StringColumns(table)
    /\ upload = None
    /\ data = [s \in Session |-> None]
    /\ uploads = 0
    /\ doubt = {}

-----------------------------------------------------------------------------
(* What the requests share.                                                *)

\* The uploaded table with the new names and without what was not chosen:
\* names are found by name, and so are the columns to drop, but the choice is
\* by place.  None: an exception, or nothing left (left out).
Source(t, u) ==
    IF t = None \/ Len(t.cols) > Len(u.chosen) THEN None
    ELSE LET name(c) == IF \E j \in DOMAIN u.initial : u.initial[j] = c
                        THEN u.names[CHOOSE j \in DOMAIN u.initial : u.initial[j] = c]
                        ELSE c
             dropped == {name(t.cols[i]) : i \in {j \in DOMAIN t.cols : ~u.chosen[j]}}
             kept == Those(t.cols, {c \in Names(t.cols) : name(c) \notin dropped})
             cols == [i \in DOMAIN kept |-> name(kept[i])]
             old(c) == kept[CHOOSE i \in DOMAIN kept : cols[i] = c] IN
         IF kept = <<>> THEN None
         ELSE [cols |-> cols, rows |-> {[c \in Names(cols) |-> r[old(c)]] : r \in t.rows}]

Repeats(q) == {q[i] : i \in {j \in DOMAIN q : \E k \in DOMAIN q : k # j /\ q[k] = q[j]}}

\* store_table_in_db: rows for the columns the frame adds, in its order, and
\* then the table, with the columns in the order of their rows.  The types of
\* all columns are then made those of the table.
Store(g, now, order) ==
    /\ columns' = columns \o order
    /\ keys' = keys \cup {c \in Names(order) : Unique(g, c)}
    /\ texts' = now \cap Names(columns')
    /\ table' = [cols |-> columns', rows |-> {g[i] : i \in DOMAIN g}]

\* ... which needs all of them in the frame.
CanStore(g) == \A c \in Names(columns) : Has(g, c)

\* A frame that cannot be stored leaves the rows of its new columns: those
\* before a repeated name, or all of them when only the last step fails.
\* (Their types are looked at when there is a table.)
StoreFails(g, order) ==
    /\ columns' = columns \o order
    /\ keys' = keys \cup {c \in Names(order) : Unique(g, c)}
    /\ doubt' = doubt \cup Names(order)
    /\ UNCHANGED <<table, texts>>

\* Mutant: columns that have their row get another.
AddedAll(g) == UNION {DOMAIN g[i] : i \in DOMAIN g}

Added(g) == (UNION {DOMAIN g[i] : i \in DOMAIN g}) \ Names(columns)

\* Mutant: the frame is stored before its columns are checked.
GiveUpStored(g, now, kind) ==
    LET check == Check(g, texts, now, columns, keys) IN
    /\ DOMAIN g # {} /\ check.kind = kind
    /\ keys' = check.keys
    /\ doubt' = doubt \cup (check.keys \ keys)
    /\ table' = [table EXCEPT !.rows =
                    {[c \in Names(table.cols) |-> g[i][c]] : i \in DOMAIN g}]
    /\ UNCHANGED <<columns, texts>>

\* perform_dataframe_upload_merge after the combination, when it is accepted.
Finish(g, now) ==
    LET check == Check(g, texts, now, columns, keys) IN
    /\ DOMAIN g # {} /\ check.kind = "frame"
    /\ \E order \in SetToSeqs(Added(g)) :
        /\ columns' = columns \o order
        /\ keys' = check.keys \cup {c \in Names(order) : Unique(g, c)}
        /\ texts' = now \cap Names(columns')
        /\ table' = [cols |-> columns', rows |-> {g[i] : i \in DOMAIN g}]
    /\ doubt' = {}

\* ... and when it is not: the columns that passed have been saved.
GiveUp(g, now, kind) ==
    LET check == Check(g, texts, now, columns, keys) IN
    /\ IF DOMAIN g = {} THEN kind = "refused" /\ UNCHANGED <<keys, doubt>>
       ELSE /\ check.kind = kind
            /\ keys' = check.keys
            /\ doubt' = doubt \cup (check.keys \ keys)
    /\ UNCHANGED <<table, columns, texts>>

-----------------------------------------------------------------------------
(* The four steps.                                                         *)

NewData(f) ==
    [initial |-> f.cols, isKey |-> [i \in DOMAIN f.cols |-> f.cols[i] \in Keys(f)],
     names |-> f.cols, chosen |-> [i \in DOMAIN f.cols |-> TRUE],
     dstKeys |-> None, dk |-> None, sk |-> None, how |-> None]

\* Step 1: the file needs a column with a value of its own in every row.
UploadFile(s, f) ==
    /\ uploads < MaxUploads
    /\ Keys(f) # {}
    /\ upload' = f
    /\ data' = [data EXCEPT ![s] = NewData(f)]
    /\ uploads' = uploads + 1
    /\ UNCHANGED <<stored, doubt>>

\* Step 2, the names and the columns to upload, when there is a table.
SelectColumns(s, names, chosen) ==
    /\ data[s] # None /\ table # None
    /\ \E i \in DOMAIN names : chosen[i] /\ data[s].isKey[i]
    /\ data' = [data EXCEPT ![s].names = names, ![s].chosen = chosen]
    /\ UNCHANGED <<stored, upload, uploads, doubt>>

DropUpload == upload' = None

\* A first table: stored, or failed.
Storable(src) == Repeats(src.cols) = {} /\ CanStore(Rows(src))

FirstStore(src) ==
    LET new == Those(src.cols, Names(src.cols) \ Names(columns))
        bad == {i \in DOMAIN new : new[i] \in Repeats(src.cols)} IN
    IF Storable(src) THEN Store(Rows(src), StringColumns(src), new) /\ UNCHANGED doubt
    ELSE StoreFails(Rows(src),
            IF bad = {} THEN new
            ELSE SubSeq(new, 1, (CHOOSE i \in bad : \A j \in bad : i <= j) - 1))

\* Step 2 when there is none: the end of the upload.  The session keeps its
\* data, and is not saved when there is an exception.
FirstUpload(s, names, chosen) ==
    LET u == [data[s] EXCEPT !.names = names, !.chosen = chosen]
        src == Source(upload, u) IN
    /\ data[s] # None /\ table = None
    /\ \E i \in DOMAIN names : chosen[i] /\ data[s].isKey[i]
    /\ src # None
    /\ FirstStore(src)
    /\ IF Storable(src) THEN DropUpload /\ data' = [data EXCEPT ![s] = u]
                           ELSE UNCHANGED <<upload, data>>
    /\ UNCHANGED uploads

\* Step 3 opened: the keys of the table are looked up once.
OpenKeys(s) ==
    /\ data[s] # None /\ data[s].dstKeys = None
    /\ data' = [data EXCEPT ![s].dstKeys = keys]
    /\ UNCHANGED <<stored, upload, uploads, doubt>>

SelectKeys(s, dk, sk, how) ==
    LET u == data[s] IN
    /\ u # None /\ u.dstKeys # None
    /\ dk \in u.dstKeys
    /\ \E i \in DOMAIN u.names : u.names[i] = sk /\ u.isKey[i] /\ u.chosen[i]
    /\ data' = [data EXCEPT ![s].dk = dk, ![s].sk = sk, ![s].how = how]
    /\ UNCHANGED <<stored, upload, uploads, doubt>>

NoNumbersFor(C, src) ==
    \A c \in C \cap Names(src.cols) : \A r \in src.rows : r[c] \in Strings \cup {NaN}

\* What step 4 combines.  Left out: new names that are given twice; rows to
\* match by a column that repeats values (it is no key any more, or was one of
\* another workflow), as pandas doubles some of them; and numbers for a column
\* of strings, which become strings when they are stored.
Merging(s) ==
    LET src == Source(upload, data[s]) IN
    /\ data[s] # None /\ table # None /\ data[s].how # None
    /\ src # None /\ Repeats(src.cols) = {}
    /\ NoNumbersFor(texts, src)
    /\ data[s].dk \in Keys(table) \cup (Name \ Names(columns)) \/ data[s].how \in {"left", "outer"}

Result(s) ==
    Combine(table, Source(upload, data[s]), data[s].dk, data[s].sk, data[s].how)

StringsNow(s) ==
    StringsIn(Result(s).rows, texts, table, Source(upload, data[s]), data[s].dk, data[s].sk)

MergeAccepted(s) ==
    /\ Merging(s) /\ Result(s).kind = "frame"
    /\ Finish(Result(s).rows, StringsNow(s))
    /\ DropUpload
    /\ data' = [data EXCEPT ![s] = None]
    /\ UNCHANGED uploads

MergeRefused(s) ==
    /\ Merging(s)
    /\ \/ Result(s).kind = "refused" /\ UNCHANGED <<stored, doubt>>
       \/ Result(s).kind = "frame" /\ GiveUp(Result(s).rows, StringsNow(s), "refused")
    /\ DropUpload
    /\ UNCHANGED <<data, uploads>>

\* An exception after the first columns were saved (before it nothing is).
MergeRaises(s) ==
    /\ Merging(s) /\ Result(s).kind = "frame"
    /\ GiveUp(Result(s).rows, StringsNow(s), "raised")
    /\ UNCHANGED <<upload, data, uploads>>

\* The table went away: step 4 is a first upload.
MergeIntoNothing(s) ==
    LET src == Source(upload, data[s]) IN
    /\ data[s] # None /\ table = None /\ data[s].how # None
    /\ src # None
    /\ FirstStore(src)
    /\ IF Storable(src) THEN DropUpload /\ data' = [data EXCEPT ![s] = None]
                           ELSE UNCHANGED <<upload, data>>
    /\ UNCHANGED uploads

-----------------------------------------------------------------------------
(* Between the steps.                                                      *)

\* The session uploads a file to another workflow, and may open step 3 there.
Elsewhere(s, f, theirs) ==
    /\ uploads < MaxUploads
    /\ Keys(f) # {}
    /\ data' = [data EXCEPT ![s] = [NewData(f) EXCEPT !.dstKeys = theirs]]
    /\ uploads' = uploads + 1
    /\ UNCHANGED <<stored, upload, doubt>>

\* plugin_invoke: the result has a row for each row of the table, and is
\* merged by its key into the rows of the table.
PluginRun(k, out, value) ==
    LET res == [cols |-> <<k, out>>,
                rows |-> {[c \in {k, out} |-> IF c = k THEN r[k] ELSE value[r]] : r \in table.rows}]
        new == Combine(table, res, k, k, "left")
        now == StringsIn(new.rows, texts, table, res, k, k) IN
    /\ uploads < MaxUploads
    /\ table # None /\ k \in keys /\ out # k
    /\ OneType({value[r] : r \in table.rows}) /\ NoNumbersFor(texts, res)
    /\ Cardinality(res.rows) = Cardinality(table.rows)
    /\ new.kind = "frame"
    /\ \/ Finish(new.rows, now)
       \/ \E kind \in {"refused", "raised"} : GiveUp(new.rows, now, kind)
    /\ uploads' = uploads + 1
    /\ UNCHANGED <<upload, data>>

\* column_delete: not the only key.  The model goes no further when no column
\* is left that tells the rows apart (the key left may be one in doubt).
ColumnDelete(c) ==
    /\ table # None /\ c \in Names(columns)
    /\ keys # {c}
    /\ columns' = Without(columns, c)
    /\ keys' = keys \ {c}
    /\ texts' = texts \ {c}
    /\ doubt' = doubt \ {c}
    /\ table' = [cols |-> columns',
                  rows |-> {[d \in DOMAIN r \ {c} |-> r[d]] : r \in table.rows}]
    /\ Keys(table') # {}
    /\ UNCHANGED <<upload, data, uploads>>

\* flush_workflow.
Flush ==
    /\ table # None
    /\ table' = None
    /\ columns' = <<>>
    /\ keys' = {}
    /\ texts' = {}
    /\ doubt' = {}
    /\ UNCHANGED <<upload, data, uploads>>

-----------------------------------------------------------------------------
NamesFor(u) == {[i \in DOMAIN u.initial |-> f[u.initial[i]]] : f \in Renamings}

ChoicesFor(u) == {q \in [DOMAIN u.initial -> BOOLEAN] :
                    Cardinality({i \in DOMAIN q : ~q[i]}) <= MaxDropped}

Next ==
    \/ \E s \in Session :
        \/ \E f \in Files : UploadFile(s, f)
        \/ /\ data[s] # None
           /\ \E names \in NamesFor(data[s]), chosen \in ChoicesFor(data[s]) :
                \/ SelectColumns(s, names, chosen)
                \/ FirstUpload(s, names, chosen)
        \/ OpenKeys(s)
        \/ \E dk, sk \in Name, how \in How : SelectKeys(s, dk, sk, how)
        \/ MergeAccepted(s) \/ MergeRefused(s) \/ MergeRaises(s) \/ MergeIntoNothing(s)
        \/ \E f \in Files, theirs \in {None} \cup {{k} : k \in Name} : Elsewhere(s, f, theirs)
    \/ /\ table # None
       /\ \E k, out \in Name, value \in [table.rows -> Outputs] : PluginRun(k, out, value)
    \/ \E c \in Name : ColumnDelete(c)
    \/ Flush

Spec == Init /\ [][Next]_vars

-----------------------------------------------------------------------------
(* Properties.                                                             *)

\* "When a column is marked as Unique, all the values it contains are
\* different".  Refuted: is_key is saved column by column before the merge is
\* refused, for values that are then never stored.
KeysAreUnique ==
    table # None => keys \subseteq Keys(table)

\* But for the columns a failed request marked, whatever is uploaded, merged,
\* made by a plugin or deleted in between, a column marked as key tells the
\* rows apart: condition 3 of perform_dataframe_upload_merge, store_table_in_db.
KeysUnique ==
    table # None => keys \ doubt \subseteq Keys(table)

\* A merge by a key of the same name, which is a key of the workflow or tells
\* the rows of the source apart, that ends well stores what the pseudocode of
\* the two functions says, whatever happened to the table since the steps
\* began.  A source with only its key leaves the table as it is.
MergeIsJoin ==
    [][\A s \in Session :
         LET src == Source(upload, data[s])  u == data[s] IN
         data[s] # None /\ data'[s] = None /\ table # None =>
            (/\ u.dk = u.sk /\ u.dk \in Keys(table) /\ Len(src.cols) > 1
             /\ u.dk \in keys \/ u.sk \in Keys(src)
             => table'.rows = Promised(table, src, u.dk, u.how))]_vars

\* The key chosen in step 3 can be old by step 4.  A merge that is accepted,
\* of more than a key, still finds it, and no column that was a key of the
\* table is less of one after it.
KeysSurviveMerge ==
    [][\A s \in Session :
         data[s] # None /\ data'[s] = None /\ table # None =>
            /\ Len(Source(upload, data[s]).cols) > 1 => data[s].dk \in Names(columns)
            /\ keys \subseteq keys'
            /\ keys' \subseteq Keys(table')]_vars
=============================================================================
