# OnTask in TLA+

OnTask is a Django 1.11 application with which an instructor uploads a table of
student data (a *workflow*), adds and computes columns, writes conditions on
them, and sends each student a text assembled from the conditions that hold for
that student's row. This directory holds a formal model of its core logic: TLA+
modules, the TLC configurations that check them on small instances, and TLAPS
proofs of their most important properties for every instance.

All paths below are relative to `src/` of the repository; the applications are in
its subdirectory `src/` (so `src/src/workflow/ops.py` from the root).

Contents: [how the system works](#how-the-system-works),
[inventory](#inventory), [the modules](#the-modules), [the runs](#the-runs),
[bounds](#bounds), [fairness](#fairness), [the proofs](#the-proofs),
[what the runs found](#what-the-runs-found),
[what is not modelled](#not-modelled), [what could come next](#plan).

## How the system works

* Every page is one HTTP request served by one of several processes. All state
  that outlives a request is in PostgreSQL: Django's rows (workflow, columns,
  actions, conditions, views, sessions, scheduled items) and, for each workflow,
  one table with its data, which pandas reads and replaces as a whole.
* There are no transactions (`ATOMIC_REQUESTS` is not set), no `select_for_update`
  and no conditional updates. `obj.save()` writes *every* field of the copy read
  earlier in the request. So a request is a sequence of separate reads and
  writes, and a failure in the middle leaves what was done so far.
* The one protection is a lock made by the application itself: the column
  `session_key` of the workflow row names the browser session using it.
* Two kinds of code run outside it: the table API (token authentication, no
  session) and the scheduler script that cron starts every `MINUTE_STEP` = 15
  minutes; row edits of students and the tracking pixel do not look at the lock
  either.

## Inventory

For every component: state, operations, interactions, what is hard, what makes it
correct, and the module that models it (in parentheses when only in part).

| component | state | operations | interacts with | hard because | correct when | module |
|---|---|---|---|---|---|---|
| Workflow lock and sessions (`workflow/ops.py`, `workflow/views.py`) | `session_key` of each workflow; Django sessions with their expiry; the workflow each session has selected | `get_workflow`, `lock_workflow`, `unlock_workflow_by_id`, `workflow_index`, `is_locked`; login, logout | called first by every view | check, then act, in separate queries; expiry; an unlock that does not ask who holds the lock | a live session keeps its lock; whoever works holds it; silence does not lock for ever | `WorkflowLock` |
| Columns (`workflow/column_views.py`, `workflow/ops.py`, `workflow/models.py`) | Column rows (name, position, `is_key`), `ncols`, `query_builder_ops` | add, add by formula, clone, edit, delete, move (4), flush | data table, conditions, views | positions shifted one by one; the same list kept in three places | positions are 1..ncols; table and rows agree; a key exists; nothing mentions a name that is gone | `Columns` |
| Data table and uploads (`dataops/ops.py`, `dataops/upload.py`, `dataops/views.py`) | the table of each workflow; `upload_data` in the session | upload in up to four pages, merge, row create/update/delete, `store_table_in_db` | columns, conditions (row counts) | per-column checks saved before a later one fails; a frame read, changed and written back; a wizard spread over requests | keys stay unique; no update lost without a race; a merge is the join it promises | `Upload`, `Merge`, `Tracking` |
| Upload sources (`dataops/csvupload.py`, `excelupload.py`, `sqlcon_views.py`) | SQL connection rows | parse a file or query into a frame | uploads | parsing, I/O | a table without a key is refused | (`Upload`) |
| Conditions and filters (`action/views_condition.py`, `action/models.py`) | formula, linked columns, `n_rows_selected` | save, delete, clone; filter of an action | columns, actions | counts cached and dependent on the filter; two records of what a formula mentions | counts and links agree with the formula | `Counts` |
| Formula evaluation (`dataops/formula_evaluation.py`) | - | evaluate in Python, translate to SQL, rename and find variables | conditions, views, actions | two evaluators of one language, with NULL | they agree | `Formula` |
| Table views (`table/views.py`) | formula and shown columns of each view | save, clone, delete, export | columns | lose columns one at a time | none is ever empty | (`Columns`) |
| Table API (`table/api.py`) | - | read, replace, merge, delete the table | lock, data table | skips checks that the pages make | respects the lock and the invariants of the columns | (`WorkflowLock`, `Counts`) |
| Scheduler (`scheduler/views.py`, `scripts/scheduler_script.py`) | scheduled items | create, edit, delete; a script run by cron | actions, email | processes with stale copies of rows; windows of time; crashes between sending and saving | sent at most once; sent when due; the status says what happened | `Scheduler` |
| Actions and texts (`action/views_action.py`, `action/evaluate.py`) | actions, their text and questions | edit, evaluate for a row, serve to students | conditions, data table, attributes | old pages send whole texts back; texts are chosen in Python, rows counted in SQL | a text mentions what exists; it takes the branch that is counted | (`Names`, `Counts`) |
| Email and read tracking (`action/ops.py`, `ontask/views.py`) | a tracking column | send, count reads | columns, data table, scheduler | mails go out before the column exists; a counter read and written without a lock | reads are never invented, and exact without a race | `Tracking` |
| Import, export, clone (`workflow/ops.py`, `workflow/serializers.py`, `action/ops.py`) | the exported file | create a workflow from a file or another one; one action likewise | everything | created step by step, undone by hand | the copy is the original; all or nothing | `Transfer` |
| Attributes and names (`workflow/attribute_views.py`) | attributes of a workflow | set, rename, delete | columns, conditions | one name space, checked in three forms; a page knows an attribute by its place in a list | names are unique | `Names` |
| Plugins (`dataops/plugin_manager.py`) | registered plugins | run on a frame | data table | foreign code | its result is merged like an upload | (`Upload`) |
| Sharing (`workflow/share_views.py`) | users of a workflow | add, remove | lock | - | only users with access work | - |
| Visualizations, logs, accounts, profiles, LTI | - | read, append, authenticate | - | - | - | - |

The hazards these lead to, each with the line where it bites and the property
that covers it, are listed under `hazards` in `PROJECT.json`.

## The modules

| module | models | state | uses |
|---|---|---|---|
| `WorkflowLock` | the lock, sessions and the API's check | `sessionKey`, `rows`, `ttl`, `current`, `req` | |
| `OrderedTable` | abstract: the ordered list of names a user sees | `order` | |
| `Columns` | columns, keys, positions, table layout, formulas and views | `pos`, `key`, `ncols`, `table`, `uniq`, `qbOps`, `conds`, `views` | implements `OrderedTable` |
| `Scheduler` | scheduled emails, the script, cron, crashes | `rows`, `when`, `saves`, `phase`, `started`, `runs`, `web` (history `sent`, `tried`, `fault`) | |
| `Tracking` | the data frame under several requests at once: owners, emails, images | `colRows`, `wf`, `table`, `mails`, `req` (history `reads`, `base`, `sound`) | |
| `Formula` | pure: the two evaluators of formulas | | |
| `Counts` | actions, filters, conditions and their stored numbers of rows | `rows`, `actions` | `Formula` |
| `Names` | columns, attributes and conditions as names in texts, and tabs with old pages | `colName`, `attrs`, `condName`, `text`, `tab` (history `gone`) | |
| `Lists` | pure: lists of columns when some are left out | | |
| `Merge` | pure: the merge of two tables, its checks, and the promised join | | |
| `Upload` | the upload wizard, plugins, and what happens between its steps | `table`, `columns`, `keys`, `texts`, `upload`, `data` (history `doubt`) | `Merge`, `Lists` |
| `Transfer` | workflows and actions created, cloned, exported, imported, deleted | `wf`, `table`, `last`, `files`, `job` (history `doubt`) | `Lists` |
| `MC...` | instances for TLC: values, sets, symmetry | | the module named |
| `...Proofs` | theorems | | the module named, `TLAPS` |

The same code appears in several modules when different properties need different
parts of it. `column_delete` is one step on positions in `Columns`, three writes that
others can come between in `Tracking`, the loss of a name in `Names` and of links in
`Transfer`. Each module says in its header what it keeps.

Definitions called *Mutant* in a comment are deliberate mistakes (a dropped
condition, a wrong comparison). No specification uses them; each one replaces
the definition next to it to see that a property notices.

### WorkflowLock

A request is a record in `req[p]`, one for each server process `p`. Its field
`pc` says what the view does next:

```
idle -StartOpen/StartUse-> lookup -Lookup-> granted            (own key)
                                         -> lock -> granted    (empty key)
                                         -> check -CheckHolder-> refused | lock
idle -StartIndex-> unlock -UnlockById-> reply
idle -StartApi-> check -ApiCheck-> refused | granted
granted, refused, reply -Finish-> idle
```

| action | code |
|---|---|
| `StartOpen` | `WorkflowDetailView.dispatch`: reads the row (`old_obj`), then calls `get_workflow` |
| `StartUse` | every other view that calls `get_workflow` |
| `Lookup`, `CheckHolder`, `LockWorkflow` | the three queries of `get_workflow`: the workflow row, the session row of its holder, `lock_workflow` |
| `StartIndex`, `UnlockById` | `workflow_index` pops the selected workflow and unlocks it without asking whose lock it is |
| `StartApi`, `ApiCheck` | `TableBasic.override` and `is_locked` |
| `Finish` | the response; `SESSION_SAVE_EVERY_REQUEST` renews the expiry, the selection is stored |
| `Login`, `Logout`, `Tick` | Django's sessions and the clock |

Each query is a step of its own, because nothing holds the row in between. Time
is the remaining lifetime of each session (`ttl`), which needs no clock and so no
bound on it.

### Columns and OrderedTable

One action for each view that changes columns, data layout, conditions or views;
a whole request is one step, so the module is about one request after another,
which is what the lock is for. Data is abstracted to what the code asks of it:
whether a column has a different value in each row (`uniq`), since that alone
decides keys. A column that is deleted from `pos` is one whose row is deleted.

| action | code |
|---|---|
| `Upload`, `MergeAccepted`, `MergeRejected` | `store_upload_data`, `perform_dataframe_upload_merge` with all columns accepted, or failing at the i-th, the rows of the ones before it saved |
| `ColumnAdd`, `FormulaColumnAdd`, `TrackColumnAdd` | `column_add`, `formula_column_add`, the column `send_messages` creates |
| `ColumnClone`, `ColumnEdit`, `ColumnDelete` | `clone_column`, `column_edit` (rename, move and key mark in one form), `column_delete` |
| `ColumnMovePrev`, `...Next`, `...Top`, `...Bottom` | the four move views |
| `Flush` | `flush_workflow` |
| `RowCreate`, `RowUpdate`, `RowDelete` | row forms, as far as they change which columns have repeats |
| `SaveCondition`, `DeleteCondition`, `CloneCondition`, `SaveView`, `DeleteView`, `CloneView` | conditions and views by the names they mention and the columns they are linked to |

`Shift` is `reposition_columns`, `StoreTable` is `store_table_in_db` with what it
does to the workflow row, `ByPosition` is the ordering of the model's `Meta`.
`OrderedTable` is the promise: a list in which columns are inserted, removed,
renamed, moved and appended while the others keep their order. `Columns`
implements it under `order <- ByPosition(pos)`.

### Scheduler

`rows` are the `ScheduledEmailAction` rows. A web request reads a row when it
shows a form (`EmailCreate`, `EditEmail`, `DeleteEmail`) and writes all of it when
the form comes back (`SaveSchedule`, `SaveDelete`), any time later. A run of the
script copies the rows it selects (`Start`), and then, for each of them, sends
(`Send`) and saves the copy (`SaveItem`). Between any two of these, users, other
runs, crashes (`Crash`) and cascading deletions (`Cascade`) may come.
`when[i][v]` is the time left until the execution of the v-th form saved for item
i: keeping it by form lets a stale copy of a row keep its own time.
`sent`, `tried` and `fault` are history: what went out, what was executed, whether
a run was lost. No action reads them.

Cron starts the script when a multiple of `Step` is reached, or never (`Skip`).
The moment the script reads the clock is taken to be the moment it was due.

### Tracking

Every operation on the data frame loads the table, changes its copy and stores it
whole. The images in emails do so too, unauthenticated and without the lock, so this
module splits the requests where another one can come between. A request is a record
`req[w]` of the process `w`; its field `pc` names the next write:

```
image (trck)            ServeImage  -> reconcile
mail (send_messages)    SendMessages -> column -SaveColumn-> count -CountColumn-> reconcile
column_add              ColumnAdd   -> column -SaveColumn-> reconcile
row_create              RowCreate   -> reconcile
store_table_in_db       reconcile -> [create -CreateColumn->]* clear -Clear-> fill
                        -FillTable-> save -SaveWorkflow-> idle
column_delete           drop -DropColumn-> delete -DeleteColumn-> size -SaveSize-> idle
row_delete              deleterow -DeleteRow-> size -SaveSize-> idle
row_update              form -RowUpdate-> idle
```

`Clear` and `FillTable` are the two commits of pandas' `to_sql`: the table is replaced
by an empty one and then filled. An action fails (`Fail`) where the code raises: a
Column row that exists already, a column that the frame or the table does not have.
`SendFails` is a mail server that fails after some of the messages. `Crash` ends a
request anywhere.

The history variables say what should be counted. `reads` counts the images answered
for each recipient and column, `base` is what it was when the counter was made,
and `sound` holds until a request fails half way or writes after another one has
changed what it read (`fresh`). No guard reads them.

### Formula and Counts

`Formula` translates `evaluate_node` (Python, over the values of a row, with the
different meanings of `None` and `NaN` in Python 2) and `evaluate_node_sql` (with
SQL's three values). `Counts` has one action for each request that changes
rows, conditions, filters or actions, with exactly the recounts the handler makes:

| action | code |
|---|---|
| `RowUpdate`, `RowCreate`, `RowDelete`, `Merge`, `ServeActionIn` | the views that store rows and then call `update_n_rows_selected` for every action |
| `Image` | `trck`: only for the tracking column |
| `SaveFilter`, `SaveCondition`, `DeleteFilter`, `DeleteCondition`, `CloneCondition` | `save_condition_form`, `delete_condition`, `clone_condition` |
| `ActionCreate`, `ActionClone`, `ActionDelete`, `ActionImport`, `SelectColumn`, `UnselectColumn` | `views_action.py`, `do_import_action` |
| `CountFilter` | opening an action In and sending emails save the number of the filter only |

`RecountFor` and `Propagate` are the two `update_n_rows_selected`, of `Action` and of
`Condition` with its three cases.

### Names

Columns, attributes and conditions are put in one dictionary when a text is made.
The module has everything that names one:

| action | code |
|---|---|
| `ColumnAdd`, `ColumnEdit` | column forms and uploads, with `FreeForColumn`; a renaming substitutes in the texts of all actions (`rename_df_column`, `Action.rename_variable`) |
| `ColumnDelete` | `column_delete`, with the conditions whose formula mentions the column: any, as formulas are not kept here |
| `Flush` | `flush_workflow`: all columns and all conditions |
| `AttributeCreate`, `AttributeEdit`, `AttributeDelete` | `attribute_views.py`, with `FreeForAttribute`; the page knows the attribute by its place in the sorted list (`KeyAt`) |
| `ConditionCreate`, `ConditionEdit`, `ConditionDelete` | `save_condition_form`, with `FreeForCondition`, and `delete_condition`: both save the text of the page first |
| `ConditionClone` | `views_condition.clone`: "Copy of ..." as often as it takes not to be a condition of the same action (`Copies`, `IsNewCopy`); the script of the page sends the text at the same time |
| `ImportAction` | `do_import_action`: an action with its text and a condition, and a column if it is missing, compared with no name |
| `OpenText`, `Edit`, `SaveContent`, `Close` | pages of a text: each shows it as it was when it was opened and sends it back whole |

A text is HTML. The editor writes a name with `&`, `<` or `>` (`Special`) escaped, and
`render_template` looks names up escaped; but `rename_variable` looks for the old name
escaped and writes the new one as it is, and a renamed condition is looked for and written
as it is. A mention is therefore a form, a name, and whether it is written `raw`: a
raw one means nothing until a page shows it, and so escapes it (`Normal`).

`gone` remembers the mentions that were given up: what they mean was deleted; they were in a
page, or escaped differently, when it was renamed (`LeftByColumn`, `LeftByCondition`); or they
came with a file.

### Merge and Upload

`Merge` works on values: `StepA` is the join with the new columns, `StepB` is
`perform_overlap_update` with pandas' `update` (which skips what is missing) and
`append`, `Check` is the loop over the columns with its three conditions, saving
`is_key` as it goes. The type of a column is kept apart from its values, as a frame
keeps it (`texts`, `StringsIn`): a column of strings remains one when only numbers are left of it,
and one of numbers becomes one when a string arrives, which condition 1 refuses. `Promised` is the reference: the rows the kind of merge selects, with
the values of the source where it has any.

`Upload` is the wizard: `UploadFile`, `SelectColumns` or `FirstUpload`, `OpenKeys`,
`SelectKeys`, and one of `MergeAccepted`, `MergeRefused`, `MergeRaises`,
`MergeIntoNothing`. What the pages gather (`data`, in the session) and the uploaded
table (`upload`, in the database, named after the workflow) do not know about each other;
`Elsewhere`, `ColumnDelete`, `Flush` and `PluginRun` come between.
Left out, and named at `Merging`: new names given twice; a key that repeats its
values by the time of a right or inner merge, where pandas doubles rows; and numbers for a
column of strings, which the table makes strings of. Types are strings and numbers: that integers
may become doubles is one type (a column of doubles stays one, as its frame is of floats
throughout), and booleans and dates are not modelled. Categories are fixed for each name.

### Transfer

Workflows with the rows that belong to them, as records in `wf[id]`, and their tables.
A request that takes several commits is a `job`:

```
clone          Clone -> clone -CloneTable-> cloneactions -CloneActions-> clonesave -CloneSave-> idle
import         Import -> columns -ImportColumns-> frame -ImportFrame-> actions
               -ImportActions-> check -ImportCheck-> idle
import action  ImportAction -> addcolumns -AddColumns-> conditions -ImportConditions-> idle
```

`Create`, `Rename`, `FirstUpload`, `ColumnDelete`, `Flush`, `Delete`, `Export` and
`ExportAction` are single steps. Each step of a job may find the workflow changed or
gone. `Raise` is an exception that nothing undoes; `Undone` and the deletion in `ImportCheck` are
what the code undoes by hand; of an action that is being imported when an exception comes,
what was saved of it is not kept, as its workflow is in doubt. `doubt` collects the workflows of requests that died,
raised, or worked on what another request has written in between; a file exported from
one of them has key marks that may be wrong (`sure` is false of it), and so has what is imported from it.

## The runs

| run | instance | shows |
|---|---|---|
| `lock_serial` | 3 sessions, 2 workflows, 1 process, `Age` 2 | with one process, a live session keeps its lock (`NoStealing`), who works holds the lock and what the list of workflows unlocks is its own (`SelectionHoldsLock`), a refused page can name the holder (`RefusalNamesHolder`), and a workflow whose holder went silent is opened by a session that keeps trying (`Recoverable`) |
| `columns_order` | 4 names | positions are 1..ncols (`PositionsConsecutive`), the table follows them (`TableMatchesColumns`), a key exists (`HasKey`), and the ordered list is implemented (`ImplementsOrder`) |
| `columns_mentions` | 2 names, 2 conditions, 2 views | `NoMentionLeft`: no formula mentions a name that has just disappeared, although clones lose their links and stale names can be saved; `ViewsShowColumns`: no sequence of deletions leaves a view without columns |
| `scheduler_once` | 1 item saved twice, 2 overlapping runs, 1 process | `AtMostOnce`: one form's emails go out at most once, with crashes and overlaps; `DoneWasTried`: a row marked as executed was executed as it stands; `TimelyIsExecuted`: an item saved before its window is executed, unless it is changed or a run is lost |
| `tracking` | 2 rows, 2 counters, 1 other column, 2 processes, 4 requests, 1 crash | `NeverOvercounted`: whatever interleaves, fails or dies, no counter exceeds the images answered; `CountsExact`, `StructureSound`: while no request has written over another, counters are exact and Column rows, table and dimensions agree; `DeletedStaysDeleted` on the same condition |
| `counts` | 2 rows, 2 actions, 2 conditions and a filter each | `FilterCountRight`, `ConditionCountMeans`, `RecountComplete`: which stored numbers are right, when; `TextsMatchCounts`: for plain formulas the text of a row takes the branch that the query counts |
| `names` | 3 names, 2 columns, 1 action with 2 conditions, 2 tabs | `MentionsDefined`: texts mention what exists, but for the losses listed; `OverlapFromUnchecked`: only column forms, cloned conditions and imported actions can make names overlap; `RenameKeepsMeaning`: a renaming moves the mentions of the column and no others |
| `upload` | 3 columns, 3 numbers and a string, 2 uploads | `KeysUnique`: a key column tells the rows apart, except where a failed request marked it; `MergeIsJoin`: an accepted merge stores what is promised; `KeysSurviveMerge`: it keeps the keys |
| `transfer` | 3 workflows, 2 processes, 5 requests, 1 file, 1 crash | `StructureSound`, `KeysDistinct`: a workflow agrees with its table, in clones and imports too; `CloneIsCopy`, `ImportRestores`: the copy is the original |
| `lock_race`, `upload_keys`, `transfer_import` | | violations, see below |

Each module's type invariant `TypeOK` is checked in the first of its runs.

## Bounds

* **Sessions, workflows, processes.** Three sessions give a holder, one that takes
  over and one that is refused; two workflows let a session open a second one
  while it still holds the first. The proofs below need no such bound.
* **`Age`** is `SESSION_COOKIE_AGE` in ticks. With 2, a session can be fresh, at
  its last tick (valid for `expire_date >= now` but not for Django's `>`), and
  expired; larger values add only more fresh states.
* **`Name`** in `Columns`: four names allow a column moved over two others in each
  direction, an insertion in the middle, and a rename to an unused name. Two suffice
  where only the mentions matter; what that run checks is also proved for every set.
* **`Cond`, `View`** in `Columns`: two, so that one can be a clone of the other.
* **`Step`** = 3 ticks for 15 minutes: like 15 it is odd, so that in whole ticks
  the open windows of two runs neither overlap nor leave a tick uncovered. (With
  an even step the instant between two windows is in neither.) The script runs
  are started on the minute and times are entered to the minute by the form.
* **`Ahead`** = 3: an execution may be programmed for the window that is open now,
  and for the next one. **`MaxSaves`**: two forms for an item are one that is
  executed, or being executed, and one that changes it. **`Run`**: two, a run that is
  still at work when the next one starts. **`Web`**: one process of the web server,
  which is enough for a form that is open across a whole run; several are covered
  by the proofs.
* **`Tracking`**: two processes are two copies of the frame; four requests let a
  column be made, deleted and made again under a request that began before. With two
  numbers a second email takes the next name or one that is free again. One crash.
* **`Counts`**: two actions, so that one is a clone of the other and has to be
  recounted with it; three conditions in all, so that a filter, a condition and a clone
  fit; one read and one answer, so that each formula holds in some rows and not in
  others; formulas in `MCCounts` over one column each for filters, over both and with
  the operator only SQL knows for conditions.
* **`Names`**: three names are an old one, a new one and one that is not concerned,
  and are sorted; the second is the copy of the first (`Copies`), and the third has to be
  escaped (`Special`). Two tabs, one of them old. One mention per text (`MaxMentions`), as each is
  substituted for itself. Two attributes, so that places change (`MaxAttrs`). One mention
  given up (`MaxGone`): each excuses itself only. One action: names
  of conditions of other actions matter to `FreeForAttribute` alone, and the proofs have any number.
* **`Upload`**: one session with two uploads, the second over what the first left; the
  other sessions and workflows are what `Elsewhere` and the deletions leave.
  The files agree, disagree, miss values, and bring a row or a column; `MCRenamings`
  gives the key or a column another name.
* **`Transfer`**: three ids are a workflow, its clone, and a clone or import made
  of either; five requests and one crash between two processes.

Requests, uploads and files are bounded, so `Tracking`, `Upload` and `Transfer` come to
an end when the bound is spent; their runs do not check for deadlock. The rest do.

## Fairness

* `WorkflowLock!FairSpec`: time passes (`Tick`), and a process that has begun to
  serve a request finishes it (`Serve`). A request has no loop and waits for
  nothing. That a user comes back is *not* assumed: `Recoverable` states it as
  its hypothesis.
* `Scheduler!FairSpec`: time passes, cron starts the script when it is due or
  skips that start, and the script goes on to its next item or dies. All of these
  are weak fairness: nothing there is enabled again and again without staying
  enabled. Nothing is assumed of users, of crashes or of deletions.
* The other modules state safety only. Nothing in that code waits, retries or is owed
  an answer later: a request ends or raises.

## The proofs

All are checked by TLAPS for every value of the constants that satisfies the
module's assumptions.

**`WorkflowLockProofs`.** `TypeCorrect` holds for any number of processes. The
other theorems assume `OneWorker` (one server process), and TLC shows with
`lock_race` that this is needed. None of the three properties is inductive: that
`LockWorkflow` does not steal depends on what two earlier queries saw still being
so. The invariant `LockInv` says what is known at each `pc`: which kinds of request
get there (`KindInv`), that its session and workflow exist (`NamesInv`), that what it
read is still so (`FreshInv`: at `check` the holder seen is the holder now, at `lock`
the holder is none or expired, at `granted` it is the session itself), and that a
live session holds the lock of the workflow it has selected (`StoredInv`). From it follow `LockNotStolen`,
`SelectionIsLocked` and `RefusalFindsHolder`.

**`ColumnsProofs`.** The invariant `ColumnsInv` is the conjunction of `PosInv`
(positions are numbered 1..n, which as `Numbered` says that they are injective and
within bounds, and the table is the list in that order), `KeyInv` (columns exist
exactly when a table does, and then a key) and `MentionInv` (types of conditions and
views). The lemmas about `Shift`, `Place` and `Drop` show that each
composition the views use gives a numbering again. `PositionsConsecutive` then
follows by counting: an injective function into 1..n with n elements in its domain
covers it. Theorems: `ColumnsTypeCorrect`, `PositionsStayConsecutive`,
`TableStaysMatched`, `KeyAlwaysThere`, `NoMentionOfTheDeparted`, `ViewsNeverEmpty`.

**`SchedulerProofs`.** `AtMostOnce` is not inductive: it depends on no run reading a
form that another has, had or crashed with. The invariant `OnceInv` says that a form
in a run's list has not been sent and is `Spent`, its time out of reach of every
later start (`Waiting`); that two runs' lists have no form in common (`Apart`); that
what was sent was sent once and is spent (`SentOnce`); and that every copy is of a
form that exists, so that a new form has no copies (`Known`). It needs no
assumption on `Step`, crashes or the number of runs, but rests on windows open at
both ends and the time of a form never changing. `DoneRowsWereTried` needs the
copies: what is in a run's hands has been tried before it is saved (`TriedInv`).

**`ColumnsProofs`, second half.** `Columns` implements `OrderedTable` under the mapping
`order <- ByPosition(pos)`, for any set of names: the initial states map to the empty
list, and every step from a state of `ColumnsInv` maps to a step of the list or leaves it.
`ByPosition` is the inverse of the positions, so a list that has each column at its
position is the one the code's `ORDER BY position` gives (`ListedOnce`). What remains is to
compare arithmetic with lists element by element: a shift up and a new column is an
`InsertAt` (`InsertOrder`), a shift down and a deletion a `RemoveAt` (`DeleteOrder`), a
move or a renaming one after the other (`RelocateOrder`), and columns stored at the end
leave the old list as a prefix (`FrameGrows`). Then there is one lemma for each
operation. Theorem: `OrderIsImplemented`.

**`TrackingProofs`.** `CountersNeverTooHigh` holds with any number of processes and any
interleaving, failure or crash. It is about copies as much as about the table, since
every copy is written back some time. The invariant `IInv` is the types, the bound for
the rows of the table and of every request's frame (`GoodRows`), finite frames (so that
the dimensions are numbers), and two facts about requests (`GoodRequest`): one about to save a column
knows which, and a form holds the row it was opened for, without which
`RowUpdate` could write the counters of one recipient over another's. The lemmas show
that each operation on rows (`SetAll`, `Project`, `Bump`, union, subset) keeps the
bound, and `MoreReadsGood` that new images do. Theorems: `TrackingInvariant`,
`TrackingTypeCorrect`, `CountersNeverTooHigh`.

**`TrackingProofs`, second half.** What holds as long as `sound` does: no request has failed half
way, and none has written after another one changed what it had read. The code has no
lock that would make it so; the theorems say what the requests may rely on when the
users' timing happens to be good, and `sound` says what good means. Two invariants are
added to `IInv`, with `Shape` (which request can be at which step).

* `Covered`: the table has no column without a Column row, nor has the frame of a
  request that is still `fresh`. A step that saves a Column row is then a step of the
  request that adds it, or an unsound one: `DeletedColumnsStay`.
* `Serial`: a write overtakes every other request that has read, and those of them that
  write later end unsound. So when no request is `Overtaken`, either nobody has begun to write
  and the Column rows, the table and the dimensions agree (`Settled`), with each fresh
  request holding what is stored (`Reading`), or one request has, and what is stored
  agrees with how far it has come (`Half`). The counters are exact (`Exact`) in the first
  case when no image is being counted, and otherwise in the copy of the request that
  is alone in counting. That a form and a deletion which finds its column gone can end
  without harm although they are overtaken is why `Overtaken` leaves them out; that
  two images at once make each other unsound is why exactness asks for `Alone`.

`WriteSerial` does this once for every write: it is enough that the request, seen alone (`Sole`),
goes from one good state to the next; each operation is then one lemma about a
single request. `CalmSerial` does the same for the requests that start, `EndSerial` for
those that end. The dimensions need that rows keep their number when their counters are
set (`SetAllKeyed`, by a bijection, as keys do not repeat), and exact counters that
`base` never exceeds `reads` (`Bounded`), or an image could meet a counter that is missing.
Theorems: `DeletedColumnsStay`, `SerialInvariant`, `StructureStaysSound`, `CountersExact`.

**`NamesProofs`.** `MentionsDefined` is not inductive. A `{{ name }}` and an `{% if name %}`
are looked up in one dictionary, but the forms that rename something substitute one kind of mention
only; a page may save a text that is older than the last renaming; and a mention that is written raw
becomes one that is looked up as soon as a page shows it. The invariant (`MentionInv`) therefore
is about all that a text mentions, will mention when it is next opened, or that a page shows of it
(`Mentioned`): each is offered by the editor, a `{{ name }}` as a column or attribute and
an `{% if name %}` as a condition of the action, or was given up. `PageInv` says that pages
are of actions there are and hold no raw mention, `ColumnInv` that names are not shared by columns. Every action then
has to show only that what it takes from `Offered` it puts in `gone`. Theorems: `NamesInvariant`,
`NamesTypeCorrect`, `TextsMentionWhatExists`, `OverlapsComeFromUnchecked`, `RenamingKeepsMeaning`.

**`CountsProofs`.** For any finite set of rows and any formulas. A number is right for one of
three reasons: it has just been counted; nothing its formula mentions has changed since; or it
is one the code is known not to redo, because the links of the condition are not those of its formula.
So the links belong to the invariant: they are those of the formula, or a clone has left them
behind and there are none (`LinksRight`). That a query counts the same rows when only other
columns have changed is a lemma about the evaluators of `Formula`, proved once for each.
Theorems: `CountsInvariant`, `CountsTypeCorrect`, `FiltersCountRight`,
`ConditionsCountMeans`, `RecountsAreComplete`, `TextsGoWhereCounted`.

**`TransferProofs`.** For any number of processes, workflows and files. A workflow that is not in
doubt and that nobody is working on is `Good`: row and table agree, actions use
columns it has, keys are among the columns that tell rows apart (`Settled`). For every `pc` of a
clone or an import the invariant says how much of it is done (`CloneOK`, `ImportOK`,
`ActionOK`, together `JobOK`), unless the workflow is in doubt (`Reached`). The other processes do not
disturb this because two requests with a workflow in common are both marked (`Alone`):
who writes a workflow marks what the others have in hand. `WriteStep` is that argument once, and
`WriteAtOnce`, `WriteFirst`, `MakeFirst`, `OwnStep` and `RaiseStep` are its five uses; each action is one
of them. Theorems: `TransferInvariant`, `TransferTypeCorrect`, `WorkflowsAreSound`,
`KeysTellRowsApart`, `ClonesAreCopies`, `ImportsRestoreFiles`.

**`UploadProofs`.** For any files, names, values, sessions and number of uploads. The
invariant says much of what is stored (`StoredInv`) and next to nothing of what a session
remembers between two steps (`BetweenInv`), which is how it holds whatever other tabs do
in between. Its strengthening of `KeysUnique` is about the time without a table: a first
upload that fails leaves marks on columns of a table that was never stored, and all of
these are in doubt. Columns added to a table need the places of `Those` and the order of
`SetToSeqs` (`Places`, `ThoseAre`, `OrdersAre`): lists without repeated names stay so.
That columns of strings are columns there are (`TextsInv`) is proved with it.

That a merge is the promised join (`MergesAreJoins`) is a proof about the algorithm, in
the order of the code. A frame whose rows have the keys `V` is described twice, by
`BaseRow` (nothing updated yet) and by `TargetRow` (what is promised). The join of the new
columns gives base rows for the selected keys (`MatchRow`, `LeftRow`, `RightRow`,
`JoinedFrame`), or, without new columns, leaves those of the table (`KeptFrame`). Keeping
the matched rows intersects `V` with the keys of the source (`MatchedFrame`); the update
turns base rows into target rows (`UpdatedCell`, `UpdatedFrame`); appending adds the
source's keys, and its rows, which have only the columns in both tables, are target rows
because by then either the source has no others or all its keys are there
(`AppendedFrame`). At the end `V` is what was selected (`PartFrame`, `JoinedRows`). This
needs that no two rows of the source have the same selected key: the update refuses it,
and without an update a join would repeat a key of the workflow, which condition 3 refuses
(`JoinUnique`, `OneOfEach`). Theorems: `UploadInvariant`, `UploadTypeCorrect`,
`KeysStayUnique`, `MergesKeepKeys`, `MergesAreJoins`.

**Only model-checked.** Liveness (`Recoverable`, `TimelyIsExecuted`), which the prover
cannot do with fairness, and the three violations, which are counterexamples. Every other
property of the runs is a theorem. The theorems say nothing of what `MergeIsJoin` has in
its hypothesis or `Merging` leaves out: a key with another name, names given twice, and
rows to match by a column that repeats values.

## What the runs found

Where a comment, an assertion or the documentation says something the code does
not do, a run shows it (details in `PROJECT.json`, under `findings`).

| run | what happens |
|---|---|
| `lock_race` | two processes both find a workflow free and both give it to their session |
| `upload_keys` | a rejected merge leaves key marks computed from values that were not stored: with the table `k, a` = (1, 1), (2, 1) and a column of numbers `b` from a plugin, the file `a, k, b` = (3, 2, x), (-, 1, -) makes `a` 3 and 1, which is saved as a key, and is then refused because `x` is no number for `b` (`dataops/ops.py:438`): `a` is a key with 1 in both rows |
| `transfer_import` | a workflow with a number column that has categories can be exported and not imported: the categories are stripped as texts, and a workflow without a table stays behind |

More disagreements are in the models as they are in the code, and were seen while
writing them. They have no run of their own:

* `is_locked` compares the wrong way round: the API is let in while somebody works,
  and refused when nobody does (`ApiCheck`; `ApiRespectsLock` states the intention).
* An item saved after one run for a time before the next window stays pending for
  ever; editing an executed item gives an action two pending ones, which fails an
  assertion; and the script's save undoes edits and deletions made meanwhile
  (`PendingIsExecuted`, `OnePending`, `OnlyStatusSaved` in `Scheduler`). Its query selects
  items marked as deleted (`Start`), and an item for which `send_messages`
  returned a message instead of sending is stored as done (`Outcome`).
* `workflow_delete_column` and `flush_workflow` leave `query_builder_ops` with names that
  are gone (`qbOps` in `ColumnDelete`, `Flush`).
* The form of a column compares its name with those of other columns only, so that it
  can be given the name of an attribute or a condition (`FreeForColumn`,
  `NamesDistinct`), although the form of an attribute says they cannot overlap. The copy of a
  condition is compared with conditions of the action only, and what an imported
  action brings with nothing (`IsNewCopy`, `ImportAction`).
* A column renamed to a name with `&`, `<` or `>` is written raw in the texts, where
  it is not found when the text is made, nor by the next renaming, until the text is opened in the editor;
  mentions of a condition with such a name do not follow it at all (`Written`, `Unread`, `Missed`).
* Deleting a column deletes the conditions that mention it, and leaves the mentions of these in
  the texts, as well as its own (`ColumnDelete`).
* A file with an action has the columns of its conditions and not those of its text, so
  that the text may mention what is not there (`ImportAction`).
* `trck` recounts only conditions linked to the counter, and with a filter only if
  the filter is; a clone has no links (`RecountReads`, `Copy`).
* The two evaluators disagree on missing values: `not_between` and a negated order hold
  in Python and not in SQL, `less` holds in Python for a column that has only missing
  values, and `not_begins_with` is not known to the Python one (`RulePython`, `RuleSql`).
* A page of an action In that has a key column cannot be answered by students: the
  field is left out of their form and looked up in it (`Storable`).
* A merge of a plugin that is refused is reported as a success (`PluginRun`); a source
  with only its key is accepted without any effect; a right merge that has nothing to append raises
  (`PerformOverlapUpdate`); step 4 uses the keys as they were when step 3 was opened.
* A clone of a workflow without a table fails and leaves a half-made copy
  (`CloneTable`); the last save of a clone writes back old numbers, or inserts a deleted
  row again (`CloneSave`); an import that fails its last check leaves its table
  (`ImportCheck`); a file exported without a table is refused; the import of an action
  with a number category leaves its columns and the action behind (`ImportAction`).

## Not modelled

* In `WorkflowLock`: the full-row save of `lock_workflow`, which also writes back
  other fields of the row; pages that need no workflow; access
  rights, every session belonging to a user with access.
* In `Columns`: interleaved requests (some are in `Tracking`), cell values, the types
  and categories of columns except as reasons for a merge to be rejected, names of
  attributes (in `Names`).
* In `Scheduler`: the text and recipients of the emails; status 1, which is set on
  the copy and overwritten before the copy is saved; a script that reads the clock
  half a minute or more after cron starts it. What else a deletion takes with it: a copy of a
  row that is gone can be saved, which makes the row again, only if it is from before a later form
  (`Savable`), since then it may name a column that is still there; this is allowed of every such copy.
* In `Tracking`: values of other columns, positions, conditions, the address of a
  recipient changing; a key that is false in the row form (`dataops/forms.py:442`).
* In `Counts`: several requests at once; in `Names`: interleaved requests other than
  through pages that are old; which conditions a column takes with it (any, in the model); actions that are
  created, cloned or deleted; imports that fail; a file with more than one condition; names that a browser
  would read as a tag, or that are the escaped form of another name.
* In `Upload`: what `Merging` leaves out; the column "index" of an appending merge whose
  keys have different names; the type of an uploaded column when it is dates or
  booleans; two sessions at once, except for what they leave.
* In `Transfer`: logs, permissions, and the media of texts.
* Parsing of uploads and of SQL results, the code of plugins, the rendering of
  texts, visualizations, statistics, logs, accounts, profiles and LTI: I/O, foreign or vendored
  code, read-only or append-only. Sharing only decides who may open a workflow.

## Plan

What would add most, in this order:

1. `ColumnRequests`: the positions of `Columns` under interleaved requests, with the
   full-row saves of workflow and column rows; a single request implements `Columns`.
2. The table API's own ways of storing a table (no check of keys before
   `store_table_in_db` in a PUT), then the pages' operations on what they leave.
3. Merges by two key columns with different names: what the code stores is in `Merge`,
   but for a column "index" that pandas adds when rows are appended; what it should
   store is said nowhere.
