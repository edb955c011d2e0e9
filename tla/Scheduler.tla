----------------------------- MODULE Scheduler -----------------------------
(***************************************************************************)
(* Emails programmed for a later time.  The web application keeps them as  *)
(* ScheduledEmailAction rows; cron starts a script every Step ticks that   *)
(* selects the pending rows within half a step of the moment it starts,    *)
(* reads them all, and then sends and saves them one after the other.      *)
(* Nothing is locked: while the script works through its copies of the     *)
(* rows the users go on editing and deleting them, the next run may start  *)
(* before this one has finished, and a run may die between two steps.      *)
(*                                                                         *)
(* Time is kept relative to now: when[i][v] is execute - now of the v-th   *)
(* form saved for item i, cut off at -Step, and phase is the time since    *)
(* the last start of the script was due.                                   *)
(***************************************************************************)
EXTENDS Integers, FiniteSets, Functions

CONSTANTS
    Item,       \* ids of scheduled items
    Action,     \* the actions whose emails are scheduled
    Run,        \* processes running the script: the most that overlap
    Web,        \* server processes, each serving one request at a time
    Step,       \* MINUTE_STEP, and the interval of cron, in ticks
    Ahead,      \* bound: how far ahead an execution is programmed
    MaxSaves,   \* bound: forms saved for one item
    None        \* no item

ASSUME SchedulerAssumption ==
    /\ Step \in Nat \ {0} /\ Ahead \in Nat /\ MaxSaves \in Nat
    /\ None \notin Item

VARIABLES
    rows,       \* ScheduledEmailAction rows, by id
    when,       \* execute - now, by id and form saved
    saves,      \* number of forms saved for each id
    phase,      \* time since the last start of the script was due
    started,    \* whether cron has dealt with that start
    runs,       \* what each process running the script is doing
    web,        \* the request each server process is serving
    sent,       \* history: times the emails of an item and form went out
    tried,      \* history: <<item, form>> the script has executed
    fault       \* history: whether a run was lost

vars == <<rows, when, saves, phase, started, runs, web, sent, tried, fault>>
clock == <<phase, started>>
history == <<sent, tried, fault>>

Form == 1..MaxSaves

(* Status 0, 2 and 3.  Status 1, running, is set on the copy of the row    *)
(* and overwritten before the copy is saved.                               *)
Status == {"pending", "done", "error"}

Row == [action: Action, form: Form, status: Status, deleted: BOOLEAN]
Rows == UNION {[S -> Row] : S \in SUBSET Item}

NoRows == [i \in {} |-> None]

TypeOK ==
    /\ rows \in Rows
    /\ when \in [Item -> [Form -> -Step..Ahead]]
    /\ saves \in [Item -> 0..MaxSaves]
    /\ phase \in 0..Step - 1
    /\ started \in BOOLEAN
    /\ runs \in [Run -> [todo: Rows, cur: Item \cup {None},
                         row: Row \cup {None}, result: Status]]
    /\ web \in [Web -> [pc: {"idle", "form", "delete"}, id: Item \cup {None},
                        action: Action \cup {None}, row: Row \cup {None}]]
    /\ sent \in [Item -> [Form -> Nat]]
    /\ tried \subseteq Item \X Form
    /\ fault \in BOOLEAN

Idle == [todo |-> NoRows, cur |-> None, row |-> None, result |-> "pending"]
Free == [pc |-> "idle", id |-> None, action |-> None, row |-> None]

Init ==
    /\ rows = NoRows
    /\ when = [i \in Item |-> [v \in Form |-> -Step]]
    /\ saves = [i \in Item |-> 0]
    /\ phase = 0
    /\ started = FALSE
    /\ runs = [r \in Run |-> Idle]
    /\ web = [w \in Web |-> Free]
    /\ sent = [i \in Item |-> [v \in Form |-> 0]]
    /\ tried = {}
    /\ fault = FALSE

\* A row saved under an id, whether or not there was one.
Saved(i, row) == [j \in DOMAIN rows \cup {i} |-> IF j = i THEN row ELSE rows[j]]

\* A copy can be saved.  Of a row that is gone, as what it refers to is, only
\* one from before a later form, which named the column that was deleted:
\* the save inserts the row again.
Savable(i, row) == i \in DOMAIN rows \/ row.form < saves[i]

-----------------------------------------------------------------------------
(* The web application.                                                    *)

Pending(a) ==
    {i \in DOMAIN rows : /\ rows[i].action = a
                         /\ rows[i].status = "pending"
                         /\ ~rows[i].deleted}

\* email_create: an action with a pending item edits that one (the first).
EmailCreate(w, a) ==
    /\ web[w] = Free
    /\ \E i \in IF Pending(a) = {} THEN {None} ELSE Pending(a) :
          web' = [web EXCEPT ![w] =
                    [pc |-> "form", id |-> i, action |-> a,
                     row |-> IF i = None THEN None ELSE rows[i]]]
    /\ UNCHANGED <<rows, when, saves, clock, runs, history>>

\* edit_email: any item that is not deleted, executed or not.
EditEmail(w, i) ==
    /\ web[w] = Free
    /\ i \in DOMAIN rows /\ ~rows[i].deleted
    /\ web' = [web EXCEPT ![w] = [pc |-> "form", id |-> i,
                                  action |-> rows[i].action, row |-> rows[i]]]
    /\ UNCHANGED <<rows, when, saves, clock, runs, history>>

\* save_email_schedule with a valid form: the time is in the future.  The
\* whole row is saved, pending, under its id or a new one, with the column of
\* the form, so that a row which is gone by now is inserted again.
SaveSchedule(w, i, execute) ==
    LET v == saves[i] + 1 IN
    /\ web[w].pc = "form"
    /\ IF web[w].id = None THEN saves[i] = 0 ELSE i = web[w].id
    /\ saves[i] < MaxSaves
    /\ execute \in 1..Ahead
    /\ rows' = Saved(i, [action |-> web[w].action, form |-> v,
                         status |-> "pending", deleted |-> FALSE])
    /\ when' = [when EXCEPT ![i][v] = execute]
    /\ saves' = [saves EXCEPT ![i] = v]
    /\ web' = [web EXCEPT ![w] = Free]
    /\ UNCHANGED <<clock, runs, history>>

\* delete_email marks the row it has read, and saves all of it.
DeleteEmail(w, i) ==
    /\ web[w] = Free
    /\ i \in DOMAIN rows /\ ~rows[i].deleted
    /\ web' = [web EXCEPT ![w] = [pc |-> "delete", id |-> i,
                                  action |-> rows[i].action, row |-> rows[i]]]
    /\ UNCHANGED <<rows, when, saves, clock, runs, history>>

SaveDelete(w) ==
    /\ web[w].pc = "delete"
    /\ Savable(web[w].id, web[w].row)
    /\ rows' = Saved(web[w].id, [web[w].row EXCEPT !.deleted = TRUE])
    /\ web' = [web EXCEPT ![w] = Free]
    /\ UNCHANGED <<when, saves, clock, runs, history>>

\* The form is shown again or given up, or what it saves refers to an action
\* or a column that is gone.
GiveUp(w) ==
    /\ web[w] # Free
    /\ web' = [web EXCEPT ![w] = Free]
    /\ UNCHANGED <<rows, when, saves, clock, runs, history>>

\* Deleting an action, or the column with the addresses, deletes the items
\* that refer to it.
Cascade(S) ==
    /\ S # {} /\ S \subseteq DOMAIN rows
    /\ rows' = [i \in DOMAIN rows \ S |-> rows[i]]
    /\ UNCHANGED <<when, saves, clock, runs, web, history>>

-----------------------------------------------------------------------------
(* The script.                                                             *)

\* Mutants: every pending item that is due, however late; and nothing before
\* its time.
DueEver(d) == 2 * d < Step

DueNow(d) == -Step < 2 * d /\ d <= 0

\* Less than half a step ago and less than half a step ahead.
Due(d) == -Step < 2 * d /\ 2 * d < Step

\* execute_email_actions reads the pending rows in the window around its
\* start; the rows marked as deleted are among them.
Start(r) ==
    LET due == {i \in DOMAIN rows : /\ rows[i].status = "pending"
                                    /\ Due(when[i][rows[i].form])} IN
    /\ phase = 0 /\ ~started
    /\ runs[r] = Idle
    /\ started' = TRUE
    /\ runs' = [runs EXCEPT ![r].todo = Restrict(rows, due)]
    /\ UNCHANGED <<rows, when, saves, phase, web, history>>

\* The status of a copy once its emails have been handled: an exception is an
\* error, a message that says why nothing was sent is not.
Outcome(raised) == IF raised THEN "error" ELSE "done"

\* send_messages for one of the copies: it sends the emails or not, and
\* returns or raises.  What the copy refers to is read now, and may be gone,
\* unless another column was.
Send(r, i, out, raised) ==
    LET row == runs[r].todo[i] IN
    /\ runs[r].cur = None
    /\ i \in DOMAIN runs[r].todo
    /\ Savable(i, row) \/ (~out /\ raised)
    /\ sent' = [sent EXCEPT ![i][row.form] = IF out THEN @ + 1 ELSE @]
    /\ tried' = tried \cup {<<i, row.form>>}
    /\ runs' = [runs EXCEPT ![r] =
                 [todo |-> Restrict(runs[r].todo, DOMAIN runs[r].todo \ {i}),
                  cur |-> i, row |-> row, result |-> Outcome(raised)]]
    /\ UNCHANGED <<rows, when, saves, clock, web, fault>>

\* Mutants of SaveItem: only the status written, to the row as it is now; and
\* the row saved while it is still running.
SaveItemStatus(r) ==
    LET i == runs[r].cur IN
    /\ i # None /\ i \in DOMAIN rows
    /\ rows' = [rows EXCEPT ![i].status = runs[r].result]
    /\ runs' = [runs EXCEPT ![r] = [Idle EXCEPT !.todo = runs[r].todo]]
    /\ UNCHANGED <<when, saves, clock, web, history>>

SaveItemRunning(r) ==
    LET i == runs[r].cur IN
    /\ i # None /\ i \in DOMAIN rows
    /\ rows' = Saved(i, [runs[r].row EXCEPT !.status = "running"])
    /\ runs' = [runs EXCEPT ![r] = [Idle EXCEPT !.todo = runs[r].todo]]
    /\ UNCHANGED <<when, saves, clock, web, history>>

\* The copy is saved whole, over whatever the row has become.
SaveItem(r) ==
    LET i == runs[r].cur IN
    /\ i # None /\ Savable(i, runs[r].row)
    /\ rows' = Saved(i, [runs[r].row EXCEPT !.status = runs[r].result])
    /\ runs' = [runs EXCEPT ![r] = [Idle EXCEPT !.todo = runs[r].todo]]
    /\ UNCHANGED <<when, saves, clock, web, history>>

\* When the row is gone, and so is what the copy refers to, the save raises
\* outside the try, and ends the script.
SaveItemGone(r) ==
    /\ runs[r].cur # None /\ runs[r].cur \notin DOMAIN rows
    /\ runs' = [runs EXCEPT ![r] = Idle]
    /\ fault' = TRUE
    /\ UNCHANGED <<rows, when, saves, clock, web, sent, tried>>

-----------------------------------------------------------------------------
(* Cron, the machine and time.                                             *)

\* The machine is down when the script should start.
Skip ==
    /\ phase = 0 /\ ~started
    /\ started' = TRUE
    /\ fault' = TRUE
    /\ UNCHANGED <<rows, when, saves, phase, runs, web, sent, tried>>

Crash(r) ==
    /\ runs[r] # Idle
    /\ runs' = [runs EXCEPT ![r] = Idle]
    /\ fault' = TRUE
    /\ UNCHANGED <<rows, when, saves, clock, web, sent, tried>>

Tick ==
    /\ phase = 0 => started
    /\ phase' = IF phase + 1 = Step THEN 0 ELSE phase + 1
    /\ started' = (phase' # 0)
    /\ when' = [i \in Item |-> [v \in Form |->
                  IF when[i][v] > -Step THEN when[i][v] - 1 ELSE -Step]]
    /\ UNCHANGED <<rows, saves, runs, web, history>>

-----------------------------------------------------------------------------
WebStep(w) ==
    \/ \E a \in Action : EmailCreate(w, a)
    \/ \E i \in Item : EditEmail(w, i) \/ DeleteEmail(w, i)
    \/ \E i \in Item, execute \in 1..Ahead : SaveSchedule(w, i, execute)
    \/ SaveDelete(w) \/ GiveUp(w)

Execute(r) ==
    \/ \E i \in Item, out, raised \in BOOLEAN : Send(r, i, out, raised)
    \/ SaveItem(r) \/ SaveItemGone(r)

Next ==
    \/ \E w \in Web : WebStep(w)
    \/ \E S \in SUBSET Item : Cascade(S)
    \/ \E r \in Run : Start(r) \/ Execute(r) \/ Crash(r)
    \/ Skip \/ Tick

Spec == Init /\ [][Next]_vars

\* Time passes, cron starts the script, and the script goes on.
FairSpec ==
    /\ Spec
    /\ WF_vars(Tick)
    /\ WF_vars(\E r \in Run : Start(r))
    /\ \A r \in Run : WF_vars(Execute(r))

-----------------------------------------------------------------------------
(* Properties.                                                             *)

\* The emails of a form saved once go out at most once, whatever overlaps or
\* dies: no two runs have the same time in their windows (execute__gt, __lt).
AtMostOnce == \A i \in Item, v \in Form : sent[i][v] <= 1

\* A row that says it was executed was executed as it stands: what was saved
\* in the meantime is not marked as done without having been (item.save).
DoneWasTried ==
    \A i \in DOMAIN rows :
        rows[i].status # "pending" => <<i, rows[i].form>> \in tried

Programmed(i, v) ==
    i \in DOMAIN rows /\ rows[i].form = v /\ rows[i].status = "pending"

\* The window it belongs to is still to come.
InTime(i, v) ==
    IF started THEN 2 * (when[i][v] + phase) > Step ELSE 2 * when[i][v] > -Step

\* An item saved before the run whose window it is in is executed, unless it
\* is changed, or a run is lost.
TimelyIsExecuted ==
    \A i \in Item, v \in Form :
        Programmed(i, v) /\ InTime(i, v)
            ~> fault \/ <<i, v>> \in tried \/ ~Programmed(i, v)

\* "The action is executed at the selected time": every pending item, unless
\* it is changed, or a run is lost.
PendingIsExecuted ==
    \A i \in Item, v \in Form :
        Programmed(i, v) ~> fault \/ <<i, v>> \in tried \/ ~Programmed(i, v)

\* "There should only be one" pending item for each action (email_create).
OnePending == \A a \in Action : Cardinality(Pending(a)) <= 1

\* The script saves "the new status in the DB", and nothing else of the row.
OnlyStatusSaved ==
    [][\A r \in Run : SaveItem(r) =>
          \A i \in DOMAIN rows : rows'[i] = [rows[i] EXCEPT !.status = rows'[i].status]]_vars

=============================================================================
