-------------------------- MODULE SchedulerProofs --------------------------
(***************************************************************************)
(* Proofs about Scheduler: types, and that the emails of a form saved once *)
(* go out at most once, for any number of items, actions, overlapping runs *)
(* and server processes, and for every interval of cron.                   *)
(***************************************************************************)
EXTENDS Scheduler, TLAPS

-----------------------------------------------------------------------------
(* Type correctness. *)

\* What a server process keeps is there when the next step needs it, and a
\* run that has handled a row has its copy.
Shape ==
    /\ \A w \in Web :
          /\ web[w].pc = "form" => web[w].action \in Action
          /\ web[w].pc = "delete" => web[w].id \in Item /\ web[w].row \in Row
    /\ \A r \in Run : runs[r].cur # None => runs[r].row \in Row

TypeInv == TypeOK /\ Shape

\* Tables of rows are functions from ids to rows.
LEMMA RowsAre ==
  ASSUME NEW f
  PROVE f \in Rows <=> /\ DOMAIN f \subseteq Item
                       /\ f = [i \in DOMAIN f |-> f[i]]
                       /\ \A i \in DOMAIN f : f[i] \in Row
<1>1. ASSUME f \in Rows
      PROVE DOMAIN f \subseteq Item /\ f \in [DOMAIN f -> Row]
  <2>1. PICK S \in SUBSET Item : f \in [S -> Row]
    BY <1>1 DEF Rows
  <2> QED
    BY <2>1
<1>2. ASSUME DOMAIN f \subseteq Item, f \in [DOMAIN f -> Row]
      PROVE f \in Rows
  BY <1>2 DEF Rows
<1> QED
  BY <1>1, <1>2

\* A table with one row saved is a table of rows.
LEMMA SavedRows ==
  ASSUME rows \in Rows, NEW i \in Item, NEW row \in Row
  PROVE Saved(i, row) \in Rows
BY RowsAre DEF Saved

\* Some rows of a table are a table of rows.
LEMMA RestrictRows ==
  ASSUME NEW f \in Rows, NEW S, S \subseteq DOMAIN f
  PROVE /\ Restrict(f, S) \in Rows
        /\ DOMAIN Restrict(f, S) = S
        /\ \A i \in S : Restrict(f, S)[i] = f[i]
BY RowsAre DEF Restrict

\* The initial state is of the right type.
LEMMA InitType == Init => TypeInv
<1> SUFFICES ASSUME Init PROVE TypeInv
  OBVIOUS
<1>1. NoRows \in Rows
  BY RowsAre DEF NoRows
<1>2. /\ Idle \in [todo: Rows, cur: Item \cup {None}, row: Row \cup {None}, result: Status]
      /\ Free \in [pc: {"idle", "form", "delete"}, id: Item \cup {None},
                   action: Action \cup {None}, row: Row \cup {None}]
  BY <1>1 DEF Idle, Free, Status
<1>3. /\ phase \in 0..Step - 1 /\ -Step \in -Step..Ahead
      /\ saves \in [Item -> 0..MaxSaves]
  BY SchedulerAssumption DEF Init
<1>4. /\ when \in [Item -> [Form -> -Step..Ahead]]
      /\ sent \in [Item -> [Form -> Nat]]
  BY <1>3 DEF Init
<1>5. TypeOK
  BY <1>1, <1>2, <1>3, <1>4 DEF Init, TypeOK
<1>6. Shape
  BY DEF Init, Shape, Idle, Free
<1> QED
  BY <1>5, <1>6 DEF TypeInv

\* A request reads rows and saves one; the form saved is a new one.
LEMMA WebType ==
  ASSUME TypeInv, NEW w \in Web, WebStep(w)
  PROVE TypeInv'
<1> USE DEF TypeInv
<1>1. rows \in Rows /\ \A i \in DOMAIN rows : i \in Item /\ rows[i] \in Row
  BY RowsAre DEF TypeOK
<1>2. ASSUME NEW a \in Action, EmailCreate(w, a) PROVE TypeInv'
  <2>1. PICK i \in Item \cup {None} :
           /\ i # None => i \in DOMAIN rows
           /\ web' = [web EXCEPT ![w] =
                    [pc |-> "form", id |-> i, action |-> a,
                     row |-> IF i = None THEN None ELSE rows[i]]]
    BY <1>1, <1>2 DEF EmailCreate, Pending
  <2>2. TypeOK'
    BY <1>1, <1>2, <2>1 DEF TypeOK, EmailCreate, clock, history
  <2>3. Shape'
    BY <1>2, <2>1 DEF Shape, TypeOK, EmailCreate
  <2> QED
    BY <2>2, <2>3
<1>3. ASSUME NEW i \in Item, EditEmail(w, i) PROVE TypeInv'
  <2>1. rows[i] \in Row /\ rows[i].action \in Action
    BY <1>1, <1>3 DEF EditEmail, Row
  <2>2. TypeOK'
    BY <1>3, <2>1 DEF TypeOK, EditEmail, clock, history
  <2>3. Shape'
    BY <1>3, <2>1 DEF Shape, TypeOK, EditEmail
  <2> QED
    BY <2>2, <2>3
<1>4. ASSUME NEW i \in Item, DeleteEmail(w, i) PROVE TypeInv'
  <2>1. rows[i] \in Row /\ rows[i].action \in Action
    BY <1>1, <1>4 DEF DeleteEmail, Row
  <2>2. TypeOK'
    BY <1>4, <2>1 DEF TypeOK, DeleteEmail, clock, history
  <2>3. Shape'
    BY <1>4, <2>1 DEF Shape, TypeOK, DeleteEmail
  <2> QED
    BY <2>2, <2>3
<1>5. ASSUME NEW i \in Item, NEW x \in 1..Ahead, SaveSchedule(w, i, x) PROVE TypeInv'
  <2> DEFINE v == saves[i] + 1
             row == [action |-> web[w].action, form |-> v,
                     status |-> "pending", deleted |-> FALSE]
  <2>1. v \in Form /\ v \in 0..MaxSaves
    BY <1>5, SchedulerAssumption DEF SaveSchedule, TypeOK, Form
  <2>2. row \in Row
    BY <1>5, <2>1 DEF Shape, SaveSchedule, Row, Status
  <2>3. rows' \in Rows
    BY <1>1, <1>5, <2>2, SavedRows DEF SaveSchedule
  <2>4. x \in -Step..Ahead
    BY SchedulerAssumption
  <2>5. when' \in [Item -> [Form -> -Step..Ahead]]
    BY <1>5, <2>1, <2>4 DEF SaveSchedule, TypeOK
  <2>6. TypeOK'
    BY <1>5, <2>1, <2>3, <2>5 DEF TypeOK, SaveSchedule, clock, history, Free
  <2>7. Shape'
    BY <1>5 DEF Shape, TypeOK, SaveSchedule, Free
  <2> QED
    BY <2>6, <2>7
<1>6. ASSUME SaveDelete(w) PROVE TypeInv'
  <2>1. web[w].id \in Item /\ [web[w].row EXCEPT !.deleted = TRUE] \in Row
    BY <1>6 DEF SaveDelete, Shape, Row
  <2>2. rows' \in Rows
    BY <1>1, <1>6, <2>1, SavedRows DEF SaveDelete
  <2>3. TypeOK'
    BY <1>6, <2>2 DEF TypeOK, SaveDelete, clock, history, Free
  <2>4. Shape'
    BY <1>6 DEF Shape, TypeOK, SaveDelete, Free
  <2> QED
    BY <2>3, <2>4
<1>7. ASSUME GiveUp(w) PROVE TypeInv'
  BY <1>7 DEF GiveUp, TypeOK, Shape, clock, history, Free
<1> QED
  BY <1>2, <1>3, <1>4, <1>5, <1>6, <1>7 DEF WebStep

\* A run copies rows, and saves a copy with another status.
LEMMA RunType ==
  ASSUME TypeInv, NEW r \in Run, Start(r) \/ Execute(r) \/ Crash(r)
  PROVE TypeInv'
<1> USE DEF TypeInv
<1>1. /\ rows \in Rows /\ \A i \in DOMAIN rows : i \in Item /\ rows[i] \in Row
      /\ NoRows \in Rows
  BY RowsAre DEF TypeOK, NoRows
<1>2. /\ runs[r].todo \in Rows
      /\ \A i \in DOMAIN runs[r].todo : i \in Item /\ runs[r].todo[i] \in Row
  BY RowsAre DEF TypeOK
<1> DEFINE Process == [todo: Rows, cur: Item \cup {None}, row: Row \cup {None}, result: Status]
<1>3. Idle \in Process /\ [Idle EXCEPT !.todo = runs[r].todo] \in Process
  BY <1>1, <1>2 DEF Idle, Status
<1>4. ASSUME Start(r) PROVE TypeInv'
  <2> DEFINE due == {i \in DOMAIN rows : /\ rows[i].status = "pending"
                                         /\ Due(when[i][rows[i].form])}
             copies == Restrict(rows, due)
  <2>1. copies \in Rows
    BY <1>1, RestrictRows
  <2> HIDE DEF copies
  <2>2. runs' \in [Run -> Process]
    BY <1>4, <2>1 DEF Start, TypeOK, copies
  <2>3. TypeOK'
    BY <1>4, <2>2 DEF Start, TypeOK, history
  <2>4. Shape'
    BY <1>4 DEF Start, TypeOK, Shape, Idle
  <2> QED
    BY <2>3, <2>4
<1>5. ASSUME NEW i \in Item, NEW out \in BOOLEAN, NEW raised \in BOOLEAN, Send(r, i, out, raised)
      PROVE TypeInv'
  <2> DEFINE row == runs[r].todo[i]
             rest == Restrict(runs[r].todo, DOMAIN runs[r].todo \ {i})
  <2>1. rest \in Rows /\ row \in Row /\ row.form \in Form /\ Outcome(raised) \in Status
    BY <1>2, <1>5, RestrictRows DEF Send, Row, Outcome, Status
  <2> HIDE DEF rest
  <2>2. runs' \in [Run -> Process]
    BY <1>5, <2>1 DEF Send, TypeOK, rest
  <2>3. sent' \in [Item -> [Form -> Nat]] /\ tried' \subseteq Item \X Form
    BY <1>5, <2>1 DEF Send, TypeOK
  <2>4. TypeOK'
    BY <1>5, <2>2, <2>3 DEF Send, TypeOK, clock
  <2>5. Shape'
    BY <1>5, <2>1 DEF Send, TypeOK, Shape
  <2> QED
    BY <2>4, <2>5
<1>6. ASSUME SaveItem(r) PROVE TypeInv'
  <2>1. runs[r].cur \in Item /\ [runs[r].row EXCEPT !.status = runs[r].result] \in Row
    BY <1>6 DEF SaveItem, TypeOK, Shape, Row
  <2>2. rows' \in Rows
    BY <1>1, <1>6, <2>1, SavedRows DEF SaveItem
  <2>3. TypeOK'
    BY <1>3, <1>6, <2>2 DEF SaveItem, TypeOK, clock, history
  <2>4. Shape'
    BY <1>6 DEF SaveItem, TypeOK, Shape, Idle
  <2> QED
    BY <2>3, <2>4
<1>7. ASSUME SaveItemGone(r) \/ Crash(r) PROVE TypeInv'
  <2>1. TypeOK'
    BY <1>3, <1>7 DEF SaveItemGone, Crash, TypeOK, clock
  <2>2. Shape'
    BY <1>7 DEF SaveItemGone, Crash, TypeOK, Shape, Idle
  <2> QED
    BY <2>1, <2>2
<1> QED
  BY <1>4, <1>5, <1>6, <1>7 DEF Execute

\* Deletions, missed starts and the passing of time.
LEMMA WorldType ==
  ASSUME TypeInv, (\E S \in SUBSET Item : Cascade(S)) \/ Skip \/ Tick
  PROVE TypeInv'
<1> USE DEF TypeInv
<1>1. ASSUME NEW S \in SUBSET Item, Cascade(S) PROVE TypeInv'
  <2>1. rows' \in Rows
    BY <1>1, RowsAre DEF Cascade, TypeOK
  <2>2. TypeOK' /\ Shape'
    BY <1>1, <2>1 DEF Cascade, TypeOK, Shape, clock, history
  <2> QED
    BY <2>2
<1>2. ASSUME Skip PROVE TypeInv'
  BY <1>2 DEF Skip, TypeOK, Shape
<1>3. ASSUME Tick PROVE TypeInv'
  <2>1. phase' \in 0..Step - 1
    BY <1>3, SchedulerAssumption DEF Tick, TypeOK
  <2>2. \A x \in -Step..Ahead : (IF x > -Step THEN x - 1 ELSE -Step) \in -Step..Ahead
    BY SchedulerAssumption
  <2>3. when' \in [Item -> [Form -> -Step..Ahead]]
    BY <1>3, <2>2 DEF Tick, TypeOK
  <2>4. TypeOK' /\ Shape'
    BY <1>3, <2>1, <2>3 DEF Tick, TypeOK, Shape, history
  <2> QED
    BY <2>4
<1> QED
  BY <1>1, <1>2, <1>3

\* Every step of the system keeps the types.
LEMMA NextType == ASSUME TypeInv, [Next]_vars PROVE TypeInv'
<1>1. CASE UNCHANGED vars
  BY <1>1 DEF vars, TypeInv, TypeOK, Shape
<1>2. CASE Next
  BY <1>2, WebType, RunType, WorldType DEF Next
<1> QED
  BY <1>1, <1>2

\* Every variable keeps its type.
THEOREM SchedulerTypeCorrect == Spec => []TypeOK
<1>1. TypeInv /\ [Next]_vars => TypeInv'
  BY NextType
<1>2. TypeInv => TypeOK
  BY DEF TypeInv
<1> QED
  BY <1>1, <1>2, InitType, PTL DEF Spec

-----------------------------------------------------------------------------
(* Once only.  A form is spent when no window still to come has its time.  *)
(* What a run has selected is spent and in no other run, so it is sent     *)
(* before the run lets go of it or never; what was sent is spent.          *)

Spent(i, v) ==
    IF started THEN 2 * (when[i][v] + phase) < Step ELSE 2 * when[i][v] <= -Step

\* Copies of rows are of forms that have been saved: a new form has none.
Known ==
    /\ \A i \in DOMAIN rows : rows[i].form <= saves[i]
    /\ \A w \in Web : web[w].pc = "delete" => web[w].row.form <= saves[web[w].id]
    /\ \A r \in Run : runs[r].cur # None => runs[r].row.form <= saves[runs[r].cur]

Waiting(r) ==
    \A i \in DOMAIN runs[r].todo :
        /\ runs[r].todo[i].form <= saves[i]
        /\ sent[i][runs[r].todo[i].form] = 0
        /\ Spent(i, runs[r].todo[i].form)

Apart(q, r) ==
    \A i \in DOMAIN runs[q].todo \cap DOMAIN runs[r].todo :
        runs[q].todo[i].form # runs[r].todo[i].form

SentOnce ==
    \A i \in Item, v \in Form :
        /\ sent[i][v] \in {0, 1}
        /\ sent[i][v] = 1 => v <= saves[i] /\ Spent(i, v)

OnceInv ==
    /\ TypeInv
    /\ phase # 0 => started
    /\ Known
    /\ \A r \in Run : Waiting(r)
    /\ \A q, r \in Run : q # r => Apart(q, r)
    /\ SentOnce

\* Nothing is saved, waiting or sent at the start.
LEMMA InitOnce == Init => OnceInv
<1> SUFFICES ASSUME Init PROVE OnceInv
  OBVIOUS
<1>1. TypeInv
  BY InitType
<1>2. Known /\ SentOnce
  BY DEF Init, Known, SentOnce, Idle, Free, NoRows
<1>3. \A r \in Run : runs[r].todo = NoRows /\ DOMAIN NoRows = {}
  BY DEF Init, Idle, NoRows
<1>4. (\A r \in Run : Waiting(r)) /\ (\A q, r \in Run : Apart(q, r))
  BY <1>3 DEF Waiting, Apart
<1> QED
  BY <1>1, <1>2, <1>4 DEF OnceInv, Init

\* What the rows in memory have to do with the types.
LEMMA CopyFacts ==
  ASSUME TypeInv
  PROVE /\ \A i \in DOMAIN rows : i \in Item /\ rows[i] \in Row /\ rows[i].form \in Form
        /\ \A r \in Run : \A i \in DOMAIN runs[r].todo :
              /\ i \in Item /\ runs[r].todo[i] \in Row
              /\ runs[r].todo[i].form \in Form
        /\ runs \in [Run -> [todo: Rows, cur: Item \cup {None},
                              row: Row \cup {None}, result: Status]]
BY RowsAre DEF TypeInv, TypeOK, Row

\* The web application saves new forms, and copies of forms saved before.
LEMMA WebOnce ==
  ASSUME OnceInv, NEW w \in Web, WebStep(w)
  PROVE OnceInv'
<1> USE DEF OnceInv
<1>1. TypeInv'
  BY WebType
<1>2. UNCHANGED <<clock, runs, history>>
  BY DEF WebStep, EmailCreate, EditEmail, DeleteEmail, SaveSchedule, SaveDelete, GiveUp
<1>3. CASE UNCHANGED <<when, saves>>
  <2>1. Known'
    <3>1. CASE rows' = rows
      <4>1. \A u \in Web : web'[u].pc = "delete" =>
               \/ web'[u] = web[u]
               \/ web'[u].id \in DOMAIN rows /\ web'[u].row = rows[web'[u].id]
        <5>1. CASE \E i \in Item : DeleteEmail(w, i)
          BY <5>1 DEF DeleteEmail, TypeInv, TypeOK
        <5>2. CASE ~\E i \in Item : DeleteEmail(w, i)
          <6> DEFINE Changes == /\ \A u \in Web : u # w => web'[u] = web[u]
                                /\ web'[w].pc # "delete"
          <6>1. w \in DOMAIN web /\ DOMAIN web = Web
            BY DEF TypeInv, TypeOK
          <6>2. CASE \E a \in Action : EmailCreate(w, a)
            <7>1. Changes
              BY <6>1, <6>2 DEF EmailCreate
            <7> QED
              BY <7>1
          <6>3. CASE \E i \in Item : EditEmail(w, i)
            <7>1. Changes
              BY <6>1, <6>3 DEF EditEmail
            <7> QED
              BY <7>1
          <6>4. CASE SaveDelete(w) \/ GiveUp(w) \/ \E i \in Item, x \in 1..Ahead : SaveSchedule(w, i, x)
            <7>1. web' = [web EXCEPT ![w] = Free]
              BY <6>4 DEF SaveDelete, GiveUp, SaveSchedule
            <7>2. Changes
              BY <6>1, <7>1 DEF Free
            <7> QED
              BY <7>2
          <6> QED
            BY <5>2, <6>2, <6>3, <6>4 DEF WebStep
        <5> QED
          BY <5>1, <5>2
      <4> QED
        BY <1>2, <1>3, <3>1, <4>1 DEF Known
    <3>2. CASE SaveDelete(w)
      BY <1>2, <1>3, <3>2 DEF SaveDelete, Saved, Known, TypeInv, TypeOK, Shape, Row, Free
    <3>3. CASE \E i \in Item, x \in 1..Ahead : SaveSchedule(w, i, x)
      BY <1>3, <3>3 DEF SaveSchedule, TypeInv, TypeOK
    <3> QED
      BY <3>1, <3>2, <3>3 DEF WebStep, EmailCreate, EditEmail, DeleteEmail, GiveUp
  <2>2. SentOnce' /\ (\A r \in Run : Waiting(r)') /\ (\A q, r \in Run : q # r => Apart(q, r)')
    BY <1>2, <1>3 DEF SentOnce, Waiting, Apart, Spent, clock, history
  <2> QED
    BY <1>1, <1>2, <2>1, <2>2 DEF clock
<1>4. ASSUME NEW i \in Item, NEW x \in 1..Ahead, SaveSchedule(w, i, x) PROVE OnceInv'
  <2> DEFINE v == saves[i] + 1
  <2>1. /\ v \in Form /\ saves[i] \in Nat /\ saves' = [saves EXCEPT ![i] = v]
        /\ \A j \in Item : saves[j] \in Nat /\ saves[j] <= saves'[j]
        /\ \A j \in Item, u \in Form : (j # i \/ u # v) => when'[j][u] = when[j][u]
    <3>1. v \in Form /\ saves[i] \in Nat /\ saves' = [saves EXCEPT ![i] = v]
      BY <1>4, SchedulerAssumption DEF SaveSchedule, TypeInv, TypeOK, Form
    <3>2. \A j \in Item : saves[j] \in Nat /\ saves[j] <= saves'[j]
      BY <3>1, SchedulerAssumption DEF TypeInv, TypeOK
    <3>3. when' = [when EXCEPT ![i][v] = x] /\ when \in [Item -> [Form -> -Step..Ahead]]
      BY <1>4 DEF SaveSchedule, TypeInv, TypeOK
    <3>4. \A j \in Item, u \in Form : (j # i \/ u # v) => when'[j][u] = when[j][u]
      BY <3>1, <3>3
    <3> QED
      BY <3>1, <3>2, <3>4
  <2>2. Known'
    <3>1. \A j \in DOMAIN rows' : rows'[j].form <= saves'[j]
      <4>1. \A j \in DOMAIN rows' :
               \/ j = i /\ rows'[j].form = v
               \/ j \in DOMAIN rows /\ j \in Item /\ rows'[j] = rows[j] /\ rows[j].form \in Form
        BY <1>4, CopyFacts DEF SaveSchedule, Saved
      <4>2. saves'[i] = v
        BY <2>1 DEF TypeInv, TypeOK
      <4>3. \A j \in DOMAIN rows : rows[j].form <= saves[j]
        BY DEF Known
      <4> QED
        BY <2>1, <4>1, <4>2, <4>3 DEF Form
    <3>2. \A u \in Web : web'[u].pc = "delete" =>
             u # w /\ web'[u] = web[u] /\ web[u].id \in Item /\ web[u].row \in Row
      BY <1>4 DEF SaveSchedule, Free, TypeInv, TypeOK, Shape
    <3>3. \A u \in Web : web'[u].pc = "delete" => web'[u].row.form <= saves'[web'[u].id]
      BY <2>1, <3>2 DEF Known, Row, Form
    <3>4. \A r \in Run : runs[r].cur # None => runs[r].cur \in Item /\ runs[r].row.form \in Form
      BY CopyFacts DEF TypeInv, Shape, Row
    <3>5. \A r \in Run : runs'[r].cur # None => runs'[r].row.form <= saves'[runs'[r].cur]
      BY <1>2, <2>1, <3>4 DEF Known, Form
    <3> QED
      BY <3>1, <3>3, <3>5 DEF Known
  <2>3. \A j \in Item, u \in Form : u <= saves[j] /\ Spent(j, u) => Spent(j, u)' /\ u <= saves'[j]
    BY <1>2, <2>1 DEF Spent, clock, Form
  <2>4. SentOnce'
    BY <1>2, <2>3 DEF SentOnce, history
  <2>5. \A r \in Run : Waiting(r)'
    BY <1>2, <2>3, CopyFacts DEF Waiting, history
  <2>6. \A q, r \in Run : q # r => Apart(q, r)'
    BY <1>2 DEF Apart
  <2> QED
    BY <1>1, <1>2, <2>2, <2>4, <2>5, <2>6 DEF clock
<1> QED
  BY <1>3, <1>4 DEF WebStep, EmailCreate, EditEmail, DeleteEmail, SaveDelete, GiveUp

\* A run selects forms that are not spent, and spends them: the start it is
\* due for has passed.  What it sends was waiting for it alone.
LEMMA RunOnce ==
  ASSUME OnceInv, NEW r \in Run, Start(r) \/ Execute(r) \/ Crash(r)
  PROVE OnceInv'
<1> USE DEF OnceInv
<1>1. TypeInv'
  BY RunType
<1>2. NoRows = Idle.todo /\ DOMAIN NoRows = {} /\ Idle.cur = None
  BY DEF NoRows, Idle
<1>3. ASSUME Start(r) PROVE OnceInv'
  <2> DEFINE due == {i \in DOMAIN rows : /\ rows[i].status = "pending"
                                         /\ Due(when[i][rows[i].form])}
             copies == Restrict(rows, due)
  <2>1. /\ DOMAIN copies = due
        /\ \A i \in due : /\ copies[i] = rows[i] /\ i \in Item /\ rows[i].form \in Form
                         /\ rows[i].form <= saves[i] /\ Due(when[i][rows[i].form])
    <3>1. rows \in Rows /\ due \subseteq DOMAIN rows
      BY DEF TypeInv, TypeOK
    <3>2. DOMAIN copies = due /\ \A i \in due : copies[i] = rows[i]
      BY <3>1, RestrictRows
    <3>3. \A i \in due : /\ i \in Item /\ rows[i].form \in Form
                       /\ rows[i].form <= saves[i] /\ Due(when[i][rows[i].form])
      BY CopyFacts DEF Known
    <3> QED
      BY <3>2, <3>3
  <2>2. /\ runs' = [runs EXCEPT ![r].todo = copies] /\ runs'[r].todo = copies
        /\ \A q \in Run : q # r => runs'[q] = runs[q]
        /\ \A q \in Run : runs'[q].cur = runs[q].cur /\ runs'[q].row = runs[q].row
    <3>1. runs' = [runs EXCEPT ![r].todo = copies]
      BY <1>3 DEF Start
    <3> HIDE DEF copies
    <3> QED
      BY <3>1, CopyFacts
  <2> HIDE DEF due, copies
  <2>3. /\ phase = 0 /\ ~started /\ started'
        /\ UNCHANGED <<rows, when, saves, phase, web, sent>>
    BY <1>3 DEF Start, history
  <2>4. \A i \in Item, v \in Form : when[i][v] \in Int
    BY SchedulerAssumption DEF TypeInv, TypeOK
  <2>5. \A i \in Item, v \in Form :
           /\ Spent(i, v) => Spent(i, v)' /\ ~Due(when[i][v])
           /\ Due(when[i][v]) => Spent(i, v)'
    BY <2>3, <2>4, SchedulerAssumption DEF Spent, Due
  <2>6. \A i \in Item, v \in Form : sent[i][v] = 0 \/ Spent(i, v)
    BY DEF SentOnce
  <2>7. Known'
    BY <2>2, <2>3 DEF Known
  <2>8. SentOnce'
    BY <2>3, <2>5 DEF SentOnce
  <2>9. \A q \in Run : Waiting(q)'
    <3>1. Waiting(r)'
      BY <2>1, <2>2, <2>3, <2>5, <2>6 DEF Waiting
    <3>2. \A q \in Run : q # r => Waiting(q)'
      BY <2>2, <2>3, <2>5, CopyFacts DEF Waiting
    <3> QED
      BY <3>1, <3>2
  <2>10. \A q, p \in Run : q # p => Apart(q, p)'
    <3>1. \A q \in Run : q # r => \A i \in DOMAIN runs[q].todo \cap due :
             runs[q].todo[i].form # rows[i].form
      BY <2>1, <2>5, CopyFacts DEF Waiting
    <3>2. \A q \in Run : q # r => Apart(q, r)' /\ Apart(r, q)'
      BY <2>1, <2>2, <3>1 DEF Apart
    <3>3. \A q, p \in Run : q # p /\ q # r /\ p # r => Apart(q, p)'
      BY <2>2 DEF Apart
    <3> QED
      BY <3>2, <3>3
  <2> QED
    BY <1>1, <2>3, <2>7, <2>8, <2>9, <2>10
<1>4. ASSUME NEW i \in Item, NEW out \in BOOLEAN, NEW raised \in BOOLEAN, Send(r, i, out, raised)
      PROVE OnceInv'
  <2> DEFINE row == runs[r].todo[i]
             v == row.form
             rest == Restrict(runs[r].todo, DOMAIN runs[r].todo \ {i})
  <2>1. /\ i \in DOMAIN runs[r].todo /\ row \in Row /\ v \in Form
        /\ DOMAIN rest = DOMAIN runs[r].todo \ {i}
        /\ \A j \in DOMAIN rest : rest[j] = runs[r].todo[j]
    BY <1>4, CopyFacts, RestrictRows DEF Send
  <2>2. /\ sent[i][v] = 0 /\ Spent(i, v) /\ v <= saves[i]
    BY <2>1 DEF Waiting
  <2>3. /\ runs'[r].todo = rest /\ runs'[r].cur = i /\ runs'[r].row = row
        /\ \A q \in Run : q # r => runs'[q] = runs[q]
        /\ sent' = [sent EXCEPT ![i][v] = IF out THEN @ + 1 ELSE @]
    BY <1>4, CopyFacts DEF Send
  <2> HIDE DEF rest
  <2>4. UNCHANGED <<rows, when, saves, phase, started, web>>
    BY <1>4 DEF Send, clock
  <2>5. /\ sent'[i][v] \in {0, 1}
        /\ \A j \in Item, u \in Form : (j # i \/ u # v) => sent'[j][u] = sent[j][u]
    BY <2>1, <2>2, <2>3 DEF TypeInv, TypeOK
  <2>6. SentOnce'
    BY <2>2, <2>4, <2>5 DEF SentOnce, Spent
  <2>7. Known'
    BY <2>2, <2>3, <2>4 DEF Known
  <2>8. \A q \in Run : \A j \in DOMAIN runs'[q].todo :
           /\ j \in DOMAIN runs[q].todo /\ runs'[q].todo[j] = runs[q].todo[j]
           /\ j # i \/ runs[q].todo[j].form # v
    BY <2>1, <2>3 DEF Apart
  <2>9. \A q \in Run : Waiting(q)'
    BY <2>4, <2>5, <2>8, CopyFacts DEF Waiting, Spent
  <2>10. \A q, p \in Run : q # p => Apart(q, p)'
    BY <2>8 DEF Apart
  <2> QED
    BY <1>1, <2>4, <2>6, <2>7, <2>9, <2>10
<1>5. ASSUME SaveItem(r) PROVE OnceInv'
  <2> DEFINE i == runs[r].cur
  <2>1. /\ i # None /\ runs[r].row \in Row /\ runs[r].row.form <= saves[i]
        /\ UNCHANGED <<when, saves, phase, started, web, sent>>
    BY <1>5 DEF SaveItem, TypeInv, Shape, Known, clock, history
  <2>2. \A j \in DOMAIN rows' : \/ j \in DOMAIN rows /\ rows'[j].form = rows[j].form
                                \/ j = i /\ rows'[j].form = runs[r].row.form
    BY <1>5, <2>1 DEF SaveItem, Saved, Row
  <2>3. \A q \in Run : /\ runs'[q].todo = runs[q].todo
                       /\ runs'[q].cur # None => runs'[q] = runs[q]
    BY <1>5, <1>2, CopyFacts DEF SaveItem, Idle
  <2>4. Known'
    BY <2>1, <2>2, <2>3 DEF Known
  <2>5. SentOnce' /\ (\A q \in Run : Waiting(q)') /\ (\A q, p \in Run : q # p => Apart(q, p)')
    BY <2>1, <2>3 DEF SentOnce, Waiting, Apart, Spent
  <2> QED
    BY <1>1, <2>1, <2>4, <2>5
<1>6. ASSUME SaveItemGone(r) \/ Crash(r) PROVE OnceInv'
  <2>1. UNCHANGED <<rows, when, saves, phase, started, web, sent>>
    BY <1>6 DEF SaveItemGone, Crash, clock
  <2>2. \A q \in Run : runs'[q] = runs[q] \/ runs'[q] = Idle
    BY <1>6, CopyFacts DEF SaveItemGone, Crash
  <2>3. Known'
    BY <1>2, <2>1, <2>2 DEF Known
  <2>4. \A q \in Run : \A j \in DOMAIN runs'[q].todo : runs'[q] = runs[q]
    BY <1>2, <2>2
  <2>5. SentOnce' /\ (\A q \in Run : Waiting(q)') /\ (\A q, p \in Run : q # p => Apart(q, p)')
    BY <2>1, <2>4 DEF SentOnce, Waiting, Apart, Spent
  <2> QED
    BY <1>1, <2>1, <2>3, <2>5
<1> QED
  BY <1>3, <1>4, <1>5, <1>6 DEF Execute

\* With time, what is spent stays spent: the start that comes is too late.
LEMMA WorldOnce ==
  ASSUME OnceInv, (\E S \in SUBSET Item : Cascade(S)) \/ Skip \/ Tick
  PROVE OnceInv'
<1> USE DEF OnceInv
<1>1. TypeInv'
  BY WorldType
<1>2. UNCHANGED <<saves, runs, web, sent>>
  BY DEF Cascade, Skip, Tick, history
<1>3. \A i \in DOMAIN rows' : i \in DOMAIN rows /\ rows'[i] = rows[i]
  BY DEF Cascade, Skip, Tick
<1>4. Known'
  BY <1>2, <1>3 DEF Known
<1>5. \A i \in Item, v \in Form : when[i][v] \in Int /\ when[i][v] >= -Step
  BY SchedulerAssumption DEF TypeInv, TypeOK
<1>6. (phase # 0 => started)' /\ \A i \in Item, v \in Form : Spent(i, v) => Spent(i, v)'
  <2>1. CASE Tick
    <3>1. \A i \in Item, v \in Form :
             when'[i][v] = IF when[i][v] > -Step THEN when[i][v] - 1 ELSE -Step
      BY <2>1 DEF Tick
    <3>2. /\ Step \in Nat /\ phase \in 0..Step - 1 /\ started
          /\ started' = (phase' # 0)
          /\ phase' = IF phase + 1 = Step THEN 0 ELSE phase + 1
      BY <2>1, SchedulerAssumption DEF Tick, TypeInv, TypeOK
    <3>3. (phase # 0 => started)'
      BY <3>2
    <3>4. ASSUME NEW i \in Item, NEW v \in Form, Spent(i, v) PROVE Spent(i, v)'
      <4>1. /\ when[i][v] \in Int /\ when[i][v] >= -Step
            /\ 2 * (when[i][v] + phase) < Step
            /\ when'[i][v] = IF when[i][v] > -Step THEN when[i][v] - 1 ELSE -Step
        BY <1>5, <3>1, <3>2, <3>4 DEF Spent
      <4>2. CASE phase + 1 = Step
        BY <3>2, <4>1, <4>2 DEF Spent
      <4>3. CASE phase + 1 # Step
        <5>1. started' /\ phase' = phase + 1 /\ phase + 1 < Step
          <6>1. phase' = phase + 1 /\ phase + 1 < Step /\ phase' # 0
            BY <3>2, <4>3
          <6>2. started'
            BY <3>2, <6>1
          <6> QED
            BY <6>1, <6>2
        <5>2. 2 * (when'[i][v] + phase + 1) < Step
          BY <3>2, <4>1, <5>1
        <5> QED
          BY <3>2, <4>1, <5>1, <5>2 DEF Spent
      <4> QED
        BY <4>2, <4>3
    <3> QED
      BY <3>3, <3>4
  <2>2. CASE Skip
    BY <1>5, <2>2, SchedulerAssumption DEF Skip, Spent
  <2>3. CASE \E S \in SUBSET Item : Cascade(S)
    BY <2>3 DEF Cascade, clock, Spent
  <2> QED
    BY <2>1, <2>2, <2>3
<1>7. SentOnce' /\ (\A r \in Run : Waiting(r)') /\ (\A q, r \in Run : q # r => Apart(q, r)')
  BY <1>2, <1>6, CopyFacts DEF SentOnce, Waiting, Apart
<1> QED
  BY <1>1, <1>4, <1>6, <1>7

\* The emails of a form saved once go out at most once, whatever overlaps or
\* dies.
THEOREM EmailsAtMostOnce == Spec => []AtMostOnce
<1>1. OnceInv /\ [Next]_vars => OnceInv'
  <2> SUFFICES ASSUME OnceInv, [Next]_vars PROVE OnceInv'
    OBVIOUS
  <2>1. CASE UNCHANGED vars
    <3>1. TypeInv'
      BY NextType DEF OnceInv
    <3> QED
      BY <2>1, <3>1 DEF vars, OnceInv, Known, Waiting, Apart, SentOnce, Spent
  <2>2. CASE Next
    BY <2>2, WebOnce, RunOnce, WorldOnce DEF Next
  <2> QED
    BY <2>1, <2>2
<1>2. OnceInv => AtMostOnce
  BY DEF OnceInv, SentOnce, AtMostOnce
<1> QED
  BY <1>1, <1>2, InitOnce, PTL DEF Spec

-----------------------------------------------------------------------------
(* Executed rows.  Every copy of a row that says it was executed is of a    *)
(* form that was, so it may overwrite the row.                             *)

Executed(i, row) == row.status # "pending" => <<i, row.form>> \in tried

TriedInv ==
    /\ TypeInv
    /\ \A i \in DOMAIN rows : Executed(i, rows[i])
    /\ \A w \in Web : web[w].pc = "delete" => Executed(web[w].id, web[w].row)
    /\ \A r \in Run : runs[r].cur # None => <<runs[r].cur, runs[r].row.form>> \in tried

\* Requests copy rows and put copies back; a saved form is pending.
LEMMA WebTried ==
  ASSUME TriedInv, NEW w \in Web, WebStep(w)
  PROVE TriedInv'
<1> USE DEF TriedInv
<1>1. TypeInv'
  BY WebType
<1>2. UNCHANGED <<runs, tried>> /\ DOMAIN web = Web
  BY DEF WebStep, EmailCreate, EditEmail, DeleteEmail, SaveSchedule, SaveDelete, GiveUp,
         history, TypeInv, TypeOK
<1>3. CASE \E a \in Action : EmailCreate(w, a)
  BY <1>1, <1>2, <1>3 DEF EmailCreate, Executed
<1>4. CASE \E i \in Item : EditEmail(w, i)
  BY <1>1, <1>2, <1>4 DEF EditEmail, Executed
<1>5. CASE \E i \in Item : DeleteEmail(w, i)
  <2>1. \A u \in Web : u # w => web'[u] = web[u]
    BY <1>2, <1>5 DEF DeleteEmail
  <2>2. web'[w].id \in DOMAIN rows /\ web'[w].row = rows[web'[w].id] /\ rows' = rows
    BY <1>2, <1>5 DEF DeleteEmail
  <2> QED
    BY <1>1, <1>2, <2>1, <2>2 DEF Executed
<1>6. CASE \E i \in Item, x \in 1..Ahead : SaveSchedule(w, i, x)
  BY <1>1, <1>2, <1>6 DEF SaveSchedule, Saved, Executed, Free
<1>7. CASE SaveDelete(w)
  <2>1. web[w].row \in Row /\ Executed(web[w].id, [web[w].row EXCEPT !.deleted = TRUE])
    BY <1>7 DEF SaveDelete, Executed, Row, TypeInv, Shape
  <2> QED
    BY <1>1, <1>2, <1>7, <2>1 DEF SaveDelete, Saved, Executed, Free
<1>8. CASE GiveUp(w)
  BY <1>1, <1>2, <1>8 DEF GiveUp, Executed, Free
<1> QED
  BY <1>3, <1>4, <1>5, <1>6, <1>7, <1>8 DEF WebStep

\* A run marks the copy it has executed.
LEMMA RunTried ==
  ASSUME TriedInv, NEW r \in Run, Start(r) \/ Execute(r) \/ Crash(r)
  PROVE TriedInv'
<1> USE DEF TriedInv
<1>1. TypeInv'
  BY RunType
<1>2. DOMAIN runs = Run /\ Idle.cur = None
  BY DEF TypeInv, TypeOK, Idle
<1>3. CASE Start(r)
  <2>1. \A q \in Run : runs'[q].cur = runs[q].cur /\ runs'[q].row = runs[q].row
    BY <1>3, CopyFacts DEF Start
  <2> QED
    BY <1>1, <1>3, <2>1 DEF Start, Executed, history
<1>4. CASE \E i \in Item, out, raised \in BOOLEAN : Send(r, i, out, raised)
  <2>1. PICK i \in Item, out \in BOOLEAN, raised \in BOOLEAN : Send(r, i, out, raised)
    BY <1>4
  <2>2. /\ tried' = tried \cup {<<i, runs[r].todo[i].form>>}
        /\ runs'[r].cur = i /\ runs'[r].row = runs[r].todo[i]
        /\ \A q \in Run : q # r => runs'[q] = runs[q]
        /\ UNCHANGED <<rows, web>>
    BY <1>2, <2>1 DEF Send
  <2> QED
    BY <1>1, <2>2 DEF Executed
<1>5. CASE SaveItem(r)
  <2> DEFINE i == runs[r].cur
             row == [runs[r].row EXCEPT !.status = runs[r].result]
  <2>1. i # None /\ runs[r].row \in Row /\ row.form = runs[r].row.form
    BY <1>5 DEF SaveItem, TypeInv, Shape, Row
  <2>2. Executed(i, row)
    BY <2>1 DEF Executed
  <2>3. rows' = Saved(i, row)
    BY <1>5 DEF SaveItem
  <2>4. \A j \in DOMAIN rows' : Executed(j, rows'[j])
    BY <2>2, <2>3 DEF Saved
  <2>5. \A q \in Run : runs'[q].cur # None => runs'[q] = runs[q]
    BY <1>2, <1>5 DEF SaveItem, Idle
  <2>6. UNCHANGED <<web, tried>>
    BY <1>5 DEF SaveItem, history
  <2> QED
    BY <1>1, <2>4, <2>5, <2>6 DEF Executed
<1>6. CASE SaveItemGone(r) \/ Crash(r)
  BY <1>1, <1>2, <1>6 DEF SaveItemGone, Crash, Executed
<1> QED
  BY <1>3, <1>4, <1>5, <1>6 DEF Execute

\* A row that says it was executed was executed as it stands.
THEOREM DoneRowsWereTried == Spec => []DoneWasTried
<1>1. Init => TriedInv
  BY InitType DEF Init, TriedInv, NoRows, Free, Idle
<1>2. TriedInv /\ [Next]_vars => TriedInv'
  <2> SUFFICES ASSUME TriedInv, [Next]_vars PROVE TriedInv'
    OBVIOUS
  <2>1. TypeInv'
    BY NextType DEF TriedInv
  <2>2. CASE UNCHANGED vars
    BY <2>1, <2>2 DEF vars, TriedInv, Executed
  <2>3. CASE (\E S \in SUBSET Item : Cascade(S)) \/ Skip \/ Tick
    BY <2>1, <2>3 DEF Cascade, Skip, Tick, history, TriedInv, Executed
  <2> QED
    BY <2>2, <2>3, WebTried, RunTried DEF Next
<1>3. TriedInv => DoneWasTried
  BY DEF TriedInv, DoneWasTried, Executed
<1> QED
  BY <1>1, <1>2, <1>3, PTL DEF Spec

=============================================================================
