---------------------------- MODULE WorkflowLock ----------------------------
(***************************************************************************)
(* The lock that gives one browser session at a time the use of a          *)
(* workflow.  The lock is the column session_key of the workflow row; it   *)
(* is read and written by ordinary ORM calls with no transaction around    *)
(* them, so a request takes it in separate steps: read the row, look at    *)
(* the session that holds it, write the row.  A session that stops sending *)
(* requests expires, and the lock of an expired session may be taken.      *)
(*                                                                         *)
(* Time is kept as the remaining lifetime of each session: ttl[s] is       *)
(* expire_date - now, cut off at -1, so that "expire_date >= now" is       *)
(* ttl[s] >= 0 and the clock itself needs no bound.                        *)
(***************************************************************************)
EXTENDS Integers

CONSTANTS
    Session,    \* keys of the browser sessions
    Workflow,   \* workflows (every session here belongs to a user with access)
    Worker,     \* server processes, each serving one request at a time
    Age,        \* SESSION_COOKIE_AGE, in clock ticks
    None        \* '' in session_key, no workflow selected, no holder

ASSUME LockAssumption ==
    /\ Age \in Nat \ {0}
    /\ None \notin Session \cup Workflow

VARIABLES
    sessionKey, \* Workflow.session_key of each workflow row
    rows,       \* sessions with a row in django_session
    ttl,        \* expire_date - now of each session row
    current,    \* 'ontask_workflow_id' stored in each session
    req         \* the request each worker is serving

vars == <<sessionKey, rows, ttl, current, req>>

Holder == Session \cup {None}
Selected == Workflow \cup {None}

(* "pc" is the next thing the view does; "old" is the holder seen by the   *)
(* view before get_workflow, "seen" the one seen by get_workflow, "cur"    *)
(* the in-memory copy of the session's selected workflow.                  *)
Request ==
    [pc: {"idle", "lookup", "check", "lock", "granted", "refused", "unlock", "reply"},
     kind: {"open", "use", "index", "api"},
     s: Holder, w: Selected, old: Holder, seen: Holder, cur: Selected]

Idle == [pc |-> "idle", kind |-> "use", s |-> None, w |-> None,
         old |-> None, seen |-> None, cur |-> None]

TypeOK ==
    /\ sessionKey \in [Workflow -> Holder]
    /\ rows \subseteq Session
    /\ ttl \in [Session -> -1..Age]
    /\ current \in [Session -> Selected]
    /\ req \in [Worker -> Request]

Init ==
    /\ sessionKey = [w \in Workflow |-> None]
    /\ rows = {}
    /\ ttl = [s \in Session |-> -1]
    /\ current = [s \in Session |-> None]
    /\ req = [p \in Worker |-> Idle]

-----------------------------------------------------------------------------
(* Sessions: Django's session table, as the views use it.                  *)

\* expire_date >= now: get_workflow grants nothing against such a holder.
Live(s) == s \in rows /\ ttl[s] >= 0

\* Django loads a session only while expire_date > now.
Usable(s) == s \in rows /\ ttl[s] > 0

\* A key is never reused: a name of a session nothing refers to any more
\* stands for a new one.
Unreferenced(s) ==
    /\ s \notin rows
    /\ \A w \in Workflow : sessionKey[w] # s
    /\ \A p \in Worker : s \notin {req[p].s, req[p].old, req[p].seen}

Login(p, s) ==
    /\ req[p].pc = "idle"
    /\ Unreferenced(s)
    /\ rows' = rows \cup {s}
    /\ ttl' = [ttl EXCEPT ![s] = Age]
    /\ current' = [current EXCEPT ![s] = None]
    /\ UNCHANGED <<sessionKey, req>>

\* Logging out deletes the row; the lock column is left as it is.
Logout(p, s) ==
    /\ req[p].pc = "idle"
    /\ Usable(s)
    /\ rows' = rows \ {s}
    /\ ttl' = [ttl EXCEPT ![s] = -1]
    /\ current' = [current EXCEPT ![s] = None]
    /\ UNCHANGED <<sessionKey, req>>

Tick ==
    /\ \E s \in rows : ttl[s] >= 0
    /\ ttl' = [s \in Session |-> IF ttl[s] >= 0 THEN ttl[s] - 1 ELSE -1]
    /\ UNCHANGED <<sessionKey, rows, current, req>>

-----------------------------------------------------------------------------
(* The views, up to the point where they have the workflow.                *)

\* workflow:detail reads the row (old_obj) and then calls get_workflow with
\* its id, whatever the session had selected before.
StartOpen(p, s, w) ==
    /\ req[p].pc = "idle"
    /\ Usable(s)
    /\ req' = [req EXCEPT ![p] =
                [Idle EXCEPT !.pc = "lookup", !.kind = "open", !.s = s, !.w = w,
                             !.old = sessionKey[w], !.cur = current[s]]]
    /\ UNCHANGED <<sessionKey, rows, ttl, current>>

\* Every other view calls get_workflow: most of them on the workflow selected
\* in the session, some (update, flush, delete, export) on the id in the URL.
StartUse(p, s, w) ==
    /\ req[p].pc = "idle"
    /\ Usable(s)
    /\ req' = [req EXCEPT ![p] =
                [Idle EXCEPT !.pc = "lookup", !.s = s, !.w = w, !.cur = current[s]]]
    /\ UNCHANGED <<sessionKey, rows, ttl, current>>

\* get_workflow reads the row and compares session_key.
Lookup(p) ==
    LET holder == sessionKey[req[p].w] IN
    /\ req[p].pc = "lookup"
    /\ req' = [req EXCEPT ![p].seen = holder,
                          ![p].pc = CASE holder = req[p].s -> "granted"
                                      [] holder = None -> "lock"
                                      [] OTHER -> "check"]
    /\ UNCHANGED <<sessionKey, rows, ttl, current>>

\* Mutants of CheckHolder: the comparison is_locked makes, a missing session
\* row taken for a live one, and no look at the expiry date at all.
CheckHolderInverted(p) ==
    LET k == req[p].seen IN
    /\ req[p].pc = "check"
    /\ req[p].kind # "api"
    /\ req' = [req EXCEPT ![p].pc =
                IF k \in rows /\ ttl[k] < 0 THEN "refused" ELSE "lock"]
    /\ UNCHANGED <<sessionKey, rows, ttl, current>>

CheckHolderNoRow(p) ==
    LET k == req[p].seen IN
    /\ req[p].pc = "check"
    /\ req[p].kind # "api"
    /\ req' = [req EXCEPT ![p].pc =
                IF k \notin rows \/ Live(k) THEN "refused" ELSE "lock"]
    /\ UNCHANGED <<sessionKey, rows, ttl, current>>

CheckHolderNoExpiry(p) ==
    /\ req[p].pc = "check"
    /\ req[p].kind # "api"
    /\ req' = [req EXCEPT ![p].pc = IF req[p].seen \in rows THEN "refused" ELSE "lock"]
    /\ UNCHANGED <<sessionKey, rows, ttl, current>>

\* Another session's key: refuse only while that session has not expired.
CheckHolder(p) ==
    /\ req[p].pc = "check"
    /\ req[p].kind # "api"
    /\ req' = [req EXCEPT ![p].pc = IF Live(req[p].seen) THEN "refused" ELSE "lock"]
    /\ UNCHANGED <<sessionKey, rows, ttl, current>>

\* Mutant: the id of the workflow written where the session key belongs.
LockWorkflowWrongKey(p) ==
    /\ req[p].pc = "lock"
    /\ sessionKey' = [sessionKey EXCEPT ![req[p].w] = req[p].w]
    /\ req' = [req EXCEPT ![p].pc = "granted"]
    /\ UNCHANGED <<rows, ttl, current>>

LockWorkflow(p) ==
    /\ req[p].pc = "lock"
    /\ sessionKey' = [sessionKey EXCEPT ![req[p].w] = req[p].s]
    /\ req' = [req EXCEPT ![p].pc = "granted"]
    /\ UNCHANGED <<rows, ttl, current>>

\* Mutant: the selection read from the session, and left in it.
StartIndexNoPop(p, s) ==
    /\ req[p].pc = "idle"
    /\ Usable(s)
    /\ req' = [req EXCEPT ![p] =
                [Idle EXCEPT !.kind = "index", !.s = s, !.w = current[s],
                             !.cur = current[s],
                             !.pc = IF current[s] = None THEN "reply" ELSE "unlock"]]
    /\ UNCHANGED <<sessionKey, rows, ttl, current>>

\* The list of workflows pops the selection and unlocks that workflow.
StartIndex(p, s) ==
    /\ req[p].pc = "idle"
    /\ Usable(s)
    /\ req' = [req EXCEPT ![p] =
                [Idle EXCEPT !.kind = "index", !.s = s, !.w = current[s],
                             !.pc = IF current[s] = None THEN "reply" ELSE "unlock"]]
    /\ UNCHANGED <<sessionKey, rows, ttl, current>>

UnlockById(p) ==
    /\ req[p].pc = "unlock"
    /\ sessionKey' = [sessionKey EXCEPT ![req[p].w] = None]
    /\ req' = [req EXCEPT ![p].pc = "reply"]
    /\ UNCHANGED <<rows, ttl, current>>

\* The session is saved at the end of every request that still has its row,
\* which extends it: SESSION_SAVE_EVERY_REQUEST.
Finish(p) ==
    LET r == req[p]
        selected == IF r.kind = "open" /\ r.pc = "granted" THEN r.w ELSE r.cur IN
    /\ r.pc \in {"granted", "refused", "reply"}
    /\ req' = [req EXCEPT ![p] = Idle]
    /\ IF r.s \in rows
       THEN /\ ttl' = [ttl EXCEPT ![r.s] = Age]
            /\ current' = [current EXCEPT ![r.s] = selected]
       ELSE UNCHANGED <<ttl, current>>
    /\ UNCHANGED <<sessionKey, rows>>

-----------------------------------------------------------------------------
(* The table API: authenticated by a token, it takes no lock; it asks      *)
(* is_locked and refuses when the answer is yes.                           *)

StartApi(p, w) ==
    /\ req[p].pc = "idle"
    /\ req' = [req EXCEPT ![p] =
                [Idle EXCEPT !.pc = "check", !.kind = "api", !.w = w,
                             !.seen = sessionKey[w]]]
    /\ UNCHANGED <<sessionKey, rows, ttl, current>>

\* is_locked: "expire_date < now" of an existing session row.
IsLocked(k) == k # None /\ k \in rows /\ ttl[k] < 0

ApiCheck(p) ==
    /\ req[p].pc = "check"
    /\ req[p].kind = "api"
    /\ req' = [req EXCEPT ![p].pc = IF IsLocked(req[p].seen) THEN "refused" ELSE "granted"]
    /\ UNCHANGED <<sessionKey, rows, ttl, current>>

-----------------------------------------------------------------------------
Arrive(p) ==
    \/ \E s \in Session : Login(p, s) \/ Logout(p, s) \/ StartIndex(p, s)
    \/ \E s \in Session, w \in Workflow : StartOpen(p, s, w) \/ StartUse(p, s, w)
    \/ \E w \in Workflow : StartApi(p, w)

Serve(p) ==
    \/ Lookup(p) \/ CheckHolder(p) \/ LockWorkflow(p)
    \/ UnlockById(p) \/ ApiCheck(p) \/ Finish(p)

Next == Tick \/ \E p \in Worker : Arrive(p) \/ Serve(p)

Spec == Init /\ [][Next]_vars

\* Time passes, and a worker finishes the request it is serving.
FairSpec == Spec /\ WF_vars(Tick) /\ \A p \in Worker : WF_vars(Serve(p))

-----------------------------------------------------------------------------
(* Properties.                                                             *)

Working(p, s, w) ==
    req[p].pc = "granted" /\ req[p].kind # "api" /\ req[p].s = s /\ req[p].w = w

\* While a session is live its lock is neither taken nor cleared except by a
\* request of that same session (get_workflow, workflow_index).
NoStealing ==
    [][\A w \in Workflow :
          LET h == sessionKey[w] IN
          h # None /\ Live(h) /\ sessionKey'[w] # h
            => \E p \in Worker : req[p].s = h]_vars

\* Two sessions are never both at work on a workflow: "Once you open a
\* workflow, it is locked and no other user can manipulate it".
Exclusive ==
    \A p, q \in Worker, s, t \in Session, w \in Workflow :
        Working(p, s, w) /\ Working(q, t, w) => s = t

\* A view that is refused can name the session in its way: the holder it read
\* before get_workflow still has a session row (WorkflowDetailView).
RefusalNamesHolder ==
    \A p \in Worker :
        req[p].pc = "refused" /\ req[p].kind = "open"
            => req[p].old = req[p].seen /\ req[p].old \in rows

\* The session that gets to work on a workflow has the lock, and a session
\* whose stored selection is w and that is still live has the lock of w: what
\* workflow_index unlocks is its own lock.
SelectionHoldsLock ==
    /\ \A p \in Worker, s \in Session, w \in Workflow :
          Working(p, s, w) => sessionKey[w] = s
    /\ \A s \in Session : Live(s) /\ current[s] # None =>
          \/ sessionKey[current[s]] = s
          \/ \E p \in Worker : req[p].s = s /\ req[p].kind = "index" /\ req[p].pc = "reply"

\* The table API is refused exactly when another session holds the lock, as
\* its message 'Workflow is locked by another user' says.
ApiRespectsLock ==
    [][\A p \in Worker :
          ApiCheck(p) => (req'[p].pc = "refused" <=> Live(req[p].seen))]_vars

\* A workflow locked by a session that went silent (closed browser) can be
\* opened again: a session that keeps opening it eventually gets to work.
Silent(s) == \A p \in Worker : req[p].s # s

Recoverable ==
    \A s \in Session, w \in Workflow :
        (/\ <>[](\A t \in Session \ {s} : Silent(t))
         /\ []<><<\E p \in Worker : StartOpen(p, s, w)>>_vars)
            => []<>(\E p \in Worker : Working(p, s, w))

=============================================================================
