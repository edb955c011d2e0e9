------------------------- MODULE WorkflowLockProofs -------------------------
(***************************************************************************)
(* What is proved of the workflow lock, for every set of sessions and      *)
(* workflows and every session age.  Type correctness holds for any number *)
(* of workers; that the lock is never stolen, that a refusal can name the  *)
(* holder and that a selected workflow is a locked one need the requests   *)
(* to be served one at a time (OneWorker): with two workers TLC refutes    *)
(* the exclusion (see the run lock_race).                                  *)
(***************************************************************************)
EXTENDS WorkflowLock, TLAPS

OneWorker == \E p : Worker = {p}

\* What a request in progress relies on, conjunct by conjunct.
KindInv(r) ==
    /\ r.pc = "idle" => r = Idle
    /\ r.pc \in {"lookup", "lock"} => r.kind \in {"open", "use"}
    /\ r.pc \in {"check", "granted", "refused"} => r.kind # "index"
    /\ r.pc \in {"unlock", "reply"} => r.kind = "index"
    /\ r.kind = "api" => r.s = None

\* The names a request holds are of things that exist.
NamesInv(r) ==
    /\ r.pc # "idle" /\ r.kind # "api" => r.s \in Session /\ r.s \in rows
    /\ r.pc \notin {"idle", "reply"} => r.w \in Workflow

\* What the request read is still so.
FreshInv(r) ==
    /\ r.pc = "lookup" /\ r.kind = "open" => r.old = sessionKey[r.w]
    /\ r.pc = "check" /\ r.kind # "api" =>
          r.seen = sessionKey[r.w] /\ r.seen \notin {r.s, None}
    /\ r.pc \in {"check", "refused"} /\ r.kind = "open" => r.old = r.seen
    /\ r.pc = "lock" => sessionKey[r.w] = None \/ ~Live(sessionKey[r.w])
    /\ r.pc = "granted" /\ r.kind # "api" => sessionKey[r.w] = r.s
    /\ r.pc = "refused" /\ r.kind = "open" => r.old \in rows

\* The selection the request carries, and the one it will store.
SelectionInv(r) ==
    /\ r.pc # "idle" /\ r.kind \in {"open", "use"} => r.cur = current[r.s]
    /\ r.kind = "index" => r.cur = None
    /\ r.pc = "unlock" => r.w = current[r.s]
    /\ r.pc = "reply" =>
          current[r.s] = None \/ sessionKey[current[r.s]] = None

RequestInv(p) ==
    KindInv(req[p]) /\ NamesInv(req[p]) /\ FreshInv(req[p]) /\ SelectionInv(req[p])

\* A live session, or one with a request in progress, has the lock of the
\* workflow it has selected, until its own workflow_index clears it.
StoredInv ==
    \A s \in Session :
        current[s] # None /\ (Live(s) \/ \E p \in Worker : req[p].s = s) =>
            \/ sessionKey[current[s]] = s
            \/ \E p \in Worker : req[p].s = s /\ req[p].pc = "reply"

LockInv == TypeOK /\ (\A p \in Worker : RequestInv(p)) /\ StoredInv

-----------------------------------------------------------------------------
(* Type correctness. *)

\* A worker between two requests has a request of the right type.
LEMMA IdleType == Idle \in Request
BY DEF Idle, Request, Holder, Selected

\* The initial state is of the right type.
LEMMA InitType == Init => TypeOK
<1> SUFFICES ASSUME Init PROVE TypeOK
  OBVIOUS
<1>1. ttl \in [Session -> -1..Age]
  BY LockAssumption DEF Init
<1> QED
  BY <1>1, IdleType DEF Init, TypeOK, Holder, Selected

\* Each action keeps every variable in its type, whatever the worker.
LEMMA StepType == ASSUME TypeOK, [Next]_vars PROVE TypeOK'
<1> USE LockAssumption, IdleType DEF TypeOK, Holder, Selected
<1>1. CASE Tick
  <2>1. ttl' \in [Session -> -1..Age]
    BY <1>1 DEF Tick
  <2> QED
    BY <1>1, <2>1 DEF Tick
<1>2. ASSUME NEW p \in Worker, NEW s \in Session, Login(p, s) PROVE TypeOK'
  BY <1>2 DEF Login
<1>3. ASSUME NEW p \in Worker, NEW s \in Session, Logout(p, s) PROVE TypeOK'
  BY <1>3 DEF Logout
<1>4. ASSUME NEW p \in Worker, NEW s \in Session, StartIndex(p, s) PROVE TypeOK'
  BY <1>4 DEF StartIndex, Request, Idle
<1>5. ASSUME NEW p \in Worker, NEW s \in Session, NEW w \in Workflow,
             StartOpen(p, s, w) \/ StartUse(p, s, w)
      PROVE  TypeOK'
  <2>1. sessionKey[w] \in Holder /\ current[s] \in Selected
    OBVIOUS
  <2>2. CASE StartOpen(p, s, w)
    BY <2>1, <2>2 DEF StartOpen, Request, Idle
  <2>3. CASE StartUse(p, s, w)
    BY <2>1, <2>3 DEF StartUse, Request, Idle
  <2> QED
    BY <1>5, <2>2, <2>3
<1>6. ASSUME NEW p \in Worker, NEW w \in Workflow, StartApi(p, w) PROVE TypeOK'
  BY <1>6 DEF StartApi, Request, Idle
<1>7. ASSUME NEW p \in Worker, Serve(p) PROVE TypeOK'
  <2>1. CASE Lookup(p)
    BY <2>1 DEF Lookup, Request
  <2>2. CASE CheckHolder(p) \/ LockWorkflow(p)
    BY <2>2 DEF CheckHolder, LockWorkflow, Request
  <2>3. CASE UnlockById(p) \/ ApiCheck(p)
    BY <2>3 DEF UnlockById, ApiCheck, Request
  <2>4. CASE Finish(p)
    BY <2>4 DEF Finish, Request
  <2> QED
    BY <1>7, <2>1, <2>2, <2>3, <2>4 DEF Serve
<1>8. CASE UNCHANGED vars
  BY <1>8 DEF vars
<1> QED
  BY <1>1, <1>2, <1>3, <1>4, <1>5, <1>6, <1>7, <1>8 DEF Next, Arrive

\* Every variable keeps its type, for any number of workers.
THEOREM TypeCorrect == Spec => []TypeOK
BY InitType, StepType, PTL DEF Spec

-----------------------------------------------------------------------------
(* One worker: LockInv is inductive. *)

\* StoredInv for one session, when p is the worker.
StoredFor(p, s) ==
    current[s] # None /\ (Live(s) \/ req[p].s = s) =>
        sessionKey[current[s]] = s \/ (req[p].s = s /\ req[p].pc = "reply")

Focus(p) == TypeOK /\ RequestInv(p) /\ \A s \in Session : StoredFor(p, s)

\* With one worker p the invariant is a fact about p and each session.
LEMMA FocusLock ==
  ASSUME NEW p, Worker = {p} PROVE (LockInv <=> Focus(p)) /\ (LockInv' <=> Focus(p)')
BY DEF LockInv, Focus, StoredInv, StoredFor

\* No session, no lock and no request at the start.
LEMMA InitLock == ASSUME NEW p, Worker = {p}, Init PROVE Focus(p)
<1>1. TypeOK
  BY InitType
<1>2. req[p] = Idle /\ req[p].s = None
  BY DEF Init, Idle
<1>3. RequestInv(p)
  BY <1>2 DEF RequestInv, KindInv, NamesInv, FreshInv, SelectionInv, Idle
<1>4. \A s \in Session : StoredFor(p, s)
  BY DEF StoredFor, Init
<1> QED
  BY <1>1, <1>3, <1>4 DEF Focus

\* Logging in, logging out and the passing of time leave an idle worker's
\* facts, and take nothing from the sessions that stay live.
LEMMA SessionStep ==
  ASSUME NEW p, Worker = {p}, Focus(p), TypeOK',
         Tick \/ \E s \in Session : Login(p, s) \/ Logout(p, s)
  PROVE  Focus(p)'
<1> USE LockAssumption DEF TypeOK, Holder, Selected
<1>1. CASE Tick
  <2>1. \A k \in Session : Live(k)' => Live(k)
    BY <1>1 DEF Tick, Live, Focus
  <2>2. RequestInv(p)'
    <3>1. KindInv(req[p])' /\ NamesInv(req[p])' /\ SelectionInv(req[p])'
      BY <1>1 DEF Tick, Focus, RequestInv, KindInv, NamesInv, SelectionInv
    <3>2. req[p] \in Request
      BY DEF Focus
    <3>3. req[p].pc = "lock" => sessionKey[req[p].w] \in Holder
      BY <3>2 DEF Focus, RequestInv, NamesInv
    <3>4. \A k \in Holder : ~Live(k) => k = None \/ ~Live(k)'
      BY <2>1
    <3>5. FreshInv(req[p])'
      BY <1>1, <3>3, <3>4 DEF Tick, Focus, RequestInv, FreshInv
    <3> QED
      BY <3>1, <3>5 DEF RequestInv
  <2>3. \A s \in Session : StoredFor(p, s)'
    BY <1>1, <2>1 DEF Tick, Focus, StoredFor
  <2> QED
    BY <2>2, <2>3 DEF Focus
<1>2. ASSUME NEW s \in Session, Login(p, s) \/ Logout(p, s) PROVE Focus(p)'
  <2>1. req[p] = Idle /\ req' = req /\ sessionKey' = sessionKey
    BY <1>2 DEF Login, Logout, Focus, RequestInv, KindInv
  <2>2. RequestInv(p)'
    BY <2>1 DEF RequestInv, KindInv, NamesInv, FreshInv, SelectionInv, Idle
  <2>3. ASSUME NEW k \in Session PROVE StoredFor(p, k)'
    <3>1. CASE k = s
      BY <1>2, <3>1 DEF Login, Logout, StoredFor, Focus
    <3>2. CASE k # s
      <4>1. current'[k] = current[k] /\ (Live(k)' <=> Live(k))
        BY <1>2, <3>2 DEF Login, Logout, Live, Focus
      <4> QED
        BY <2>1, <4>1 DEF StoredFor, Focus
    <3> QED
      BY <3>1, <3>2
  <2> QED
    BY <2>2, <2>3 DEF Focus
<1> QED
  BY <1>1, <1>2

\* The start of a request: the idle worker takes down what it reads.
LEMMA StartStep ==
  ASSUME NEW p, Worker = {p}, Focus(p), TypeOK',
         \/ \E s \in Session : StartIndex(p, s)
         \/ \E s \in Session, w \in Workflow : StartOpen(p, s, w) \/ StartUse(p, s, w)
         \/ \E w \in Workflow : StartApi(p, w)
  PROVE  Focus(p)'
<1> USE LockAssumption DEF TypeOK, Holder, Selected
<1>1. /\ req[p] = Idle
      /\ <<sessionKey, rows, ttl, current>>' = <<sessionKey, rows, ttl, current>>
  BY DEF StartIndex, StartOpen, StartUse, StartApi, Focus, RequestInv, KindInv
<1>2. \A s \in Session : current[s] # None /\ Live(s) => sessionKey[current[s]] = s
  BY <1>1 DEF Focus, StoredFor, Idle
<1>3. \A s \in Session : Live(s)' <=> Live(s)
  BY <1>1 DEF Live
<1>4. ASSUME NEW s \in Session, StartIndex(p, s) PROVE RequestInv(p)'
  <2>1. req'[p] = [Idle EXCEPT !.kind = "index", !.s = s, !.w = current[s],
                               !.pc = IF current[s] = None THEN "reply" ELSE "unlock"]
    BY <1>4 DEF StartIndex, Focus
  <2> QED
    BY <1>1, <1>4, <2>1
       DEF StartIndex, Usable, Focus, RequestInv, KindInv, NamesInv, FreshInv,
           SelectionInv, Idle
<1>5. ASSUME NEW s \in Session, NEW w \in Workflow,
             StartOpen(p, s, w) \/ StartUse(p, s, w)
      PROVE  RequestInv(p)'
  <2>1. \/ req'[p] = [Idle EXCEPT !.pc = "lookup", !.kind = "open", !.s = s, !.w = w,
                                  !.old = sessionKey[w], !.cur = current[s]]
        \/ req'[p] = [Idle EXCEPT !.pc = "lookup", !.s = s, !.w = w, !.cur = current[s]]
    BY <1>5 DEF StartOpen, StartUse, Focus
  <2>2. s \in rows'
    BY <1>5 DEF StartOpen, StartUse, Usable
  <2>3. /\ req'[p].pc = "lookup" /\ req'[p].kind \in {"open", "use"}
        /\ req'[p].s = s /\ req'[p].w = w /\ req'[p].cur = current[s]
        /\ req'[p].kind = "open" => req'[p].old = sessionKey[w]
    BY <2>1 DEF Idle
  <2> QED
    BY <1>1, <2>2, <2>3 DEF RequestInv, KindInv, NamesInv, FreshInv, SelectionInv
<1>6. ASSUME NEW w \in Workflow, StartApi(p, w) PROVE RequestInv(p)'
  <2>1. req'[p] = [Idle EXCEPT !.pc = "check", !.kind = "api", !.w = w,
                               !.seen = sessionKey[w]]
    BY <1>6 DEF StartApi, Focus
  <2> QED
    BY <1>1, <2>1
       DEF RequestInv, KindInv, NamesInv, FreshInv, SelectionInv, Idle
<1>7. \A s \in Session : req'[p].s = s => Live(s)
  <2>1. ASSUME NEW s \in Session, StartIndex(p, s) PROVE req'[p].s = s /\ Live(s)
    <3>1. s \in rows /\ ttl[s] > 0
      BY <2>1 DEF StartIndex, Usable
    <3>2. req'[p].s = s
      BY <2>1 DEF StartIndex, Focus, Idle
    <3> QED
      BY <3>1, <3>2 DEF Live, Focus
  <2>2. ASSUME NEW s \in Session, NEW w \in Workflow,
               StartOpen(p, s, w) \/ StartUse(p, s, w)
        PROVE  req'[p].s = s /\ Live(s)
    <3>1. s \in rows /\ ttl[s] > 0
      BY <2>2 DEF StartOpen, StartUse, Usable
    <3>2. ASSUME StartOpen(p, s, w) PROVE req'[p].s = s
      BY <3>2 DEF StartOpen, Focus, Idle
    <3>3. ASSUME StartUse(p, s, w) PROVE req'[p].s = s
      BY <3>3 DEF StartUse, Focus, Idle
    <3> QED
      BY <2>2, <3>1, <3>2, <3>3 DEF Live, Focus
  <2>3. ASSUME NEW w \in Workflow, StartApi(p, w) PROVE req'[p].s = None
    BY <2>3 DEF StartApi, Focus, Idle
  <2> QED
    BY <2>1, <2>2, <2>3
<1>8. \A s \in Session : StoredFor(p, s)'
  BY <1>1, <1>2, <1>3, <1>7 DEF StoredFor
<1> QED
  BY <1>4, <1>5, <1>6, <1>8 DEF Focus

\* Looking the lock up: nothing is written, and what is read is remembered.
LEMMA LookStep ==
  ASSUME NEW p, Worker = {p}, Focus(p), TypeOK',
         Lookup(p) \/ CheckHolder(p) \/ ApiCheck(p)
  PROVE  Focus(p)'
<1> USE LockAssumption DEF TypeOK, Holder, Selected, Focus
<1> DEFINE r == req[p]
<1>1. /\ <<sessionKey, rows, ttl, current>>' = <<sessionKey, rows, ttl, current>>
      /\ req'[p].s = r.s /\ r.pc # "reply"
  BY DEF Lookup, CheckHolder, ApiCheck, Request
<1>2. CASE Lookup(p)
  <2>1. /\ r.pc = "lookup" /\ r.w \in Workflow /\ r.s \in Session
        /\ req'[p] = [r EXCEPT !.seen = sessionKey[r.w],
                               !.pc = CASE sessionKey[r.w] = r.s -> "granted"
                                        [] sessionKey[r.w] = None -> "lock"
                                        [] OTHER -> "check"]
    BY <1>2 DEF Lookup, Request, RequestInv, NamesInv, KindInv
  <2> QED
    BY <1>1, <2>1 DEF RequestInv, KindInv, NamesInv, FreshInv, SelectionInv,
                      StoredFor, Request, Live
<1>3. CASE CheckHolder(p)
  <2>1. /\ r.pc = "check" /\ r.kind # "api" /\ r.seen = sessionKey[r.w]
        /\ req'[p] = [r EXCEPT !.pc = IF Live(r.seen) THEN "refused" ELSE "lock"]
    BY <1>3 DEF CheckHolder, Request, RequestInv, FreshInv
  <2> QED
    BY <1>1, <2>1 DEF RequestInv, KindInv, NamesInv, FreshInv, SelectionInv,
                      StoredFor, Request, Live
<1>4. CASE ApiCheck(p)
  <2>1. /\ r.pc = "check" /\ r.kind = "api"
        /\ req'[p] = [r EXCEPT !.pc = IF IsLocked(r.seen) THEN "refused" ELSE "granted"]
    BY <1>4 DEF ApiCheck, Request
  <2> QED
    BY <1>1, <2>1 DEF RequestInv, KindInv, NamesInv, FreshInv, SelectionInv,
                      StoredFor, Request, Live
<1> QED
  BY <1>2, <1>3, <1>4

\* Writing the lock and clearing it: only this request's workflow changes.
LEMMA WriteStep ==
  ASSUME NEW p, Worker = {p}, Focus(p), TypeOK', LockWorkflow(p) \/ UnlockById(p)
  PROVE  Focus(p)'
<1> USE LockAssumption DEF TypeOK, Holder, Selected, Focus
<1> DEFINE r == req[p]
<1>1. /\ <<rows, ttl, current>>' = <<rows, ttl, current>>
      /\ r.w \in Workflow /\ r.s \in Session /\ r.s \in rows
      /\ \A w \in Workflow \ {r.w} : sessionKey'[w] = sessionKey[w]
  BY DEF LockWorkflow, UnlockById, RequestInv, NamesInv, KindInv
<1>2. CASE LockWorkflow(p)
  <2>1. /\ r.pc = "lock" /\ r.kind \in {"open", "use"}
        /\ sessionKey'[r.w] = r.s /\ req'[p] = [r EXCEPT !.pc = "granted"]
        /\ sessionKey[r.w] = None \/ ~Live(sessionKey[r.w])
    BY <1>1, <1>2 DEF LockWorkflow, Request, RequestInv, KindInv, FreshInv
  <2>2. RequestInv(p)'
    BY <1>1, <2>1 DEF RequestInv, KindInv, NamesInv, FreshInv, SelectionInv, Request
  <2>3. ASSUME NEW s \in Session PROVE StoredFor(p, s)'
    BY <1>1, <2>1 DEF StoredFor, Live, Request
  <2> QED
    BY <2>2, <2>3
<1>3. CASE UnlockById(p)
  <2>1. /\ r.pc = "unlock" /\ r.kind = "index" /\ r.w = current[r.s]
        /\ sessionKey'[r.w] = None /\ req'[p] = [r EXCEPT !.pc = "reply"]
        /\ sessionKey[r.w] = r.s
    BY <1>1, <1>3 DEF UnlockById, Request, RequestInv, KindInv, SelectionInv, StoredFor
  <2>2. RequestInv(p)'
    BY <1>1, <2>1 DEF RequestInv, KindInv, NamesInv, FreshInv, SelectionInv, Request
  <2>3. ASSUME NEW s \in Session PROVE StoredFor(p, s)'
    BY <1>1, <2>1 DEF StoredFor, Live, Request
  <2> QED
    BY <2>2, <2>3
<1> QED
  BY <1>2, <1>3

\* The end of a request stores a selection whose lock the session has.
LEMMA FinishStep ==
  ASSUME NEW p, Worker = {p}, Focus(p), TypeOK', Finish(p)
  PROVE  Focus(p)'
<1> USE LockAssumption DEF TypeOK, Holder, Selected, Focus
<1> DEFINE r == req[p]
           selected == IF r.kind = "open" /\ r.pc = "granted" THEN r.w ELSE r.cur
<1>1. req'[p] = Idle /\ sessionKey' = sessionKey /\ rows' = rows
  BY DEF Finish
<1>2. RequestInv(p)'
  BY <1>1 DEF RequestInv, KindInv, NamesInv, FreshInv, SelectionInv, Idle
<1>3. ASSUME NEW s \in Session PROVE StoredFor(p, s)'
  <2>1. CASE s = r.s
    <3>1. r.pc \in {"granted", "refused", "reply"} /\ r.kind # "api" /\ r.s \in rows
      BY <2>1 DEF Finish, RequestInv, KindInv, NamesInv
    <3>2. current'[s] = selected
      BY <2>1, <3>1 DEF Finish
    <3>3. selected # None => sessionKey[selected] = s
      BY <2>1, <3>1 DEF RequestInv, KindInv, FreshInv, SelectionInv, StoredFor, Request
    <3> QED
      BY <1>1, <3>2, <3>3 DEF StoredFor
  <2>2. CASE s # r.s
    <3>1. current'[s] = current[s] /\ (Live(s)' <=> Live(s))
      BY <2>2 DEF Finish, Live
    <3> QED
      BY <1>1, <2>2, <3>1 DEF StoredFor, Idle
  <2> QED
    BY <2>1, <2>2
<1> QED
  BY <1>2, <1>3

\* Every step of the system keeps the facts about the one worker.
LEMMA StepLock ==
  ASSUME NEW p, Worker = {p}, Focus(p), [Next]_vars PROVE Focus(p)'
<1>1. TypeOK'
  BY StepType DEF Focus
<1>2. CASE UNCHANGED vars
  BY <1>2 DEF vars, Focus, TypeOK, RequestInv, KindInv, NamesInv, FreshInv,
              SelectionInv, StoredFor, Live
<1>3. CASE Tick
  BY <1>1, <1>3, SessionStep
<1>4. CASE Arrive(p)
  BY <1>1, <1>4, SessionStep, StartStep DEF Arrive
<1>5. CASE Serve(p)
  BY <1>1, <1>5, LookStep, WriteStep, FinishStep DEF Serve
<1> QED
  BY <1>2, <1>3, <1>4, <1>5 DEF Next

\* The inductive invariant of the lock holds when requests are served one at
\* a time.
THEOREM LockInvariant == ASSUME OneWorker PROVE Spec => []LockInv
<1>1. PICK p : Worker = {p}
  BY DEF OneWorker
<1>2. Init => LockInv
  BY <1>1, InitLock, FocusLock
<1>3. LockInv /\ [Next]_vars => LockInv'
  BY <1>1, StepLock, FocusLock
<1> QED
  BY <1>2, <1>3, PTL DEF Spec

-----------------------------------------------------------------------------
(* What the invariant gives. *)

\* While a session is live its lock is neither taken nor cleared except by a
\* request of that same session (get_workflow, workflow_index).
THEOREM LockNotStolen == ASSUME OneWorker PROVE Spec => NoStealing
<1>1. PICK one : Worker = {one}
  BY DEF OneWorker
<1> DEFINE Kept == \A w \in Workflow :
                     LET h == sessionKey[w] IN
                     h # None /\ Live(h) /\ sessionKey'[w] # h
                       => \E p \in Worker : req[p].s = h
<1>2. LockInv /\ [Next]_vars => [Kept]_vars
  <2> SUFFICES ASSUME LockInv, Next, NEW w \in Workflow,
                      sessionKey[w] # None, Live(sessionKey[w]),
                      sessionKey'[w] # sessionKey[w]
               PROVE  req[one].s = sessionKey[w]
    BY <1>1
  <2>1. TypeOK /\ RequestInv(one) /\ \A s \in Session : StoredFor(one, s)
    BY <1>1, FocusLock DEF Focus
  <2>2. LockWorkflow(one) \/ UnlockById(one)
    BY <1>1 DEF Next, Arrive, Serve, Tick, Login, Logout, StartIndex, StartOpen,
                StartUse, StartApi, Lookup, CheckHolder, ApiCheck, Finish
  <2>3. w = req[one].w
    BY <2>1, <2>2 DEF LockWorkflow, UnlockById, TypeOK
  <2>4. CASE LockWorkflow(one)
    BY <2>1, <2>3, <2>4 DEF LockWorkflow, RequestInv, FreshInv
  <2>5. CASE UnlockById(one)
    <3>1. /\ req[one].w = current[req[one].s] /\ req[one].s \in Session
          /\ req[one].pc = "unlock" /\ current[req[one].s] # None
      BY <2>1, <2>5, LockAssumption
         DEF UnlockById, RequestInv, KindInv, NamesInv, SelectionInv
    <3> QED
      BY <2>1, <2>3, <3>1 DEF StoredFor
  <2> QED
    BY <2>2, <2>4, <2>5
<1>3. Spec => []LockInv
  BY LockInvariant
<1>4. Spec => [][Kept]_vars
  BY <1>2, <1>3, PTL DEF Spec
<1> QED
  BY <1>4 DEF NoStealing

\* A session at work holds the lock, and a live session's stored selection is
\* a workflow it has locked: workflow_index unlocks nobody else's workflow.
THEOREM SelectionIsLocked == ASSUME OneWorker PROVE Spec => []SelectionHoldsLock
<1>1. LockInv => SelectionHoldsLock
  BY DEF LockInv, RequestInv, KindInv, FreshInv, StoredInv, SelectionHoldsLock, Working
<1> QED
  BY <1>1, LockInvariant, PTL

\* The page that refuses a workflow finds the session row of the holder it
\* read before get_workflow.
THEOREM RefusalFindsHolder == ASSUME OneWorker PROVE Spec => []RefusalNamesHolder
<1>1. LockInv => RefusalNamesHolder
  BY DEF LockInv, RequestInv, FreshInv, RefusalNamesHolder
<1> QED
  BY <1>1, LockInvariant, PTL

=============================================================================
