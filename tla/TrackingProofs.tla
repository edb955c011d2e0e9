---------------------------- MODULE TrackingProofs ----------------------------
(***************************************************************************)
(* Proofs about Tracking: types, and that no counter ever exceeds the      *)
(* images answered for its recipient, for any finite sets of rows, of      *)
(* counters and of other columns, any server processes, and any number of  *)
(* requests and of crashes.                                                *)
(*                                                                         *)
(* The second half is about what holds as long as no request fails half    *)
(* way or writes after another one changed what it had read (sound): a     *)
(* deleted column stays deleted, the Column rows, the table and the        *)
(* dimensions of the workflow agree when no request is half way, and every *)
(* counter is the number of images answered since it was made.  No lock is *)
(* assumed: the invariant Serial says that requests which have read before *)
(* another one writes are overtaken, and end unsound if they write at all. *)
(***************************************************************************)
EXTENDS Tracking, FiniteSetTheorems, TLAPS

-----------------------------------------------------------------------------
(* Frames, stored or held by a request.                                    *)

Below(rows, rd) == \A rec \in rows : \A t \in Track : rec.n[t] <= rd[rec.id][t]

Reads == [Row -> [Track -> Nat]]

\* A frame of the right type, finite, and with no counter above rd.
GoodRows(rows, rd) ==
    /\ rows \in SUBSET Record
    /\ IsFiniteSet(rows)
    /\ Below(rows, rd)

GoodRequest(q, rd) ==
    /\ q \in Request
    /\ GoodRows(q.frame.rows, rd)
    /\ q.pc = "column" => q.arg \in Col
    /\ q.pc = "form" => \A rec \in q.frame.rows : rec.id = q.arg

\* The inductive invariant: the types, finite frames, counters below the
\* images answered, the name of the column to save known, and forms that
\* show the row they are for.
IInv ==
    /\ TypeOK
    /\ GoodRows(table.rows, reads)
    /\ \A w \in Web : GoodRequest(req[w], reads)

\* Setting counters to missing or to zero puts none above the images.
LEMMA SetAllGood ==
  ASSUME NEW rd \in Reads, NEW rows, GoodRows(rows, rd),
         NEW T, NEW v \in {NaN, 0}
  PROVE GoodRows(SetAll(rows, T, v), rd)
<1> DEFINE f == [rec \in rows |->
                   [rec EXCEPT !.n = [t \in Track |-> IF t \in T THEN v ELSE @[t]]]]
           S == SetAll(rows, T, v)
<1>1. S = {f[rec] : rec \in rows}
  BY DEF SetAll
<1>2. ASSUME NEW rec \in rows
      PROVE /\ f[rec] \in Record
            /\ \A t \in Track : f[rec].n[t] <= rd[f[rec].id][t]
  <2>1. rec \in Record /\ rec.id \in Row /\ rec.n \in [Track -> Nat \cup {NaN}]
    BY DEF GoodRows, Record
  <2>2. f[rec] = [rec EXCEPT !.n = [t \in Track |-> IF t \in T THEN v ELSE rec.n[t]]]
    OBVIOUS
  <2>3. f[rec] = [id |-> rec.id, n |-> [t \in Track |-> IF t \in T THEN v ELSE rec.n[t]]]
    BY <2>1, <2>2 DEF Record
  <2>4. [t \in Track |-> IF t \in T THEN v ELSE rec.n[t]] \in [Track -> Nat \cup {NaN}]
    BY <2>1 DEF NaN
  <2>5. f[rec] \in Record
    BY <2>1, <2>3, <2>4 DEF Record
  <2>6. ASSUME NEW t \in Track PROVE f[rec].n[t] <= rd[f[rec].id][t]
    <3>1. rec.n[t] <= rd[rec.id][t] /\ rd[rec.id][t] \in Nat
      BY <2>1 DEF GoodRows, Below, Reads
    <3> QED
      BY <2>3, <3>1 DEF NaN
  <2> QED
    BY <2>5, <2>6
<1>3. IsFiniteSet(S)
  <2>1. f \in Surjection(rows, S)
    BY <1>1 DEF Surjection
  <2> QED
    BY <2>1, FS_Surjection DEF GoodRows
<1> QED
  BY <1>1, <1>2, <1>3 DEF GoodRows, Below

\* So does leaving columns out.
LEMMA ProjectGood ==
  ASSUME NEW rd \in Reads, NEW rows, GoodRows(rows, rd), NEW C
  PROVE GoodRows(Project(rows, C), rd)
BY SetAllGood DEF Project

\* A counter goes up by one, and so do the images answered.
LEMMA BumpGood ==
  ASSUME NEW rd \in Reads, NEW rows, GoodRows(rows, rd), NEW r \in Row, NEW t \in Track
  PROVE GoodRows(Bump(rows, r, t), [rd EXCEPT ![r][t] = @ + 1])
<1> DEFINE f == [rec \in rows |->
                   IF rec.id = r THEN [rec EXCEPT !.n[t] = Plus(@)] ELSE rec]
           S == Bump(rows, r, t)
           up == [rd EXCEPT ![r][t] = @ + 1]
<1>1. S = {f[rec] : rec \in rows}
  BY DEF Bump
<1>2. \A p \in Row : \A u \in Track :
        up[p][u] = IF p = r /\ u = t THEN rd[p][u] + 1 ELSE rd[p][u]
  BY DEF Reads
<1>3. ASSUME NEW rec \in rows
      PROVE /\ f[rec] \in Record
            /\ \A u \in Track : f[rec].n[u] <= up[f[rec].id][u]
  <2>1. /\ rec \in Record /\ rec.id \in Row /\ rec.n \in [Track -> Nat \cup {NaN}]
        /\ \A u \in Track : rec.n[u] <= rd[rec.id][u] /\ rd[rec.id][u] \in Nat
    BY DEF GoodRows, Record, Below, Reads
  <2>2. CASE rec.id = r
    <3> DEFINE m == [rec.n EXCEPT ![t] = Plus(@)]
    <3>1. Plus(rec.n[t]) \in Nat \cup {NaN} /\ Plus(rec.n[t]) <= rd[r][t] + 1
      <4>1. rec.n[t] \in Nat \cup {NaN} /\ rec.n[t] <= rd[r][t] /\ rd[r][t] \in Nat
        BY <2>1, <2>2
      <4> QED
        BY <4>1 DEF Plus, NaN
    <3>2. m \in [Track -> Nat \cup {NaN}]
      BY <2>1, <3>1
    <3>3. f[rec] = [id |-> rec.id, n |-> m]
      BY <2>1, <2>2 DEF Record
    <3>4. \A u \in Track : m[u] = IF u = t THEN Plus(rec.n[t]) ELSE rec.n[u]
      BY <2>1
    <3>5. \A u \in Track : m[u] <= up[r][u]
      BY <1>2, <2>1, <2>2, <3>1, <3>4
    <3> QED
      BY <2>1, <2>2, <3>2, <3>3, <3>5 DEF Record
  <2>3. CASE rec.id # r
    BY <1>2, <2>1, <2>3
  <2> QED
    BY <2>2, <2>3
<1>4. IsFiniteSet(S)
  <2>1. f \in Surjection(rows, S)
    BY <1>1 DEF Surjection
  <2> QED
    BY <2>1, FS_Surjection DEF GoodRows
<1> QED
  BY <1>1, <1>3, <1>4 DEF GoodRows, Below

\* The rows of two frames together, and some rows of a frame.
LEMMA UnionGood ==
  ASSUME NEW rd, NEW R, NEW S, GoodRows(R, rd), GoodRows(S, rd)
  PROVE GoodRows(R \cup S, rd)
BY FS_Union DEF GoodRows, Below

LEMMA SubsetGood ==
  ASSUME NEW rd, NEW R, NEW S \in SUBSET R, GoodRows(R, rd)
  PROVE GoodRows(S, rd)
BY FS_Subset DEF GoodRows, Below

\* New images leave the other frames below.
LEMMA MoreReadsGood ==
  ASSUME NEW rd \in Reads, NEW r \in Row, NEW t \in Track, NEW rows, GoodRows(rows, rd)
  PROVE GoodRows(rows, [rd EXCEPT ![r][t] = @ + 1])
<1>1. \A p \in Row : \A u \in Track :
        /\ rd[p][u] \in Nat
        /\ [rd EXCEPT ![r][t] = @ + 1][p][u] \in {rd[p][u], rd[p][u] + 1}
  BY DEF Reads
<1>2. ASSUME NEW rec \in rows, NEW u \in Track
      PROVE rec.n[u] <= [rd EXCEPT ![r][t] = @ + 1][rec.id][u]
  <2>1. rec.id \in Row /\ rec.n[u] \in Nat \cup {NaN} /\ rec.n[u] <= rd[rec.id][u]
    BY DEF GoodRows, Below, Record
  <2> QED
    BY <1>1, <2>1 DEF NaN
<1> QED
  BY <1>2 DEF GoodRows, Below

-----------------------------------------------------------------------------
(* Requests. *)

LEMMA IdleGood ==
  ASSUME NEW rd
  PROVE Idle \in Request /\ GoodRequest(Idle, rd)
<1>1. Idle \in Request
  BY DEF Idle, Request, Frame, Size
<1>2. GoodRows({}, rd)
  BY FS_EmptySet DEF GoodRows, Below
<1> QED
  BY <1>1, <1>2 DEF GoodRequest, Idle

\* A request with a good frame.
LEMMA FrameGood ==
  ASSUME NEW rd, NEW q \in Request, NEW f, GoodRows(f.rows, rd), q.frame = f,
         q.pc = "column" => q.arg \in Col, q.pc # "form"
  PROVE GoodRequest(q, rd)
BY DEF GoodRequest

\* A step that changes no frame.
LEMMA StepGood ==
  ASSUME NEW rd, NEW q, GoodRequest(q, rd),
         NEW p \in {"idle", "count", "reconcile", "create",
                    "clear", "fill", "save", "drop", "delete", "deleterow", "size"}
  PROVE GoodRequest([q EXCEPT !.pc = p], rd)
<1>1. q \in Request
  BY DEF GoodRequest
<1>2. /\ [q EXCEPT !.pc = p] \in Request
      /\ [q EXCEPT !.pc = p].pc = p
      /\ [q EXCEPT !.pc = p].frame = q.frame
  BY <1>1 DEF Request
<1> QED
  BY <1>2 DEF GoodRequest

LEMMA WriteGood ==
  ASSUME IInv, NEW w \in Web, NEW new, GoodRequest(new, reads), Write(w, new)
  PROVE /\ req' \in [Web -> Request]
        /\ sound' \in BOOLEAN
        /\ \A v \in Web : GoodRequest(req'[v], reads)
<1>1. ASSUME NEW v \in Web
      PROVE GoodRequest([req[v] EXCEPT !.fresh = (req[v].pc = "idle")], reads)
  <2>1. req[v] \in Request /\ GoodRequest(req[v], reads)
    BY DEF IInv, TypeOK
  <2>2. (req[v].pc = "idle") \in BOOLEAN
    OBVIOUS
  <2>3. ASSUME NEW b \in BOOLEAN
        PROVE /\ [req[v] EXCEPT !.fresh = b] \in Request
              /\ [req[v] EXCEPT !.fresh = b].pc = req[v].pc
              /\ [req[v] EXCEPT !.fresh = b].arg = req[v].arg
              /\ [req[v] EXCEPT !.fresh = b].frame = req[v].frame
    BY <2>1 DEF Request
  <2> QED
    BY <2>1, <2>2, <2>3 DEF GoodRequest
<1>2. \A v \in Web : req'[v] = IF v = w THEN new
                     ELSE [req[v] EXCEPT !.fresh = (req[v].pc = "idle")]
  BY DEF Write
<1>3. \A v \in Web : GoodRequest(req'[v], reads)
  BY <1>1, <1>2
<1>4. req' \in [Web -> Request]
  <2>1. req' = [v \in Web |-> req'[v]]
    BY DEF Write
  <2> QED
    BY <1>3, <2>1 DEF GoodRequest
<1>5. sound' \in BOOLEAN
  BY DEF Write
<1> QED
  BY <1>3, <1>4, <1>5

LEMMA ArriveGood ==
  ASSUME IInv, NEW w \in Web, NEW rd, NEW new, GoodRequest(new, rd), Arrive(w, new),
         \A v \in Web : GoodRequest(req[v], rd)
  PROVE /\ req' \in [Web -> Request]
        /\ served' \in [requests: 0..MaxRequests, crashes: 0..MaxCrashes]
        /\ \A v \in Web : GoodRequest(req'[v], rd)
<1>1. new \in Request /\ req \in [Web -> Request]
  BY DEF GoodRequest, IInv, TypeOK
<1>2. req' \in [Web -> Request] /\ \A v \in Web : GoodRequest(req'[v], rd)
  BY <1>1 DEF Arrive
<1>3. served' \in [requests: 0..MaxRequests, crashes: 0..MaxCrashes]
  BY TrackingAssumption DEF Arrive, IInv, TypeOK
<1> QED
  BY <1>2, <1>3

LEMMA ContinueGood ==
  ASSUME IInv, NEW w \in Web, NEW new, GoodRequest(new, reads), Continue(w, new)
  PROVE IInv'
<1>1. new \in Request /\ req \in [Web -> Request]
  BY DEF GoodRequest, IInv, TypeOK
<1>2. req' \in [Web -> Request] /\ \A v \in Web : GoodRequest(req'[v], reads)
  BY <1>1 DEF Continue, IInv
<1>3. TypeOK'
  BY <1>2 DEF Continue, IInv, TypeOK
<1> QED
  BY <1>2, <1>3 DEF Continue, IInv

LEMMA FailGood ==
  ASSUME IInv, NEW w \in Web, Fail(w)
  PROVE IInv'
<1>1. req' \in [Web -> Request] /\ \A v \in Web : GoodRequest(req'[v], reads)
  BY IdleGood DEF Fail, IInv, TypeOK
<1>2. TypeOK'
  BY <1>1 DEF Fail, IInv, TypeOK
<1> QED
  BY <1>1, <1>2 DEF Fail, IInv

LEMMA CrashGood ==
  ASSUME IInv, NEW w \in Web, Crash(w)
  PROVE IInv'
<1>1. req' \in [Web -> Request] /\ \A v \in Web : GoodRequest(req'[v], reads)
  BY IdleGood DEF Crash, IInv, TypeOK
<1>2. served' \in [requests: 0..MaxRequests, crashes: 0..MaxCrashes]
  BY TrackingAssumption DEF Crash, IInv, TypeOK
<1>3. TypeOK'
  BY <1>1, <1>2 DEF Crash, IInv, TypeOK
<1> QED
  BY <1>1, <1>3 DEF Crash, IInv

-----------------------------------------------------------------------------
(* store_table_in_db. *)

LEMMA ReconcileGood ==
  ASSUME IInv, NEW w \in Web, Reconcile(w)
  PROVE IInv'
<1> DEFINE new == req[w].frame.cols \ colRows
           q == [req[w] EXCEPT !.todo = new, !.pc = IF new = {} THEN "clear" ELSE "create"]
<1>1. req[w] \in Request /\ GoodRequest(req[w], reads) /\ new \in SUBSET Col
  BY DEF IInv, TypeOK, Request, Frame
<1>2. q \in Request /\ q.frame = req[w].frame /\ q.pc \notin {"column", "form"}
  BY <1>1 DEF Request
<1>3. GoodRequest(q, reads)
  BY <1>1, <1>2 DEF GoodRequest
<1>4. Continue(w, q)
  BY DEF Reconcile
<1> QED
  BY <1>3, <1>4, ContinueGood

LEMMA CreateColumnGood ==
  ASSUME IInv, NEW w \in Web, NEW c \in Col, CreateColumn(w, c)
  PROVE IInv'
<1>1. CASE Fail(w)
  BY <1>1, FailGood
<1>2. CASE ~Fail(w)
  <2> DEFINE rest == req[w].todo \ {c}
             q == [req[w] EXCEPT !.todo = rest,
                                 !.pc = IF rest = {} THEN "clear" ELSE "create"]
  <2>1. /\ colRows' = colRows \cup {c} /\ Write(w, q)
        /\ UNCHANGED <<wf, table, mails, served, reads, base>>
    BY <1>2 DEF CreateColumn
  <2>2. req[w] \in Request /\ GoodRequest(req[w], reads) /\ rest \in SUBSET Col
    BY DEF IInv, TypeOK, Request
  <2>3. q \in Request /\ q.frame = req[w].frame /\ q.pc \notin {"column", "form"}
    BY <2>2 DEF Request
  <2>4. GoodRequest(q, reads)
    BY <2>2, <2>3 DEF GoodRequest
  <2>5. /\ req' \in [Web -> Request] /\ sound' \in BOOLEAN
        /\ \A v \in Web : GoodRequest(req'[v], reads)
    BY <2>1, <2>4, WriteGood
  <2>6. TypeOK'
    BY <2>1, <2>5 DEF IInv, TypeOK
  <2> QED
    BY <2>1, <2>5, <2>6 DEF IInv
<1> QED
  BY <1>1, <1>2

LEMMA ClearGood ==
  ASSUME IInv, NEW w \in Web, Clear(w)
  PROVE IInv'
<1>1. CASE Fail(w)
  BY <1>1, FailGood
<1>2. CASE ~Fail(w)
  <2> DEFINE R == Project(req[w].frame.rows, colRows)
             f == [cols |-> colRows, rows |-> R]
             q == [req[w] EXCEPT !.pc = "fill", !.frame = f]
  <2>1. /\ table' = [cols |-> colRows, rows |-> {}]
        /\ Write(w, [req[w] EXCEPT !.pc = "fill",
                       !.frame = [cols |-> colRows, rows |-> Project(@.rows, colRows)]])
        /\ UNCHANGED <<colRows, wf, mails, served, reads, base>>
    BY <1>2 DEF Clear
  <2>2. /\ req[w] \in Request /\ GoodRequest(req[w], reads) /\ colRows \in SUBSET Col
        /\ reads \in Reads
    BY DEF IInv, TypeOK, Reads
  <2>3. GoodRows(R, reads)
    BY <2>2, ProjectGood DEF GoodRequest
  <2>4. f \in Frame
    BY <2>2, <2>3 DEF Frame, GoodRows
  <2>5. /\ q \in Request /\ q.frame.rows = R /\ q.pc = "fill"
    BY <2>2, <2>4 DEF Request
  <2>6. GoodRequest(q, reads)
    BY <2>3, <2>5 DEF GoodRequest
  <2>7. Write(w, q)
    BY <2>1, <2>2 DEF Request
  <2>8. /\ req' \in [Web -> Request] /\ sound' \in BOOLEAN
        /\ \A v \in Web : GoodRequest(req'[v], reads)
    BY <2>6, <2>7, WriteGood
  <2>9. table' \in Frame /\ GoodRows(table'.rows, reads)
    BY <2>1, <2>2, IdleGood DEF Frame, GoodRequest, Idle
  <2>10. TypeOK'
    BY <2>1, <2>8, <2>9 DEF IInv, TypeOK
  <2> QED
    BY <2>1, <2>8, <2>9, <2>10 DEF IInv
<1> QED
  BY <1>1, <1>2

LEMMA FillTableGood ==
  ASSUME IInv, NEW w \in Web, FillTable(w)
  PROVE IInv'
<1>1. CASE Fail(w)
  BY <1>1, FailGood
<1>2. CASE ~Fail(w)
  <2> DEFINE f == req[w].frame
             R == SetAll(f.rows, Track \cap (table.cols \ f.cols), NaN)
             q == [req[w] EXCEPT !.pc = "save"]
  <2>1. /\ table' = [table EXCEPT !.rows = @ \cup R]
        /\ base' = [r \in Row |-> [t \in Track |->
                      IF Born(req[w], r, t) THEN reads[r][t] ELSE base[r][t]]]
        /\ Write(w, q)
        /\ UNCHANGED <<colRows, wf, mails, served, reads>>
    BY <1>2 DEF FillTable
  <2>2. /\ req[w] \in Request /\ GoodRequest(req[w], reads) /\ table \in Frame
        /\ GoodRows(table.rows, reads) /\ reads \in Reads
    BY DEF IInv, TypeOK, Reads
  <2>3. GoodRows(table.rows \cup R, reads)
    BY <2>2, SetAllGood, UnionGood DEF GoodRequest
  <2>4. table' \in Frame /\ table'.rows = table.rows \cup R
    BY <2>1, <2>2, <2>3 DEF Frame, GoodRows
  <2>5. /\ req' \in [Web -> Request] /\ sound' \in BOOLEAN
        /\ \A v \in Web : GoodRequest(req'[v], reads)
    BY <2>1, <2>2, StepGood, WriteGood
  <2>6. base' \in [Row -> [Track -> Nat]]
    BY <2>1 DEF IInv, TypeOK
  <2>7. TypeOK'
    BY <2>1, <2>4, <2>5, <2>6 DEF IInv, TypeOK
  <2> QED
    BY <2>1, <2>3, <2>4, <2>5, <2>7 DEF IInv
<1> QED
  BY <1>1, <1>2

LEMMA SaveWorkflowGood ==
  ASSUME IInv, NEW w \in Web, SaveWorkflow(w)
  PROVE IInv'
<1>1. /\ wf' = [ncols |-> Cardinality(req[w].frame.cols),
                nrows |-> Cardinality(req[w].frame.rows)]
      /\ Write(w, Idle)
      /\ UNCHANGED <<table, mails, served, reads, base>>
  BY DEF SaveWorkflow
<1>2. req[w] \in Request /\ GoodRequest(req[w], reads)
  BY DEF IInv, TypeOK
<1>3. IsFiniteSet(Col)
  BY TrackingAssumption, FS_Union DEF Col
<1>4. req[w].frame.cols \in SUBSET Col
  BY <1>2 DEF Request, Frame
<1>5. Cardinality(req[w].frame.cols) \in Nat /\ Cardinality(req[w].frame.rows) \in Nat
  BY <1>2, <1>3, <1>4, FS_Subset, FS_CardinalityType DEF GoodRequest, GoodRows
<1>6. wf' \in Size
  BY <1>1, <1>5 DEF Size
<1>7. /\ req' \in [Web -> Request] /\ sound' \in BOOLEAN
      /\ \A v \in Web : GoodRequest(req'[v], reads)
  BY <1>1, IdleGood, WriteGood
<1>8. colRows' \subseteq Col
  <2>1. colRows' \subseteq colRows \cup req[w].frame.cols
    BY DEF SaveWorkflow
  <2> QED
    BY <1>4, <2>1 DEF IInv, TypeOK
<1>9. TypeOK'
  BY <1>1, <1>6, <1>7, <1>8 DEF IInv, TypeOK
<1> QED
  BY <1>1, <1>7, <1>9 DEF IInv

-----------------------------------------------------------------------------
(* The image and the emails. *)

LEMMA ServeImageGood ==
  ASSUME IInv, NEW w \in Web, NEW r \in Row, NEW t \in Track, ServeImage(w, r, t)
  PROVE IInv'
<1> DEFINE rd == [reads EXCEPT ![r][t] = @ + 1]
           R == Bump(table.rows, r, t)
           q == [Idle EXCEPT !.pc = "reconcile", !.op = "image", !.arg = t,
                   !.frame = [table EXCEPT !.rows = R]]
<1>1. /\ reads' = rd /\ Arrive(w, q)
      /\ UNCHANGED <<colRows, wf, table, mails, base, sound>>
  BY DEF ServeImage
<1>2. reads \in Reads /\ table \in Frame /\ GoodRows(table.rows, reads)
  BY DEF IInv, TypeOK, Reads
<1>3. rd \in [Row -> [Track -> Nat]]
  BY <1>2 DEF Reads
<1>4. GoodRows(R, rd) /\ GoodRows(table.rows, rd)
  BY <1>2, BumpGood, MoreReadsGood
<1>5. [table EXCEPT !.rows = R] \in Frame /\ [table EXCEPT !.rows = R].rows = R
  BY <1>2, <1>4 DEF Frame, GoodRows
<1>6. q \in Request /\ q.frame.rows = R /\ q.pc = "reconcile"
  BY <1>5, IdleGood DEF Request, Col
<1>7. GoodRequest(q, rd)
  BY <1>4, <1>6 DEF GoodRequest
<1>8. \A v \in Web : GoodRequest(req[v], rd)
  BY <1>2, MoreReadsGood DEF IInv, GoodRequest
<1>9. /\ req' \in [Web -> Request] /\ \A v \in Web : GoodRequest(req'[v], rd)
      /\ served' \in [requests: 0..MaxRequests, crashes: 0..MaxCrashes]
  BY <1>1, <1>7, <1>8, ArriveGood
<1>10. TypeOK'
  BY <1>1, <1>3, <1>9 DEF IInv, TypeOK
<1> QED
  BY <1>1, <1>4, <1>9, <1>10 DEF IInv

\* A request that starts with a good frame, and changes nothing but the
\* images sent out.
LEMMA StartGood ==
  ASSUME IInv, NEW w \in Web, NEW q, GoodRequest(q, reads), Arrive(w, q),
         mails' \in SUBSET (Row \X Track),
         UNCHANGED <<colRows, wf, table, reads, base, sound>>
  PROVE IInv'
<1>1. /\ req' \in [Web -> Request] /\ \A v \in Web : GoodRequest(req'[v], reads)
      /\ served' \in [requests: 0..MaxRequests, crashes: 0..MaxCrashes]
  BY ArriveGood DEF IInv
<1>2. TypeOK'
  BY <1>1 DEF IInv, TypeOK
<1> QED
  BY <1>1, <1>2 DEF IInv

LEMMA IdsRows ==
  ASSUME IInv
  PROVE Ids \in SUBSET Row
BY DEF IInv, TypeOK, Frame, Record, Ids

LEMMA SendMessagesGood ==
  ASSUME IInv, NEW w \in Web, NEW R \in SUBSET Row, NEW t \in Track, SendMessages(w, R, t)
  PROVE IInv'
<1> DEFINE S == SetAll(table.rows, {t}, 0)
           f == [cols |-> table.cols \cup {t}, rows |-> S]
           q == [Idle EXCEPT !.pc = "column", !.op = "mail", !.arg = t, !.size = wf,
                   !.frame = f]
<1>1. /\ mails' = mails \cup (R \X {t}) /\ Arrive(w, q)
      /\ UNCHANGED <<colRows, wf, table, reads, base, sound>>
  BY DEF SendMessages
<1>2. /\ reads \in Reads /\ table \in Frame /\ GoodRows(table.rows, reads) /\ wf \in Size
      /\ mails \in SUBSET (Row \X Track)
  BY DEF IInv, TypeOK, Reads
<1>3. GoodRows(S, reads)
  BY <1>2, SetAllGood
<1>4. f \in Frame
  BY <1>2, <1>3 DEF Frame, GoodRows, Col
<1>5. q \in Request /\ q.frame.rows = S /\ q.arg \in Col
  BY <1>2, <1>4, IdleGood DEF Request, Col
<1>6. GoodRequest(q, reads)
  BY <1>3, <1>5 DEF GoodRequest
<1>7. mails' \in SUBSET (Row \X Track)
  BY <1>1, <1>2
<1> QED
  BY <1>1, <1>6, <1>7, StartGood

LEMMA SendFailsGood ==
  ASSUME IInv, NEW w \in Web, NEW R \in SUBSET Row, NEW t \in Track, SendFails(w, R, t)
  PROVE IInv'
<1>1. mails' \in SUBSET (Row \X Track)
  BY DEF SendFails, IInv, TypeOK
<1> QED
  BY <1>1, IdleGood, StartGood DEF SendFails

LEMMA SaveColumnGood ==
  ASSUME IInv, NEW w \in Web, SaveColumn(w)
  PROVE IInv'
<1>1. CASE Fail(w)
  BY <1>1, FailGood
<1>2. CASE ~Fail(w)
  <2> DEFINE p == IF req[w].op = "mail" THEN "count" ELSE "reconcile"
             q == [req[w] EXCEPT !.pc = p]
  <2>1. /\ req[w].pc = "column" /\ colRows' = colRows \cup {req[w].arg} /\ Write(w, q)
        /\ UNCHANGED <<wf, table, mails, served, reads, base>>
    BY <1>2 DEF SaveColumn
  <2>2. req[w] \in Request /\ GoodRequest(req[w], reads) /\ req[w].arg \in Col
    BY <2>1 DEF IInv, TypeOK, GoodRequest
  <2>3. GoodRequest(q, reads)
    BY <2>2, StepGood
  <2>4. /\ req' \in [Web -> Request] /\ sound' \in BOOLEAN
        /\ \A v \in Web : GoodRequest(req'[v], reads)
    BY <2>1, <2>3, WriteGood
  <2>5. TypeOK'
    BY <2>1, <2>2, <2>4 DEF IInv, TypeOK
  <2> QED
    BY <2>1, <2>4, <2>5 DEF IInv
<1> QED
  BY <1>1, <1>2

\* A request that writes the dimensions of the workflow.
LEMMA WriteSizeGood ==
  ASSUME IInv, NEW w \in Web, NEW q, GoodRequest(q, reads), Write(w, q), wf' \in Size,
         UNCHANGED <<colRows, table, mails, served, reads, base>>
  PROVE IInv'
<1>1. /\ req' \in [Web -> Request] /\ sound' \in BOOLEAN
      /\ \A v \in Web : GoodRequest(req'[v], reads)
  BY WriteGood
<1>2. TypeOK'
  BY <1>1 DEF IInv, TypeOK
<1> QED
  BY <1>1, <1>2 DEF IInv

LEMMA CountColumnGood ==
  ASSUME IInv, NEW w \in Web, CountColumn(w)
  PROVE IInv'
<1>1. req[w] \in Request /\ GoodRequest(req[w], reads) /\ req[w].size \in Size
  BY DEF IInv, TypeOK, Request
<1>2. wf' \in Size
  BY <1>1 DEF CountColumn, Size
<1>3. GoodRequest([req[w] EXCEPT !.pc = "reconcile"], reads)
  BY <1>1, StepGood
<1> QED
  BY <1>2, <1>3, WriteSizeGood DEF CountColumn

-----------------------------------------------------------------------------
(* The other requests of the owner. *)

LEMMA ColumnAddGood ==
  ASSUME IInv, NEW w \in Web, NEW c \in Col, ColumnAdd(w, c)
  PROVE IInv'
<1> DEFINE f == [table EXCEPT !.cols = @ \cup {c}]
           q == [Idle EXCEPT !.pc = "column", !.op = "columnadd", !.arg = c, !.frame = f]
<1>1. Arrive(w, q) /\ UNCHANGED <<colRows, wf, table, mails, reads, base, sound>>
  BY DEF ColumnAdd
<1>2. /\ table \in Frame /\ GoodRows(table.rows, reads)
      /\ mails \in SUBSET (Row \X Track)
  BY DEF IInv, TypeOK
<1>3. f \in Frame /\ f.rows = table.rows
  BY <1>2 DEF Frame
<1>4. q \in Request /\ q.frame = f /\ q.arg \in Col /\ q.pc = "column"
  BY <1>3, IdleGood DEF Request
<1>5. GoodRequest(q, reads)
  BY <1>2, <1>3, <1>4, FrameGood
<1> QED
  BY <1>1, <1>2, <1>5, StartGood

LEMMA RowCreateGood ==
  ASSUME IInv, NEW w \in Web, NEW r \in Row, RowCreate(w, r)
  PROVE IInv'
<1> DEFINE S == SetAll(table.rows, Track \cap (colRows \ table.cols), NaN)
           Z == [id: {r}, n: {Zeros}]
           T == SetAll(Z, Track \cap (table.cols \ colRows), NaN)
           f == [cols |-> table.cols \cup colRows, rows |-> S \cup T]
           q == [Idle EXCEPT !.pc = "reconcile", !.op = "rowcreate", !.arg = r, !.frame = f]
<1>1. Arrive(w, q) /\ UNCHANGED <<colRows, wf, table, mails, reads, base, sound>>
  BY DEF RowCreate
<1>2. /\ reads \in Reads /\ table \in Frame /\ GoodRows(table.rows, reads)
      /\ colRows \in SUBSET Col /\ mails \in SUBSET (Row \X Track)
  BY DEF IInv, TypeOK, Reads
<1>3. GoodRows(Z, reads)
  <2>1. Z = {[id |-> r, n |-> Zeros]}
    <3>1. [id |-> r, n |-> Zeros] \in Z
      OBVIOUS
    <3>2. ASSUME NEW x \in Z PROVE x = [id |-> r, n |-> Zeros]
      OBVIOUS
    <3> QED
      BY <3>1, <3>2
  <2>2. Zeros \in [Track -> Nat \cup {NaN}] /\ \A t \in Track : Zeros[t] = 0
    BY DEF Zeros
  <2>3. IsFiniteSet(Z)
    BY <2>1, FS_Singleton
  <2>4. Z \in SUBSET Record
    BY <2>1, <2>2 DEF Record
  <2>5. Below(Z, reads)
    BY <1>2, <2>1, <2>2 DEF Below, Reads
  <2> QED
    BY <2>3, <2>4, <2>5 DEF GoodRows
<1>4. GoodRows(S \cup T, reads)
  BY <1>2, <1>3, SetAllGood, UnionGood
<1>5. f \in Frame
  BY <1>2, <1>4 DEF Frame, GoodRows
<1>6. q \in Request /\ q.frame = f /\ q.pc = "reconcile"
  BY <1>5, IdleGood DEF Request
<1>7. GoodRequest(q, reads)
  <2>1. GoodRows(f.rows, reads)
    BY <1>4
  <2> HIDE DEF f, q
  <2> QED
    BY <1>6, <2>1, FrameGood
<1> QED
  BY <1>1, <1>2, <1>7, StartGood

LEMMA RowFormGood ==
  ASSUME IInv, NEW w \in Web, NEW rec \in table.rows, RowForm(w, rec)
  PROVE IInv'
<1> DEFINE f == [cols |-> colRows, rows |-> {rec}]
           q == [Idle EXCEPT !.pc = "form", !.op = "rowupdate", !.arg = rec.id, !.frame = f]
<1>1. Arrive(w, q) /\ UNCHANGED <<colRows, wf, table, mails, reads, base, sound>>
  BY DEF RowForm
<1>2. /\ table \in Frame /\ GoodRows(table.rows, reads)
      /\ colRows \in SUBSET Col /\ mails \in SUBSET (Row \X Track)
  BY DEF IInv, TypeOK
<1>3. GoodRows({rec}, reads)
  BY <1>2, SubsetGood
<1>4. f \in Frame /\ rec.id \in Row
  BY <1>2 DEF Frame, Record
<1>5. q \in Request /\ q.frame = f /\ q.pc = "form"
  BY <1>4, IdleGood DEF Request
<1>6. GoodRequest(q, reads)
  BY <1>3, <1>5 DEF GoodRequest
<1> QED
  BY <1>1, <1>2, <1>6, StartGood

LEMMA RowUpdateGood ==
  ASSUME IInv, NEW w \in Web, RowUpdate(w)
  PROVE IInv'
<1> DEFINE f == req[w].frame
<1>1. PICK shown \in f.rows :
        table' = [table EXCEPT !.rows = {IF rec.id = req[w].arg
                                         THEN Overwritten(rec, shown, f.cols)
                                         ELSE rec : rec \in @}]
  BY DEF RowUpdate
<1> DEFINE g == [rec \in table.rows |->
                   IF rec.id = req[w].arg THEN Overwritten(rec, shown, f.cols) ELSE rec]
           M == {g[rec] : rec \in table.rows}
<1>2. /\ req[w].pc = "form" /\ Write(w, Idle)
      /\ UNCHANGED <<colRows, wf, mails, served, reads, base>>
  BY DEF RowUpdate
<1>3. /\ reads \in Reads /\ table \in Frame /\ GoodRows(table.rows, reads)
      /\ GoodRequest(req[w], reads) /\ GoodRows(f.rows, reads)
  BY DEF IInv, TypeOK, Reads, GoodRequest
<1>4. ASSUME NEW rec \in table.rows
      PROVE /\ g[rec] \in Record
            /\ \A t \in Track : g[rec].n[t] <= reads[g[rec].id][t]
  <2>1. /\ rec \in Record /\ shown \in Record
        /\ shown.id = req[w].arg
        /\ \A t \in Track : /\ rec.n[t] <= reads[rec.id][t]
                            /\ shown.n[t] <= reads[shown.id][t]
    BY <1>2, <1>3 DEF GoodRequest, GoodRows, Below
  <2>2. CASE rec.id = req[w].arg
    <3> DEFINE m == [t \in Track |-> IF t \in f.cols THEN shown.n[t] ELSE rec.n[t]]
    <3>1. g[rec] = [id |-> rec.id, n |-> m]
      BY <2>1, <2>2 DEF Overwritten, Record
    <3>2. m \in [Track -> Nat \cup {NaN}]
      BY <2>1 DEF Record
    <3>3. \A t \in Track : m[t] <= reads[rec.id][t]
      BY <2>1, <2>2
    <3> QED
      BY <2>1, <3>1, <3>2, <3>3 DEF Record
  <2>3. CASE rec.id # req[w].arg
    BY <2>1, <2>3
  <2> QED
    BY <2>2, <2>3
<1>5. GoodRows(M, reads)
  <2>1. g \in Surjection(table.rows, M)
    BY DEF Surjection
  <2>2. IsFiniteSet(M)
    BY <1>3, <2>1, FS_Surjection DEF GoodRows
  <2>3. \A x \in M : x \in Record /\ \A t \in Track : x.n[t] <= reads[x.id][t]
    BY <1>4
  <2> QED
    BY <2>2, <2>3 DEF GoodRows, Below
<1>6. table' \in Frame /\ table'.rows = M
  <2>1. table' = [table EXCEPT !.rows = M]
    BY <1>1
  <2> QED
    BY <1>3, <1>5, <2>1 DEF Frame, GoodRows
<1>7. /\ req' \in [Web -> Request] /\ sound' \in BOOLEAN
      /\ \A v \in Web : GoodRequest(req'[v], reads)
  BY <1>2, IdleGood, WriteGood
<1>8. TypeOK'
  BY <1>2, <1>6, <1>7 DEF IInv, TypeOK
<1> QED
  BY <1>2, <1>5, <1>6, <1>7, <1>8 DEF IInv

LEMMA CloseFormGood ==
  ASSUME IInv, NEW w \in Web, CloseForm(w)
  PROVE IInv'
BY IdleGood, ContinueGood DEF CloseForm

LEMMA ColumnDeleteGood ==
  ASSUME IInv, NEW w \in Web, NEW c \in Col, ColumnDelete(w, c)
  PROVE IInv'
<1> DEFINE q == [Idle EXCEPT !.pc = "drop", !.op = "columndelete", !.arg = c,
                   !.size = [wf EXCEPT !.ncols = @ - 1]]
<1>1. wf \in Size /\ mails \in SUBSET (Row \X Track)
  BY DEF IInv, TypeOK
<1>2. [wf EXCEPT !.ncols = @ - 1] \in Size
  BY <1>1 DEF Size
<1>3. q \in Request /\ q.frame = Idle.frame /\ q.pc = "drop"
  BY <1>2, IdleGood DEF Request
<1>4. GoodRequest(q, reads)
  BY <1>3, IdleGood DEF GoodRequest
<1> QED
  BY <1>1, <1>4, StartGood DEF ColumnDelete

LEMMA RowDeleteGood ==
  ASSUME IInv, NEW w \in Web, NEW r \in Row, RowDelete(w, r)
  PROVE IInv'
<1> DEFINE q == [Idle EXCEPT !.pc = "deleterow", !.op = "rowdelete", !.arg = r,
                   !.size = [wf EXCEPT !.nrows = @ - 1]]
<1>1. wf \in Size /\ mails \in SUBSET (Row \X Track)
  BY DEF IInv, TypeOK
<1>2. [wf EXCEPT !.nrows = @ - 1] \in Size
  BY <1>1 DEF Size
<1>3. q \in Request /\ q.frame = Idle.frame /\ q.pc = "deleterow"
  BY <1>2, IdleGood DEF Request
<1>4. GoodRequest(q, reads)
  BY <1>3, IdleGood DEF GoodRequest
<1> QED
  BY <1>1, <1>4, StartGood DEF RowDelete

\* A request that writes the table.
LEMMA WriteTableGood ==
  ASSUME IInv, NEW w \in Web, NEW q, GoodRequest(q, reads), Write(w, q),
         table' \in Frame, GoodRows(table'.rows, reads),
         UNCHANGED <<colRows, wf, mails, served, reads, base>>
  PROVE IInv'
<1>1. /\ req' \in [Web -> Request] /\ sound' \in BOOLEAN
      /\ \A v \in Web : GoodRequest(req'[v], reads)
  BY WriteGood
<1>2. TypeOK'
  BY <1>1 DEF IInv, TypeOK
<1> QED
  BY <1>1, <1>2 DEF IInv

LEMMA DropColumnGood ==
  ASSUME IInv, NEW w \in Web, DropColumn(w)
  PROVE IInv'
<1> DEFINE C == table.cols \ {req[w].arg}
           R == Project(table.rows, C)
<1>1. CASE Continue(w, Idle)
  BY <1>1, IdleGood, ContinueGood
<1>2. CASE ~Continue(w, Idle)
  <2>1. /\ table' = [cols |-> C, rows |-> R] /\ Write(w, [req[w] EXCEPT !.pc = "delete"])
        /\ UNCHANGED <<colRows, wf, mails, served, reads, base>>
    BY <1>2 DEF DropColumn
  <2>2. /\ table \in Frame /\ GoodRows(table.rows, reads) /\ reads \in Reads
        /\ GoodRequest(req[w], reads)
    BY DEF IInv, TypeOK, Reads
  <2>3. GoodRows(R, reads)
    BY <2>2, ProjectGood
  <2>4. table' \in Frame /\ table'.rows = R
    BY <2>1, <2>2, <2>3 DEF Frame, GoodRows
  <2>5. GoodRequest([req[w] EXCEPT !.pc = "delete"], reads)
    BY <2>2, StepGood
  <2> QED
    BY <2>1, <2>3, <2>4, <2>5, WriteTableGood
<1> QED
  BY <1>1, <1>2

LEMMA DeleteColumnGood ==
  ASSUME IInv, NEW w \in Web, DeleteColumn(w)
  PROVE IInv'
<1>1. /\ colRows' = colRows \ {req[w].arg} /\ Write(w, [req[w] EXCEPT !.pc = "size"])
      /\ UNCHANGED <<wf, table, mails, served, reads, base>>
  BY DEF DeleteColumn
<1>2. GoodRequest([req[w] EXCEPT !.pc = "size"], reads)
  BY StepGood DEF IInv
<1>3. /\ req' \in [Web -> Request] /\ sound' \in BOOLEAN
      /\ \A v \in Web : GoodRequest(req'[v], reads)
  BY <1>1, <1>2, WriteGood
<1>4. TypeOK'
  BY <1>1, <1>3 DEF IInv, TypeOK
<1> QED
  BY <1>1, <1>3, <1>4 DEF IInv

LEMMA DeleteRowGood ==
  ASSUME IInv, NEW w \in Web, DeleteRow(w)
  PROVE IInv'
<1> DEFINE r == req[w].arg
           R == {rec \in table.rows : rec.id # r}
           b == req[w].fresh /\ r \in Ids
           q == [req[w] EXCEPT !.pc = "size", !.fresh = b]
<1>1. /\ table' = [table EXCEPT !.rows = R]
      /\ Write(w, [req[w] EXCEPT !.pc = "size", !.fresh = @ /\ r \in Ids])
      /\ UNCHANGED <<colRows, wf, mails, served, reads, base>>
  BY DEF DeleteRow
<1>2. /\ table \in Frame /\ GoodRows(table.rows, reads)
      /\ req[w] \in Request /\ GoodRequest(req[w], reads)
  BY DEF IInv, TypeOK
<1>3. GoodRows(R, reads)
  BY <1>2, SubsetGood
<1>4. table' \in Frame /\ table'.rows = R
  BY <1>1, <1>2, <1>3 DEF Frame, GoodRows
<1>5. b \in BOOLEAN
  OBVIOUS
<1>6. q \in Request /\ q.frame = req[w].frame /\ q.pc = "size"
  <2>1. ASSUME NEW x \in BOOLEAN
        PROVE /\ [req[w] EXCEPT !.pc = "size", !.fresh = x] \in Request
              /\ [req[w] EXCEPT !.pc = "size", !.fresh = x].frame = req[w].frame
              /\ [req[w] EXCEPT !.pc = "size", !.fresh = x].pc = "size"
    BY <1>2 DEF Request
  <2> QED
    BY <1>5, <2>1
<1>7. GoodRequest(q, reads)
  BY <1>2, <1>6 DEF GoodRequest
<1>8. Write(w, q)
  BY <1>1
<1> QED
  BY <1>1, <1>3, <1>4, <1>7, <1>8, WriteTableGood

LEMMA SaveSizeGood ==
  ASSUME IInv, NEW w \in Web, SaveSize(w)
  PROVE IInv'
<1>1. req[w].size \in Size
  BY DEF IInv, TypeOK, Request
<1> QED
  BY <1>1, IdleGood, WriteSizeGood DEF SaveSize

-----------------------------------------------------------------------------
(* The theorems. *)

LEMMA InitGood == Init => IInv
<1> SUFFICES ASSUME Init PROVE IInv
  OBVIOUS
<1>1. PICK c \in Other, R \in (SUBSET Row) \ {{}} :
        /\ colRows = {c}
        /\ wf = [ncols |-> 1, nrows |-> Cardinality(R)]
        /\ table = [cols |-> {c}, rows |-> [id: R, n: {Zeros}]]
  BY DEF Init
<1> DEFINE S == [id: R, n: {Zeros}]
           g == [r \in R |-> [id |-> r, n |-> Zeros]]
<1>2. /\ Zeros \in [Track -> Nat \cup {NaN}] /\ Zeros \in [Track -> Nat]
      /\ \A t \in Track : Zeros[t] = 0
  BY DEF Zeros
<1>3. IsFiniteSet(R) /\ R \in SUBSET Row
  BY TrackingAssumption, FS_Subset
<1>4. \A x \in S : x.id \in R /\ x = [id |-> x.id, n |-> Zeros]
  OBVIOUS
<1>5. g \in Surjection(R, S)
  <2>1. g \in [R -> S]
    OBVIOUS
  <2>2. \A x \in S : \E r \in R : g[r] = x
    BY <1>4
  <2> QED
    BY <2>1, <2>2 DEF Surjection
<1>6. IsFiniteSet(S)
  BY <1>3, <1>5, FS_Surjection
<1>7. S \in SUBSET Record
  BY <1>2, <1>3, <1>4 DEF Record
<1>8. reads = [r \in Row |-> Zeros] /\ reads \in [Row -> [Track -> Nat]]
  BY <1>2 DEF Init
<1>9. Below(S, reads)
  <2>1. ASSUME NEW x \in S, NEW t \in Track PROVE x.n[t] <= reads[x.id][t]
    <3>1. x.id \in Row /\ x.n = Zeros
      BY <1>3, <1>4
    <3> QED
      BY <1>2, <1>8, <3>1
  <2> QED
    BY <2>1 DEF Below
<1>10. GoodRows(table.rows, reads) /\ table \in Frame /\ table.rows = S
  BY <1>1, <1>6, <1>7, <1>9 DEF GoodRows, Frame, Col
<1>11. wf \in Size
  BY <1>1, <1>3, FS_CardinalityType DEF Size
<1>12. req \in [Web -> Request] /\ \A w \in Web : GoodRequest(req[w], reads)
  BY IdleGood DEF Init
<1>13. served \in [requests: 0..MaxRequests, crashes: 0..MaxCrashes]
  BY TrackingAssumption DEF Init
<1>14. /\ colRows \subseteq Col /\ mails \subseteq Row \X Track /\ sound \in BOOLEAN
       /\ base \in [Row -> [Track -> Nat]]
  BY <1>1, <1>2 DEF Init, Col
<1>15. TypeOK
  BY <1>8, <1>10, <1>11, <1>12, <1>13, <1>14 DEF TypeOK
<1> QED
  BY <1>10, <1>12, <1>15 DEF IInv

LEMMA StepGoodAll == IInv /\ [Next]_vars => IInv'
<1> SUFFICES ASSUME IInv, [Next]_vars PROVE IInv'
  OBVIOUS
<1>1. CASE UNCHANGED vars
  BY <1>1 DEF vars, IInv, TypeOK
<1>2. ASSUME NEW w \in Web, Store(w) PROVE IInv'
  BY <1>2, ReconcileGood, ClearGood, FillTableGood, SaveWorkflowGood, CreateColumnGood
     DEF Store
<1>3. ASSUME NEW w \in Web, Email(w) PROVE IInv'
  BY <1>3, ServeImageGood, SendMessagesGood, SendFailsGood, SaveColumnGood, CountColumnGood
     DEF Email
<1>4. ASSUME NEW w \in Web, Owner(w) PROVE IInv'
  BY <1>4, ColumnAddGood, ColumnDeleteGood, RowCreateGood, RowDeleteGood, RowFormGood,
     RowUpdateGood, CloseFormGood, DropColumnGood, DeleteColumnGood, DeleteRowGood,
     SaveSizeGood DEF Owner
<1>5. ASSUME NEW w \in Web, Crash(w) PROVE IInv'
  BY <1>5, CrashGood
<1> QED
  BY <1>1, <1>2, <1>3, <1>4, <1>5 DEF Next

\* The types, frames that stay finite, and counters below the images answered
\* hold together in every state: each is needed for the next step of another
\* (store_table_in_db, trck, send_messages, row_update, row_create).
THEOREM TrackingInvariant == Spec => []IInv
<1>1. Init => IInv
  BY InitGood
<1>2. IInv /\ [Next]_vars => IInv'
  BY StepGoodAll
<1> QED
  BY <1>1, <1>2, PTL DEF Spec

\* Types of the model of the data frame, whatever the constants
\* (store_table_in_db, workflow_delete_column, row_delete).
THEOREM TrackingTypeCorrect == Spec => []TypeOK
<1>1. IInv => TypeOK
  BY DEF IInv
<1> QED
  BY <1>1, TrackingInvariant, PTL

\* Reads are lost, never invented: however the requests interleave, fail or
\* crash, no counter exceeds the images answered for its recipient (trck,
\* store_table_in_db, row_update).
THEOREM CountersNeverTooHigh == Spec => []NeverOvercounted
<1>1. IInv => NeverOvercounted
  BY DEF IInv, GoodRequest, GoodRows, Below, NeverOvercounted, Known
<1> QED
  BY <1>1, TrackingInvariant, PTL

-----------------------------------------------------------------------------
(* What a request can be at each step, whatever the others do.             *)

\* Which request is where, and that the deletions hold no frame.
ShapeOf(q) ==
    /\ q.pc = "column" => q.op \in {"mail", "columnadd"}
    /\ q.pc = "count" => q.op = "mail"
    /\ q.pc = "form" => q.op = "rowupdate"
    /\ q.pc \in {"drop", "delete"} => q.op = "columndelete"
    /\ q.pc = "deleterow" => q.op = "rowdelete"
    /\ q.pc = "size" => q.op \in {"columndelete", "rowdelete"}
    /\ q.pc \in {"idle", "drop", "delete", "deleterow", "size"} => q.frame.cols = {}

Shape == \A w \in Web : ShapeOf(req[w])

LEMMA IdleShape ==
  /\ ShapeOf(Idle)
  /\ Idle.pc = "idle" /\ Idle.op = "none" /\ Idle.frame.cols = {} /\ Idle.fresh
BY DEF ShapeOf, Idle

\* The fields of a request that goes on.
LEMMA NextPc ==
  ASSUME NEW q \in Request, NEW p
  PROVE /\ [q EXCEPT !.pc = p].pc = p
        /\ [q EXCEPT !.pc = p].op = q.op
        /\ [q EXCEPT !.pc = p].arg = q.arg
        /\ [q EXCEPT !.pc = p].frame = q.frame
        /\ [q EXCEPT !.pc = p].size = q.size
        /\ [q EXCEPT !.pc = p].fresh = q.fresh
BY DEF Request

LEMMA NextFresh ==
  ASSUME NEW q \in Request, NEW b
  PROVE /\ [q EXCEPT !.fresh = b].pc = q.pc
        /\ [q EXCEPT !.fresh = b].op = q.op
        /\ [q EXCEPT !.fresh = b].arg = q.arg
        /\ [q EXCEPT !.fresh = b].frame = q.frame
        /\ [q EXCEPT !.fresh = b].size = q.size
        /\ [q EXCEPT !.fresh = b].fresh = b
BY DEF Request

\* After a step of w the others are as they were, but for fresh.
Others(w, new) ==
    /\ \A v \in Web : v = w => req'[v] = new
    /\ \A v \in Web : v # w =>
         /\ req'[v].pc = req[v].pc /\ req'[v].op = req[v].op /\ req'[v].arg = req[v].arg
         /\ req'[v].frame = req[v].frame /\ req'[v].size = req[v].size

LEMMA WriteOthers ==
  ASSUME TypeOK, NEW w \in Web, NEW new, Write(w, new)
  PROVE /\ Others(w, new)
        /\ \A v \in Web \ {w} : req[v].pc # "idle" => ~req'[v].fresh
        /\ sound' => sound /\ req[w].fresh
<1>1. ASSUME NEW v \in Web, v # w, NEW b, b = (req[v].pc = "idle")
      PROVE /\ req'[v].pc = req[v].pc /\ req'[v].op = req[v].op
            /\ req'[v].arg = req[v].arg /\ req'[v].frame = req[v].frame
            /\ req'[v].size = req[v].size /\ req'[v].fresh = b
  <2>1. req[v] \in Request
    BY DEF TypeOK
  <2>2. req'[v] = [req[v] EXCEPT !.fresh = b]
    BY <1>1 DEF Write
  <2> QED
    BY <2>1, <2>2, NextFresh
<1>2. req'[w] = new
  BY DEF Write
<1>3. Others(w, new)
  BY <1>1, <1>2 DEF Others
<1>4. ASSUME NEW v \in Web \ {w}, req[v].pc # "idle" PROVE ~req'[v].fresh
  <2>1. req'[v].fresh = FALSE
    BY <1>1, <1>4
  <2> QED
    BY <2>1
<1>5. sound' => sound /\ req[w].fresh
  BY DEF Write
<1> QED
  BY <1>3, <1>4, <1>5

LEMMA AloneOthers ==
  ASSUME TypeOK, NEW w \in Web, NEW new, req' = [req EXCEPT ![w] = new]
  PROVE /\ Others(w, new)
        /\ \A v \in Web \ {w} : req'[v] = req[v]
BY DEF Others, TypeOK

LEMMA ShapeStep ==
  ASSUME Shape, NEW w \in Web, NEW new, Others(w, new), ShapeOf(new)
  PROVE Shape'
BY DEF Shape, ShapeOf, Others

-----------------------------------------------------------------------------
(* Columns: while sound, the table has no column without a Column row, and *)
(* neither has the frame of a request that nobody has overtaken.           *)

Upholds(q, cr, cols) ==
    /\ q.pc # "create"
    /\ q.frame.cols \subseteq cr \cup (IF q.pc = "column" THEN {q.arg} ELSE {})
    /\ q.pc = "delete" => q.arg \notin cols

Covered ==
    sound => /\ table.cols \subseteq colRows
             /\ \A w \in Web : req[w].fresh => Upholds(req[w], colRows, table.cols)

CInv == Shape /\ Covered

LEMMA IdleUpholds == ASSUME NEW cr, NEW cols PROVE Upholds(Idle, cr, cols)
BY IdleShape DEF Upholds

\* A write.  The others that are still fresh are idle.
LEMMA WriteCovered ==
  ASSUME TypeOK, CInv, NEW w \in Web, NEW new, Write(w, new), ShapeOf(new),
         sound /\ req[w].fresh =>
            table'.cols \subseteq colRows' /\ Upholds(new, colRows', table'.cols)
  PROVE CInv'
<1>1. /\ Others(w, new)
      /\ \A v \in Web \ {w} : req[v].pc # "idle" => ~req'[v].fresh
      /\ sound' => sound /\ req[w].fresh
  BY WriteOthers
<1>2. Shape'
  BY <1>1, ShapeStep DEF CInv
<1>3. ASSUME sound', NEW v \in Web, req'[v].fresh
      PROVE Upholds(req'[v], colRows', table'.cols)
  <2>1. CASE v = w
    BY <1>1, <1>3, <2>1 DEF Others
  <2>2. CASE v # w
    BY <1>1, <1>3, <2>2 DEF Others, CInv, Shape, ShapeOf, Upholds
  <2> QED
    BY <2>1, <2>2
<1>4. Covered'
  BY <1>1, <1>3 DEF Covered
<1> QED
  BY <1>2, <1>4 DEF CInv

\* A step that writes nothing, of a request with a frame no larger.
LEMMA CalmCovered ==
  ASSUME TypeOK, CInv, NEW w \in Web, NEW new, req' = [req EXCEPT ![w] = new], ShapeOf(new),
         UNCHANGED <<colRows, table, sound>>,
         sound /\ new.fresh /\ table.cols \subseteq colRows => Upholds(new, colRows, table.cols)
  PROVE CInv'
<1>1. Others(w, new) /\ \A v \in Web \ {w} : req'[v] = req[v]
  BY AloneOthers
<1>2. Shape'
  BY <1>1, ShapeStep DEF CInv
<1>3. Covered'
  BY <1>1 DEF Others, CInv, Covered
<1> QED
  BY <1>2, <1>3 DEF CInv

LEMMA FailCovered ==
  ASSUME TypeOK, CInv, NEW w \in Web, req' = [req EXCEPT ![w] = Idle], ~sound'
  PROVE CInv'
<1>1. Shape'
  BY AloneOthers, IdleShape, ShapeStep DEF CInv
<1> QED
  BY <1>1 DEF CInv, Covered

LEMMA StoreCovered ==
  ASSUME IInv, CInv, NEW w \in Web, Store(w)
  PROVE CInv'
<1> DEFINE q == req[w]
<1>1. TypeOK /\ q \in Request /\ ShapeOf(q)
  BY DEF IInv, TypeOK, CInv, Shape
<1>2. sound /\ q.fresh => Upholds(q, colRows, table.cols) /\ table.cols \subseteq colRows
  BY DEF CInv, Covered
<1>3. CASE Reconcile(w)
  <2> DEFINE new == q.frame.cols \ colRows
             p == IF new = {} THEN "clear" ELSE "create"
             n == [q EXCEPT !.todo = new, !.pc = p]
  <2>1. q.pc = "reconcile" /\ Continue(w, n)
    BY <1>3 DEF Reconcile
  <2>2. n.pc = p /\ n.frame = q.frame /\ n.op = q.op /\ n.arg = q.arg /\ n.fresh = q.fresh
    BY <1>1 DEF Request
  <2>3. ShapeOf(n)
    BY <2>2 DEF ShapeOf
  <2>4. sound /\ n.fresh => Upholds(n, colRows, table.cols)
    BY <1>2, <2>1, <2>2 DEF Upholds
  <2> HIDE DEF n
  <2> QED
    BY <1>1, <2>1, <2>3, <2>4, CalmCovered DEF Continue
<1>4. CASE \E c \in Col : CreateColumn(w, c)
  <2> PICK c \in Col : CreateColumn(w, c)
    BY <1>4
  <2>1. CASE Fail(w)
    BY <1>1, <2>1, FailCovered DEF Fail
  <2>2. CASE ~Fail(w)
    <3> DEFINE rest == q.todo \ {c}
               p == IF rest = {} THEN "clear" ELSE "create"
               n == [q EXCEPT !.todo = rest, !.pc = p]
    <3>1. q.pc = "create" /\ Write(w, n)
      BY <2>2 DEF CreateColumn
    <3>2. n.pc = p
      BY <1>1 DEF Request
    <3>3. ShapeOf(n)
      BY <3>2 DEF ShapeOf
    <3>4. ~(sound /\ q.fresh)
      BY <1>2, <3>1 DEF Upholds
    <3> HIDE DEF n
    <3> QED
      BY <1>1, <3>1, <3>3, <3>4, WriteCovered
  <2> QED
    BY <2>1, <2>2
<1>5. CASE Clear(w)
  <2>1. CASE Fail(w)
    BY <1>1, <2>1, FailCovered DEF Fail
  <2>2. CASE ~Fail(w)
    <3> DEFINE f == [cols |-> colRows, rows |-> Project(q.frame.rows, colRows)]
               n == [q EXCEPT !.pc = "fill", !.frame = f]
    <3>1. /\ table' = [cols |-> colRows, rows |-> {}] /\ colRows' = colRows
          /\ Write(w, [q EXCEPT !.pc = "fill",
                         !.frame = [cols |-> colRows, rows |-> Project(@.rows, colRows)]])
      BY <1>5, <2>2 DEF Clear
    <3>2. Write(w, n)
      BY <1>1, <3>1 DEF Request
    <3>3. n.pc = "fill" /\ n.frame.cols = colRows
      BY <1>1 DEF Request
    <3>4. ShapeOf(n) /\ Upholds(n, colRows', table'.cols)
      BY <3>1, <3>3 DEF ShapeOf, Upholds
    <3> HIDE DEF n
    <3> QED
      BY <1>1, <3>1, <3>2, <3>4, WriteCovered
  <2> QED
    BY <2>1, <2>2
<1>6. CASE FillTable(w)
  <2>1. CASE Fail(w)
    BY <1>1, <2>1, FailCovered DEF Fail
  <2>2. CASE ~Fail(w)
    <3> DEFINE n == [q EXCEPT !.pc = "save"]
    <3>1. q.pc = "fill" /\ Write(w, n) /\ colRows' = colRows
      BY <1>6, <2>2 DEF FillTable
    <3>2. table'.cols = table.cols
      BY <1>1, <1>6, <2>2 DEF FillTable, TypeOK, Frame
    <3>3. n.pc = "save" /\ n.frame = q.frame
      BY <1>1, NextPc
    <3>4. ShapeOf(n) /\ (sound /\ q.fresh => Upholds(n, colRows, table.cols))
      BY <1>2, <3>1, <3>3 DEF ShapeOf, Upholds
    <3> HIDE DEF n
    <3> QED
      BY <1>1, <1>2, <3>1, <3>2, <3>4, WriteCovered
  <2> QED
    BY <2>1, <2>2
<1>7. CASE SaveWorkflow(w)
  <2>1. Write(w, Idle) /\ colRows \subseteq colRows' /\ table' = table
    BY <1>7 DEF SaveWorkflow
  <2>2. sound => table.cols \subseteq colRows
    BY <1>1 DEF CInv, Covered
  <2> QED
    BY <1>1, <2>1, <2>2, IdleShape, IdleUpholds, WriteCovered
<1> QED
  BY <1>3, <1>4, <1>5, <1>6, <1>7 DEF Store

\* A request that starts, with a frame that has only columns that it should.
LEMMA StartCovered ==
  ASSUME TypeOK, CInv, NEW w \in Web, NEW new, Arrive(w, new), ShapeOf(new),
         UNCHANGED <<colRows, table, sound>>,
         table.cols \subseteq colRows => Upholds(new, colRows, table.cols)
  PROVE CInv'
BY CalmCovered DEF Arrive

LEMMA EmailCovered ==
  ASSUME IInv, CInv, NEW w \in Web, Email(w)
  PROVE CInv'
<1> DEFINE q == req[w]
<1>1. TypeOK /\ q \in Request /\ ShapeOf(q) /\ table \in Frame
  BY DEF IInv, TypeOK, CInv, Shape
<1>2. sound /\ q.fresh => Upholds(q, colRows, table.cols) /\ table.cols \subseteq colRows
  BY DEF CInv, Covered
<1>3. ASSUME NEW r \in Row, NEW t \in Track, ServeImage(w, r, t) PROVE CInv'
  <2> DEFINE f == [table EXCEPT !.rows = Bump(table.rows, r, t)]
             n == [Idle EXCEPT !.pc = "reconcile", !.op = "image", !.arg = t, !.frame = f]
  <2>1. Arrive(w, n) /\ UNCHANGED <<colRows, table, sound>>
    BY <1>3, <1>1 DEF ServeImage, Frame
  <2>2. n.pc = "reconcile" /\ n.frame.cols = table.cols
    BY <1>1 DEF Idle, Frame
  <2>3. ShapeOf(n) /\ (table.cols \subseteq colRows => Upholds(n, colRows, table.cols))
    BY <2>2 DEF ShapeOf, Upholds
  <2> HIDE DEF n
  <2> QED
    BY <1>1, <2>1, <2>3, StartCovered
<1>4. ASSUME NEW R \in SUBSET Row, NEW t \in Track, SendMessages(w, R, t) PROVE CInv'
  <2> DEFINE f == [cols |-> table.cols \cup {t}, rows |-> SetAll(table.rows, {t}, 0)]
             n == [Idle EXCEPT !.pc = "column", !.op = "mail", !.arg = t, !.size = wf, !.frame = f]
  <2>1. Arrive(w, n) /\ UNCHANGED <<colRows, table, sound>>
    BY <1>4 DEF SendMessages
  <2>2. n.pc = "column" /\ n.op = "mail" /\ n.arg = t /\ n.frame.cols = table.cols \cup {t}
    BY DEF Idle
  <2>3. ShapeOf(n) /\ (table.cols \subseteq colRows => Upholds(n, colRows, table.cols))
    BY <2>2 DEF ShapeOf, Upholds
  <2> HIDE DEF n
  <2> QED
    BY <1>1, <2>1, <2>3, StartCovered
<1>5. ASSUME NEW R \in SUBSET Row, NEW t \in Track, SendFails(w, R, t) PROVE CInv'
  BY <1>1, <1>5, IdleShape, IdleUpholds, StartCovered DEF SendFails
<1>6. CASE SaveColumn(w)
  <2>1. CASE Fail(w)
    BY <1>1, <2>1, FailCovered DEF Fail
  <2>2. CASE ~Fail(w)
    <3> DEFINE p == IF q.op = "mail" THEN "count" ELSE "reconcile"
               n == [q EXCEPT !.pc = p]
    <3>1. q.pc = "column" /\ Write(w, n) /\ colRows' = colRows \cup {q.arg} /\ table' = table
      BY <1>6, <2>2 DEF SaveColumn
    <3>2. n.pc = p /\ n.frame = q.frame /\ n.op = q.op
      BY <1>1, NextPc
    <3>3. ShapeOf(n) /\ (sound /\ q.fresh => Upholds(n, colRows', table'.cols))
      BY <1>2, <3>1, <3>2 DEF ShapeOf, Upholds
    <3>4. sound /\ q.fresh => table'.cols \subseteq colRows'
      BY <1>2, <3>1
    <3> HIDE DEF n
    <3> QED
      BY <1>1, <3>1, <3>3, <3>4, WriteCovered
  <2> QED
    BY <2>1, <2>2
<1>7. CASE CountColumn(w)
  <2> DEFINE n == [q EXCEPT !.pc = "reconcile"]
  <2>1. q.pc = "count" /\ Write(w, n) /\ UNCHANGED <<colRows, table>>
    BY <1>7 DEF CountColumn
  <2>2. n.pc = "reconcile" /\ n.frame = q.frame
    BY <1>1, NextPc
  <2>3. ShapeOf(n) /\ (sound /\ q.fresh => Upholds(n, colRows, table.cols))
    BY <1>2, <2>1, <2>2 DEF ShapeOf, Upholds
  <2> HIDE DEF n
  <2> QED
    BY <1>1, <1>2, <2>1, <2>3, WriteCovered
<1> QED
  BY <1>3, <1>4, <1>5, <1>6, <1>7 DEF Email

LEMMA OwnerCovered ==
  ASSUME IInv, CInv, NEW w \in Web, Owner(w)
  PROVE CInv'
<1> DEFINE q == req[w]
<1>1. TypeOK /\ q \in Request /\ ShapeOf(q) /\ table \in Frame
  BY DEF IInv, TypeOK, CInv, Shape
<1>2. sound /\ q.fresh => Upholds(q, colRows, table.cols) /\ table.cols \subseteq colRows
  BY DEF CInv, Covered
<1>3. ASSUME NEW c \in Col, ColumnAdd(w, c) PROVE CInv'
  <2> DEFINE f == [table EXCEPT !.cols = @ \cup {c}]
             n == [Idle EXCEPT !.pc = "column", !.op = "columnadd", !.arg = c, !.frame = f]
  <2>1. Arrive(w, n) /\ UNCHANGED <<colRows, table, sound>>
    BY <1>3 DEF ColumnAdd
  <2>2. n.pc = "column" /\ n.op = "columnadd" /\ n.arg = c /\ n.frame.cols = table.cols \cup {c}
    BY <1>1 DEF Idle, Frame
  <2>3. ShapeOf(n) /\ (table.cols \subseteq colRows => Upholds(n, colRows, table.cols))
    BY <2>2 DEF ShapeOf, Upholds
  <2> HIDE DEF n
  <2> QED
    BY <1>1, <2>1, <2>3, StartCovered
<1>4. ASSUME NEW r \in Row, RowCreate(w, r) PROVE CInv'
  <2> DEFINE R == SetAll(table.rows, Track \cap (colRows \ table.cols), NaN)
                    \cup SetAll([id: {r}, n: {Zeros}], Track \cap (table.cols \ colRows), NaN)
             f == [cols |-> table.cols \cup colRows, rows |-> R]
             n == [Idle EXCEPT !.pc = "reconcile", !.op = "rowcreate", !.arg = r, !.frame = f]
  <2>1. Arrive(w, n) /\ UNCHANGED <<colRows, table, sound>>
    BY <1>4 DEF RowCreate
  <2>2. n.pc = "reconcile" /\ n.frame.cols = table.cols \cup colRows
    BY DEF Idle
  <2>3. ShapeOf(n) /\ (table.cols \subseteq colRows => Upholds(n, colRows, table.cols))
    BY <2>2 DEF ShapeOf, Upholds
  <2> HIDE DEF n
  <2> QED
    BY <1>1, <2>1, <2>3, StartCovered
<1>5. ASSUME NEW rec \in table.rows, RowForm(w, rec) PROVE CInv'
  <2> DEFINE n == [Idle EXCEPT !.pc = "form", !.op = "rowupdate", !.arg = rec.id,
                     !.frame = [cols |-> colRows, rows |-> {rec}]]
  <2>1. Arrive(w, n) /\ UNCHANGED <<colRows, table, sound>>
    BY <1>5 DEF RowForm
  <2>2. n.pc = "form" /\ n.op = "rowupdate" /\ n.frame.cols = colRows
    BY DEF Idle
  <2>3. ShapeOf(n) /\ Upholds(n, colRows, table.cols)
    BY <2>2 DEF ShapeOf, Upholds
  <2> HIDE DEF n
  <2> QED
    BY <1>1, <2>1, <2>3, StartCovered
<1>6. CASE RowUpdate(w)
  <2>1. table'.cols = table.cols /\ Write(w, Idle) /\ colRows' = colRows
    BY <1>1, <1>6 DEF RowUpdate, Frame
  <2> QED
    BY <1>1, <1>2, <2>1, IdleShape, IdleUpholds, WriteCovered
<1>7. CASE CloseForm(w)
  BY <1>1, <1>7, IdleShape, IdleUpholds, CalmCovered DEF CloseForm, Continue
<1>8. ASSUME NEW c \in Col, ColumnDelete(w, c) PROVE CInv'
  <2> DEFINE n == [Idle EXCEPT !.pc = "drop", !.op = "columndelete", !.arg = c,
                     !.size = [wf EXCEPT !.ncols = @ - 1]]
  <2>1. Arrive(w, n) /\ UNCHANGED <<colRows, table, sound>>
    BY <1>8 DEF ColumnDelete
  <2>2. n.pc = "drop" /\ n.op = "columndelete" /\ n.frame.cols = {}
    BY DEF Idle
  <2>3. ShapeOf(n) /\ Upholds(n, colRows, table.cols)
    BY <2>2 DEF ShapeOf, Upholds
  <2> HIDE DEF n
  <2> QED
    BY <1>1, <2>1, <2>3, StartCovered
<1>9. ASSUME NEW r \in Row, RowDelete(w, r) PROVE CInv'
  <2> DEFINE n == [Idle EXCEPT !.pc = "deleterow", !.op = "rowdelete", !.arg = r,
                     !.size = [wf EXCEPT !.nrows = @ - 1]]
  <2>1. Arrive(w, n) /\ UNCHANGED <<colRows, table, sound>>
    BY <1>9 DEF RowDelete
  <2>2. n.pc = "deleterow" /\ n.op = "rowdelete" /\ n.frame.cols = {}
    BY DEF Idle
  <2>3. ShapeOf(n) /\ Upholds(n, colRows, table.cols)
    BY <2>2 DEF ShapeOf, Upholds
  <2> HIDE DEF n
  <2> QED
    BY <1>1, <2>1, <2>3, StartCovered
<1>10. CASE DropColumn(w)
  <2>1. CASE Continue(w, Idle)
    BY <1>1, <2>1, IdleShape, IdleUpholds, CalmCovered DEF Continue
  <2>2. CASE ~Continue(w, Idle)
    <3> DEFINE n == [q EXCEPT !.pc = "delete"]
    <3>1. q.pc = "drop" /\ Write(w, n) /\ colRows' = colRows /\ table'.cols = table.cols \ {q.arg}
      BY <1>10, <2>2 DEF DropColumn
    <3>2. n.pc = "delete" /\ n.op = q.op /\ n.arg = q.arg /\ n.frame = q.frame
      BY <1>1, NextPc
    <3>3. ShapeOf(n) /\ Upholds(n, colRows', table'.cols)
      BY <1>1, <3>1, <3>2 DEF ShapeOf, Upholds
    <3>4. sound /\ q.fresh => table'.cols \subseteq colRows'
      BY <1>2, <3>1
    <3> HIDE DEF n
    <3> QED
      BY <1>1, <3>1, <3>3, <3>4, WriteCovered
  <2> QED
    BY <2>1, <2>2
<1>11. CASE DeleteColumn(w)
  <2> DEFINE n == [q EXCEPT !.pc = "size"]
  <2>1. q.pc = "delete" /\ Write(w, n) /\ colRows' = colRows \ {q.arg} /\ table' = table
    BY <1>11 DEF DeleteColumn
  <2>2. n.pc = "size" /\ n.op = q.op /\ n.frame = q.frame
    BY <1>1, NextPc
  <2>3. ShapeOf(n) /\ Upholds(n, colRows', table'.cols)
    BY <1>1, <2>1, <2>2 DEF ShapeOf, Upholds
  <2>4. sound /\ q.fresh => table'.cols \subseteq colRows'
    BY <1>2, <2>1 DEF Upholds
  <2> HIDE DEF n
  <2> QED
    BY <1>1, <2>1, <2>3, <2>4, WriteCovered
<1>12. CASE DeleteRow(w)
  <2>1. PICK b : Write(w, [q EXCEPT !.pc = "size", !.fresh = b])
    BY <1>12 DEF DeleteRow
  <2> DEFINE n == [q EXCEPT !.pc = "size", !.fresh = b]
  <2>2. q.pc = "deleterow" /\ colRows' = colRows /\ table'.cols = table.cols
    BY <1>1, <1>12 DEF DeleteRow, Frame
  <2>3. n.pc = "size" /\ n.op = q.op /\ n.frame = q.frame
    BY <1>1 DEF Request
  <2>4. ShapeOf(n) /\ Upholds(n, colRows', table'.cols)
    BY <1>1, <2>2, <2>3 DEF ShapeOf, Upholds
  <2>5. Write(w, n)
    BY <2>1
  <2> HIDE DEF n
  <2> QED
    BY <1>1, <1>2, <2>2, <2>4, <2>5, WriteCovered
<1>13. CASE SaveSize(w)
  BY <1>1, <1>2, <1>13, IdleShape, IdleUpholds, WriteCovered DEF SaveSize
<1> QED
  BY <1>3, <1>4, <1>5, <1>6, <1>7, <1>8, <1>9, <1>10, <1>11, <1>12, <1>13 DEF Owner

LEMMA InitCovered == Init => CInv
<1> SUFFICES ASSUME Init PROVE CInv
  OBVIOUS
<1>1. \A w \in Web : req[w] = Idle
  BY DEF Init
<1>2. table.cols \subseteq colRows
  BY DEF Init
<1> QED
  BY <1>1, <1>2, IdleShape, IdleUpholds DEF CInv, Shape, Covered

LEMMA StepCovered == IInv /\ CInv /\ [Next]_vars => CInv'
<1> SUFFICES ASSUME IInv, CInv, [Next]_vars PROVE CInv'
  OBVIOUS
<1>1. CASE UNCHANGED vars
  BY <1>1 DEF vars, CInv, Shape, Covered
<1>2. ASSUME NEW w \in Web, Crash(w) PROVE CInv'
  BY <1>2, FailCovered DEF Crash, IInv
<1> QED
  BY <1>1, <1>2, StoreCovered, EmailCovered, OwnerCovered DEF Next

LEMMA CoveredInvariant == Spec => [](IInv /\ CInv)
<1>1. Spec => []CInv
  <2>1. Init => CInv
    BY InitCovered
  <2>2. IInv /\ CInv /\ [Next]_vars => CInv'
    BY StepCovered
  <2> QED
    BY <2>1, <2>2, TrackingInvariant, PTL DEF Spec
<1> QED
  BY <1>1, TrackingInvariant, PTL

\* Only a step that saves a Column row makes one, and of those only the one
\* of the request that adds it is sound.
LEMMA NewColumn ==
  ASSUME IInv, CInv, [Next]_vars, sound', NEW c \in colRows' \ colRows
  PROVE \E w \in Web : req[w].op \in {"mail", "columnadd"} /\ req[w].arg = c
<1>1. PICK w \in Web : Store(w) \/ Email(w) \/ Owner(w) \/ Crash(w)
  BY DEF Next, vars
<1>2. ~SaveWorkflow(w)
  <2> SUFFICES ASSUME SaveWorkflow(w) PROVE FALSE
    OBVIOUS
  <2>1. /\ req[w].pc = "save" /\ sound /\ req[w].fresh
        /\ colRows' \subseteq colRows \cup req[w].frame.cols
    BY DEF SaveWorkflow, Write
  <2>2. req[w].frame.cols \subseteq colRows
    BY <2>1 DEF CInv, Covered, Upholds
  <2> QED
    BY <2>1, <2>2
<1>8. Store(w) => \E d \in Col : CreateColumn(w, d)
  BY <1>2 DEF Store, Reconcile, Continue, Clear, Fail, FillTable
<1>3. Email(w) => SaveColumn(w)
  BY DEF Email, ServeImage, SendMessages, SendFails, CountColumn
<1>4. ~Owner(w)
  <2>1. \A d \in Col : ~ColumnAdd(w, d) /\ ~ColumnDelete(w, d)
    BY DEF ColumnAdd, ColumnDelete
  <2>2. \A r \in Row : ~RowCreate(w, r) /\ ~RowDelete(w, r)
    BY DEF RowCreate, RowDelete
  <2>3. \A rec \in table.rows : ~RowForm(w, rec)
    BY DEF RowForm
  <2>4. ~RowUpdate(w)
    BY DEF RowUpdate
  <2>5. ~CloseForm(w) /\ ~DropColumn(w)
    BY DEF CloseForm, DropColumn, Continue
  <2>6. ~DeleteColumn(w) /\ ~DeleteRow(w) /\ ~SaveSize(w)
    BY DEF DeleteColumn, DeleteRow, SaveSize
  <2> QED
    BY <2>1, <2>2, <2>3, <2>4, <2>5, <2>6 DEF Owner
<1>5. ~Crash(w)
  BY DEF Crash
<1>6. CASE SaveColumn(w)
  BY <1>6 DEF SaveColumn, Fail, CInv, Shape, ShapeOf
<1>7. ~\E d \in Col : CreateColumn(w, d)
  <2> SUFFICES ASSUME NEW d \in Col, CreateColumn(w, d) PROVE FALSE
    OBVIOUS
  <2>1. req[w].pc = "create" /\ sound /\ req[w].fresh
    BY DEF CreateColumn, Fail, Write
  <2> QED
    BY <2>1 DEF CInv, Covered, Upholds
<1> QED
  BY <1>1, <1>3, <1>4, <1>5, <1>6, <1>7, <1>8

\* A Column row comes back after its deletion only by a request that stores a
\* frame loaded before it (store_table_in_db, workflow_delete_column).
THEOREM DeletedColumnsStay == Spec => DeletedStaysDeleted
<1>1. IInv /\ CInv /\ [Next]_vars =>
        [\A c \in colRows' \ colRows :
            \/ ~sound'
            \/ \E w \in Web : req[w].op \in {"mail", "columnadd"} /\ req[w].arg = c]_vars
  BY NewColumn
<1> QED
  BY <1>1, CoveredInvariant, PTL DEF Spec, DeletedStaysDeleted

-----------------------------------------------------------------------------
(* Rows with a key, and counters that are exact.                           *)

Keyed(rows) == \A x, y \in rows : x.id = y.id => x = y

Dims(t) == [ncols |-> Cardinality(t.cols), nrows |-> Cardinality(t.rows)]

\* The counters of C in rows are the images of rd since bs.
Exact(rows, C, rd, bs) ==
    \A rec \in rows : \A u \in Track \cap C : rec.n[u] = rd[rec.id][u] - bs[rec.id][u]

\* ... except for those that start with the request.
ExactFor(q, rd, bs) ==
    \A rec \in q.frame.rows : \A u \in Track \cap q.frame.cols :
        rec.n[u] = IF Born(q, rec.id, u) THEN 0 ELSE rd[rec.id][u] - bs[rec.id][u]

\* Setting counters keeps the keys, the number of rows and the other counters.
LEMMA SetAllRows ==
  ASSUME NEW rows \in SUBSET Record, NEW T, NEW v
  PROVE \A x \in SetAll(rows, T, v) : \E rec \in rows :
          /\ x = [id |-> rec.id, n |-> [t \in Track |-> IF t \in T THEN v ELSE rec.n[t]]]
          /\ x.id = rec.id
          /\ \A u \in Track : x.n[u] = IF u \in T THEN v ELSE rec.n[u]
<1> DEFINE m(rec) == [t \in Track |-> IF t \in T THEN v ELSE rec.n[t]]
           f == [rec \in rows |->
                   [rec EXCEPT !.n = [t \in Track |-> IF t \in T THEN v ELSE @[t]]]]
<1>1. SetAll(rows, T, v) = {f[rec] : rec \in rows}
  BY DEF SetAll
<1>2. ASSUME NEW rec \in rows
      PROVE /\ f[rec] = [id |-> rec.id, n |-> m(rec)]
            /\ f[rec].id = rec.id
            /\ \A u \in Track : f[rec].n[u] = IF u \in T THEN v ELSE rec.n[u]
  <2>1. rec \in Record /\ f[rec] = [rec EXCEPT !.n = m(rec)]
    OBVIOUS
  <2>2. f[rec] = [id |-> rec.id, n |-> m(rec)]
    BY <2>1 DEF Record
  <2> QED
    BY <2>2
<1> SUFFICES ASSUME NEW x \in SetAll(rows, T, v)
             PROVE \E rec \in rows :
                     /\ x = [id |-> rec.id, n |-> m(rec)]
                     /\ x.id = rec.id
                     /\ \A u \in Track : x.n[u] = IF u \in T THEN v ELSE rec.n[u]
  OBVIOUS
<1>3. PICK rec \in rows : x = f[rec]
  BY <1>1
<1> HIDE DEF f, m
<1>4. /\ x = [id |-> rec.id, n |-> m(rec)]
      /\ x.id = rec.id
      /\ \A u \in Track : x.n[u] = IF u \in T THEN v ELSE rec.n[u]
  BY <1>2, <1>3
<1> QED
  BY <1>4

LEMMA SetAllKeyed ==
  ASSUME NEW rows \in SUBSET Record, IsFiniteSet(rows), Keyed(rows), NEW T, NEW v
  PROVE /\ Keyed(SetAll(rows, T, v))
        /\ Cardinality(SetAll(rows, T, v)) = Cardinality(rows)
<1> DEFINE S == SetAll(rows, T, v)
           f == [rec \in rows |->
                   [rec EXCEPT !.n = [t \in Track |-> IF t \in T THEN v ELSE @[t]]]]
<1>1. S = {f[rec] : rec \in rows}
  BY DEF SetAll
<1>2. \A rec \in rows : f[rec].id = rec.id
  BY DEF Record
<1> HIDE DEF f, S
<1>3. Keyed(S)
  BY <1>1, <1>2 DEF Keyed
<1>4. ExistsBijection(rows, S)
  <2>1. f \in [rows -> S]
    BY <1>1 DEF f
  <2>2. \A x, y \in rows : f[x] = f[y] => x = y
    BY <1>2 DEF Keyed
  <2>3. \A z \in S : \E x \in rows : f[x] = z
    BY <1>1
  <2> QED
    BY <2>1, <2>2, <2>3 DEF Bijection, Injection, IsInjective, Surjection, ExistsBijection
<1>5. Cardinality(S) = Cardinality(rows)
  BY <1>4, FS_Bijection
<1> QED
  BY <1>3, <1>5 DEF S

LEMMA SetAllNone ==
  ASSUME NEW rows \in SUBSET Record, NEW v
  PROVE SetAll(rows, {}, v) = rows
<1>1. ASSUME NEW rec \in rows
      PROVE [rec EXCEPT !.n = [t \in Track |-> IF t \in {} THEN v ELSE @[t]]] = rec
  BY DEF Record
<1> QED
  BY <1>1 DEF SetAll

\* The column of a frame that is not one of T has the counters it had.
LEMMA SetAllExact ==
  ASSUME NEW rows \in SUBSET Record, NEW C, NEW rd, NEW bs, Exact(rows, C, rd, bs),
         NEW T, NEW v, NEW D \in SUBSET C, D \cap T = {}
  PROVE Exact(SetAll(rows, T, v), D, rd, bs)
BY SetAllRows DEF Exact

-----------------------------------------------------------------------------
(* One request writes at a time: whoever has read before is overtaken, and *)
(* ends unsound if it writes at all.                                       *)

\* A request that will fail or write over what another has changed.  A form
\* and a deletion that finds its column gone can still end without.
Overtaken(q) == ~q.fresh /\ q.pc \notin {"idle", "form", "drop"}

\* Between the first and the last write of a request.
Writing(q) ==
    \/ q.pc \in {"count", "fill", "save", "delete", "size"}
    \/ q.op \in {"mail", "columnadd"} /\ q.pc \in {"reconcile", "create", "clear"}

\* An image that is counted in the history and not yet in the table.
Counting(q) == q.op = "image" /\ q.pc # "idle"

Alone(w) == \A v \in Web : Counting(req[v]) => v = w

\* The Column rows cr, the table t and the size s of the workflow agree.
Settled(cr, t, s) == cr = t.cols /\ s = Dims(t) /\ Keyed(t.rows)

\* What a request that has written nothing has read.
Reading(q, t, s) ==
    /\ q.pc # "create"
    /\ q.pc = "form" => q.frame.rows \subseteq t.rows
    /\ q.pc = "column" => q.frame.cols = t.cols \cup {q.arg}
    /\ q.pc \in {"reconcile", "clear"} => q.frame.cols = t.cols
    /\ q.pc \in {"column", "reconcile", "clear"} => Keyed(q.frame.rows)
    /\ q.pc = "drop" => q.size = [s EXCEPT !.ncols = @ - 1]
    /\ q.pc = "deleterow" => q.size = [s EXCEPT !.nrows = @ - 1]

ReadingExact(q, rd, bs) ==
    q.pc \in {"column", "reconcile", "clear"} => ExactFor(q, rd, bs)

\* How far a request has come that has written something.
Half(q, cr, t) ==
    /\ q.pc # "create"
    /\ q.pc \in {"count", "reconcile", "clear", "fill"} =>
          q.frame.cols = cr /\ Keyed(q.frame.rows)
    /\ q.pc = "fill" => t = [cols |-> cr, rows |-> {}]
    /\ q.pc = "save" => q.frame = t /\ cr = t.cols /\ Keyed(t.rows)
    /\ q.pc = "delete" => cr = t.cols \cup {q.arg} /\ q.arg \notin t.cols
    /\ q.pc = "size" => cr = t.cols
    /\ q.pc \in {"delete", "size"} => q.size = Dims(t) /\ Keyed(t.rows)

HalfExact(q, t, rd, bs) ==
    /\ q.pc \in {"count", "reconcile", "clear", "fill"} => ExactFor(q, rd, bs)
    /\ q.pc \in {"save", "delete", "size"} => Exact(t.rows, t.cols, rd, bs)

\* Either nobody has begun to write, and what is stored agrees, or one has.
Serial ==
    sound /\ (\A v \in Web : ~Overtaken(req[v])) =>
        \/ /\ Settled(colRows, table, wf)
           /\ (\A v \in Web : ~Counting(req[v])) => Exact(table.rows, table.cols, reads, base)
           /\ \A v \in Web : /\ ~Writing(req[v])
                             /\ req[v].fresh => Reading(req[v], table, wf)
                             /\ req[v].fresh /\ Alone(v) => ReadingExact(req[v], reads, base)
        \/ \E w \in Web : /\ Writing(req[w]) /\ Half(req[w], colRows, table)
                          /\ Alone(w) => HalfExact(req[w], table, reads, base)
                          /\ \A v \in Web \ {w} : ~Writing(req[v])

\* A counter that starts cannot start above the images.
Bounded == \A r \in Row : \A t \in Track : base[r][t] <= reads[r][t]

SInv == Shape /\ Bounded /\ Serial

\* A request q that nobody has overtaken, with no image but its own.
Sole(q, cr, t, s, rd, bs) ==
    \/ /\ ~Writing(q) /\ Settled(cr, t, s)
       /\ Reading(q, t, s) /\ ReadingExact(q, rd, bs)
       /\ ~Counting(q) => Exact(t.rows, t.cols, rd, bs)
    \/ Writing(q) /\ Half(q, cr, t) /\ HalfExact(q, t, rd, bs)

LEMMA IdleReads ==
  ASSUME NEW q, q.pc = "idle"
  PROVE /\ ~Writing(q) /\ ~Counting(q) /\ ~Overtaken(q)
        /\ \A t, s : Reading(q, t, s)
        /\ \A rd, bs : ReadingExact(q, rd, bs)
BY DEF Writing, Counting, Overtaken, Reading, ReadingExact

\* A request at these steps has written nothing, and is no image.
LEMMA WaitingNot ==
  ASSUME NEW q, ShapeOf(q), q.pc \in {"idle", "form", "drop"}
  PROVE ~Writing(q) /\ ~Counting(q) /\ ~Overtaken(q)
BY DEF ShapeOf, Writing, Counting, Overtaken

\* A write overtakes the others.  When none of them is in the way, the state
\* is as it would be without them.
LEMMA WriteSerial ==
  ASSUME TypeOK, Shape, Serial, NEW w \in Web, NEW new, Write(w, new), req[w].pc # "idle",
         ShapeOf(new),
         Sole(req[w], colRows, table, wf, reads, base) /\ req[w].fresh /\ ~Overtaken(new)
            => Sole(new, colRows', table', wf', reads', base')
  PROVE Serial'
<1>1. /\ Others(w, new)
      /\ \A v \in Web \ {w} : req[v].pc # "idle" => ~req'[v].fresh
      /\ sound' => sound /\ req[w].fresh
  BY WriteOthers
<1>2. req'[w] = new /\ Shape'
  BY <1>1, ShapeStep DEF Others
<1> SUFFICES ASSUME sound', \A v \in Web : ~Overtaken(req'[v])
             PROVE \/ /\ Settled(colRows', table', wf')
                      /\ (\A v \in Web : ~Counting(req'[v])) =>
                            Exact(table'.rows, table'.cols, reads', base')
                      /\ \A v \in Web :
                           /\ ~Writing(req'[v])
                           /\ req'[v].fresh => Reading(req'[v], table', wf')
                           /\ req'[v].fresh => ReadingExact(req'[v], reads', base')
                   \/ /\ Writing(req'[w]) /\ Half(req'[w], colRows', table')
                      /\ HalfExact(req'[w], table', reads', base')
                      /\ \A v \in Web \ {w} : ~Writing(req'[v])
  BY DEF Serial, Alone
<1>3. ASSUME NEW v \in Web, v # w
      PROVE req[v].pc \in {"idle", "form", "drop"} /\ req'[v].pc = req[v].pc
  <2>1. req'[v].pc = req[v].pc
    BY <1>1, <1>3 DEF Others
  <2>2. CASE req[v].pc # "idle"
    BY <1>1, <1>3, <2>1, <2>2 DEF Overtaken
  <2> QED
    BY <2>1, <2>2
<1>4. ASSUME NEW v \in Web, v # w
      PROVE /\ ~Writing(req[v]) /\ ~Counting(req[v]) /\ ~Overtaken(req[v])
            /\ ~Writing(req'[v]) /\ ~Counting(req'[v])
  BY <1>2, <1>3, <1>4, WaitingNot DEF Shape
<1>5. sound /\ req[w].fresh /\ Alone(w) /\ \A v \in Web : ~Overtaken(req[v])
  <2>1. sound /\ req[w].fresh
    BY <1>1
  <2>2. ~Overtaken(req[w])
    BY <2>1 DEF Overtaken
  <2> QED
    BY <1>4, <2>1, <2>2 DEF Alone
<1>6. Sole(req[w], colRows, table, wf, reads, base)
  <2>1. CASE \A v \in Web : ~Writing(req[v])
    <3>1. /\ Settled(colRows, table, wf)
          /\ (\A v \in Web : ~Counting(req[v])) => Exact(table.rows, table.cols, reads, base)
          /\ Reading(req[w], table, wf)
          /\ ReadingExact(req[w], reads, base)
      BY <1>5, <2>1 DEF Serial
    <3>2. ~Counting(req[w]) => \A v \in Web : ~Counting(req[v])
      BY <1>4
    <3> QED
      BY <2>1, <3>1, <3>2 DEF Sole
  <2>2. CASE \E v \in Web : Writing(req[v])
    <3>1. PICK u \in Web : /\ Writing(req[u]) /\ Half(req[u], colRows, table)
                           /\ Alone(u) => HalfExact(req[u], table, reads, base)
      BY <1>5, <2>2 DEF Serial
    <3>2. u = w
      BY <1>4, <3>1
    <3> QED
      BY <1>5, <3>1, <3>2 DEF Sole
  <2> QED
    BY <2>1, <2>2
<1>7. Sole(new, colRows', table', wf', reads', base')
  BY <1>2, <1>5, <1>6
<1>8. CASE Writing(new)
  BY <1>2, <1>4, <1>7, <1>8 DEF Sole
<1>9. CASE ~Writing(new)
  <2>1. /\ Settled(colRows', table', wf')
        /\ Reading(new, table', wf') /\ ReadingExact(new, reads', base')
        /\ ~Counting(new) => Exact(table'.rows, table'.cols, reads', base')
    BY <1>7, <1>9 DEF Sole
  <2>2. ASSUME NEW v \in Web, v # w, req'[v].fresh
        PROVE Reading(req'[v], table', wf') /\ ReadingExact(req'[v], reads', base')
    BY <1>1, <1>3, <2>2, IdleReads
  <2> QED
    BY <1>2, <1>4, <1>9, <2>1, <2>2
<1> QED
  BY <1>8, <1>9

\* A request that starts, or ends without a write, leaves the others alone.
LEMMA CalmSerial ==
  ASSUME TypeOK, Shape, Serial, NEW w \in Web, NEW new, req' = [req EXCEPT ![w] = new],
         UNCHANGED <<colRows, wf, table, reads, base, sound>>,
         req[w].pc \in {"idle", "form", "drop"},
         ~Writing(new), ~Counting(new), new.fresh,
         Settled(colRows, table, wf) => Reading(new, table, wf),
         Settled(colRows, table, wf) /\ Exact(table.rows, table.cols, reads, base)
            => ReadingExact(new, reads, base)
  PROVE Serial'
<1>1. req'[w] = new /\ \A v \in Web \ {w} : req'[v] = req[v]
  BY AloneOthers DEF Others
<1>2. ~Writing(req[w]) /\ ~Counting(req[w]) /\ ~Overtaken(req[w])
  BY WaitingNot DEF Shape
<1>3. \A v \in Web : /\ Writing(req'[v]) <=> Writing(req[v])
                     /\ Counting(req'[v]) <=> Counting(req[v])
  BY <1>1, <1>2
<1>4. (\A v \in Web : ~Overtaken(req'[v])) => \A v \in Web : ~Overtaken(req[v])
  BY <1>1, <1>2
<1>5. \A v \in Web : Alone(v)' <=> Alone(v)
  BY <1>3 DEF Alone
<1> SUFFICES ASSUME sound, \A v \in Web : ~Overtaken(req[v])
             PROVE \/ /\ Settled(colRows, table, wf)
                      /\ (\A v \in Web : ~Counting(req[v])) =>
                            Exact(table.rows, table.cols, reads, base)
                      /\ \A v \in Web :
                           /\ ~Writing(req[v])
                           /\ req'[v].fresh => Reading(req'[v], table, wf)
                           /\ req'[v].fresh /\ Alone(v) => ReadingExact(req'[v], reads, base)
                   \/ \E u \in Web : /\ Writing(req[u]) /\ Half(req'[u], colRows, table)
                                     /\ Alone(u) => HalfExact(req'[u], table, reads, base)
                                     /\ \A v \in Web \ {u} : ~Writing(req[v])
  BY <1>3, <1>4, <1>5 DEF Serial
<1>6. CASE \A v \in Web : ~Writing(req[v])
  <2>1. /\ Settled(colRows, table, wf)
        /\ (\A v \in Web : ~Counting(req[v])) => Exact(table.rows, table.cols, reads, base)
        /\ \A v \in Web : /\ req[v].fresh => Reading(req[v], table, wf)
                          /\ req[v].fresh /\ Alone(v) => ReadingExact(req[v], reads, base)
    BY <1>6 DEF Serial
  <2>2. Alone(w) => \A v \in Web : ~Counting(req[v])
    BY <1>2 DEF Alone
  <2> QED
    BY <1>1, <1>6, <2>1, <2>2
<1>7. CASE \E v \in Web : Writing(req[v])
  <2>1. PICK u \in Web : /\ Writing(req[u]) /\ Half(req[u], colRows, table)
                         /\ Alone(u) => HalfExact(req[u], table, reads, base)
                         /\ \A v \in Web \ {u} : ~Writing(req[v])
    BY <1>7 DEF Serial
  <2>2. u # w
    BY <1>2, <2>1
  <2> QED
    BY <1>1, <2>1, <2>2
<1> QED
  BY <1>6, <1>7

-----------------------------------------------------------------------------
(* store_table_in_db. *)

LEMMA SameExact ==
  ASSUME NEW q, NEW n, n.op = q.op, n.arg = q.arg, n.frame = q.frame, NEW rd, NEW bs,
         ExactFor(q, rd, bs)
  PROVE ExactFor(n, rd, bs)
BY DEF ExactFor, Born

LEMMA ReconcileSerial ==
  ASSUME TypeOK, Shape, Serial, NEW w \in Web, Reconcile(w)
  PROVE Serial'
<1> DEFINE q == req[w]
           new == q.frame.cols \ colRows
           p == IF new = {} THEN "clear" ELSE "create"
           n == [q EXCEPT !.todo = new, !.pc = p]
<1>1. q.pc = "reconcile" /\ Continue(w, n)
  BY DEF Reconcile
<1>2. /\ n.pc = p /\ n.op = q.op /\ n.arg = q.arg /\ n.frame = q.frame
      /\ n.size = q.size /\ n.fresh = q.fresh
  BY DEF TypeOK, Request
<1> HIDE DEF n
<1>3. req'[w] = n /\ \A v \in Web \ {w} : req'[v] = req[v]
  BY <1>1, AloneOthers DEF Others, Continue
<1>4. /\ Writing(n) <=> Writing(q)
      /\ Counting(n) <=> Counting(q)
      /\ Overtaken(n) <=> Overtaken(q)
  BY <1>1, <1>2 DEF Writing, Counting, Overtaken
<1>5. \A v \in Web : /\ Writing(req'[v]) <=> Writing(req[v])
                     /\ Counting(req'[v]) <=> Counting(req[v])
                     /\ Overtaken(req'[v]) <=> Overtaken(req[v])
                     /\ req'[v].fresh = req[v].fresh
  BY <1>2, <1>3, <1>4
<1>6. \A v \in Web : Alone(v)' <=> Alone(v)
  BY <1>5 DEF Alone
<1> SUFFICES ASSUME sound, \A v \in Web : ~Overtaken(req[v])
             PROVE \/ /\ Settled(colRows, table, wf)
                      /\ (\A v \in Web : ~Counting(req[v])) =>
                            Exact(table.rows, table.cols, reads, base)
                      /\ \A v \in Web :
                           /\ ~Writing(req[v])
                           /\ req[v].fresh => Reading(req'[v], table, wf)
                           /\ req[v].fresh /\ Alone(v) => ReadingExact(req'[v], reads, base)
                   \/ \E u \in Web : /\ Writing(req[u]) /\ Half(req'[u], colRows, table)
                                     /\ Alone(u) => HalfExact(req'[u], table, reads, base)
                                     /\ \A v \in Web \ {u} : ~Writing(req[v])
  BY <1>1, <1>5, <1>6 DEF Serial, Continue
<1>7. q.fresh
  BY <1>1 DEF Overtaken
<1>8. CASE \A v \in Web : ~Writing(req[v])
  <2>1. /\ Settled(colRows, table, wf)
        /\ (\A v \in Web : ~Counting(req[v])) => Exact(table.rows, table.cols, reads, base)
        /\ \A v \in Web : /\ req[v].fresh => Reading(req[v], table, wf)
                          /\ req[v].fresh /\ Alone(v) => ReadingExact(req[v], reads, base)
    BY <1>8 DEF Serial
  <2>2. new = {} /\ Reading(n, table, wf)
    BY <1>1, <1>2, <1>7, <2>1 DEF Reading, Settled
  <2>3. Alone(w) => ReadingExact(n, reads, base)
    BY <1>1, <1>2, <1>7, <2>1, <2>2, SameExact DEF ReadingExact
  <2> QED
    BY <1>3, <1>8, <2>1, <2>2, <2>3
<1>9. CASE \E v \in Web : Writing(req[v])
  <2>1. PICK u \in Web : /\ Writing(req[u]) /\ Half(req[u], colRows, table)
                         /\ Alone(u) => HalfExact(req[u], table, reads, base)
                         /\ \A v \in Web \ {u} : ~Writing(req[v])
    BY <1>9 DEF Serial
  <2>2. CASE u = w
    <3>1. new = {} /\ Half(n, colRows, table)
      BY <1>1, <1>2, <2>1, <2>2 DEF Half
    <3>2. Alone(w) => HalfExact(n, table, reads, base)
      BY <1>1, <1>2, <2>1, <2>2, <3>1, SameExact DEF HalfExact
    <3> QED
      BY <1>3, <2>1, <2>2, <3>1, <3>2
  <2>3. CASE u # w
    BY <1>3, <2>1, <2>3
  <2> QED
    BY <2>2, <2>3
<1> QED
  BY <1>8, <1>9

LEMMA CreateColumnSerial ==
  ASSUME TypeOK, Shape, Serial, NEW w \in Web, NEW c \in Col, CreateColumn(w, c)
  PROVE Serial'
<1>1. CASE Fail(w)
  BY <1>1 DEF Fail, Serial
<1>2. CASE ~Fail(w)
  <2> DEFINE q == req[w]
             rest == q.todo \ {c}
             p == IF rest = {} THEN "clear" ELSE "create"
             n == [q EXCEPT !.todo = rest, !.pc = p]
  <2>1. q.pc = "create" /\ Write(w, n)
    BY <1>2 DEF CreateColumn
  <2>2. n.pc = p /\ ShapeOf(n)
    BY DEF TypeOK, Request, ShapeOf
  <2>3. ~Sole(q, colRows, table, wf, reads, base)
    BY <2>1 DEF Sole, Reading, Half
  <2> HIDE DEF n
  <2> QED
    BY <2>1, <2>2, <2>3, WriteSerial
<1> QED
  BY <1>1, <1>2

LEMMA ClearSerial ==
  ASSUME IInv, Shape, Serial, NEW w \in Web, Clear(w)
  PROVE Serial'
<1>1. CASE Fail(w)
  BY <1>1 DEF Fail, Serial
<1>2. CASE ~Fail(w)
  <2> DEFINE q == req[w]
             R == Project(q.frame.rows, colRows)
             f == [cols |-> colRows, rows |-> R]
             n == [q EXCEPT !.pc = "fill", !.frame = f]
  <2>1. /\ q.pc = "clear" /\ table' = [cols |-> colRows, rows |-> {}]
        /\ Write(w, [q EXCEPT !.pc = "fill",
                       !.frame = [cols |-> colRows, rows |-> Project(@.rows, colRows)]])
        /\ UNCHANGED <<colRows, reads, base>>
    BY <1>2 DEF Clear
  <2>2. /\ TypeOK /\ q \in Request
        /\ q.frame.rows \in SUBSET Record /\ IsFiniteSet(q.frame.rows)
    BY DEF IInv, TypeOK, GoodRequest, GoodRows
  <2>3. n.pc = "fill" /\ n.op = q.op /\ n.arg = q.arg /\ n.frame = f
    BY <2>2 DEF Request
  <2>4. Write(w, n)
    BY <2>1, <2>2 DEF Request
  <2>5. ShapeOf(n) /\ Writing(n)
    BY <2>3 DEF ShapeOf, Writing
  <2>6. ASSUME Sole(q, colRows, table, wf, reads, base)
        PROVE Sole(n, colRows', table', wf', reads', base')
    <3>1. q.frame.cols = colRows /\ Keyed(q.frame.rows) /\ ExactFor(q, reads, base)
      BY <2>1, <2>6 DEF Sole, Settled, Reading, ReadingExact, Half, HalfExact
    <3>2. Keyed(R)
      BY <2>2, <3>1, SetAllKeyed DEF Project
    <3>3. ExactFor(n, reads, base)
      <4>1. ASSUME NEW x \in R, NEW u \in Track \cap colRows
            PROVE x.n[u] = IF Born(q, x.id, u) THEN 0 ELSE reads[x.id][u] - base[x.id][u]
        <5>1. PICK rec \in q.frame.rows :
                /\ x.id = rec.id
                /\ \A t \in Track : x.n[t] = IF t \in Track \ colRows THEN 0 ELSE rec.n[t]
          BY <2>2, SetAllRows DEF Project
        <5>2. x.n[u] = rec.n[u]
          BY <5>1
        <5> QED
          BY <3>1, <5>1, <5>2 DEF ExactFor
      <4>2. \A r, t : Born(n, r, t) <=> Born(q, r, t)
        BY <2>3 DEF Born
      <4> HIDE DEF n, R
      <4> QED
        BY <2>3, <4>1, <4>2 DEF ExactFor
    <3> HIDE DEF n, R
    <3> QED
      BY <2>1, <2>3, <2>5, <3>2, <3>3 DEF Sole, Half, HalfExact
  <2> HIDE DEF n
  <2> QED
    BY <2>1, <2>2, <2>4, <2>5, <2>6, WriteSerial
<1> QED
  BY <1>1, <1>2

LEMMA FillTableSerial ==
  ASSUME IInv, Shape, Serial, NEW w \in Web, FillTable(w)
  PROVE Serial'
<1>1. CASE Fail(w)
  BY <1>1 DEF Fail, Serial
<1>2. CASE ~Fail(w)
  <2> DEFINE q == req[w]
             f == q.frame
             R == SetAll(f.rows, Track \cap (table.cols \ f.cols), NaN)
             n == [q EXCEPT !.pc = "save"]
  <2>1. /\ q.pc = "fill" /\ Write(w, n) /\ table' = [table EXCEPT !.rows = @ \cup R]
        /\ base' = [r \in Row |-> [t \in Track |->
                      IF Born(q, r, t) THEN reads[r][t] ELSE base[r][t]]]
        /\ UNCHANGED <<colRows, reads>>
    BY <1>2 DEF FillTable
  <2>2. /\ TypeOK /\ q \in Request /\ f \in Frame /\ reads \in Reads
        /\ f.rows \in SUBSET Record
    BY DEF IInv, TypeOK, Request, GoodRequest, GoodRows, Reads
  <2>3. /\ n.pc = "save" /\ n.op = q.op /\ n.arg = q.arg /\ n.frame = f
    BY <2>2, NextPc
  <2>4. ShapeOf(n) /\ Writing(n)
    BY <2>3 DEF ShapeOf, Writing
  <2>5. ASSUME Sole(q, colRows, table, wf, reads, base)
        PROVE Sole(n, colRows', table', wf', reads', base')
    <3>1. /\ f.cols = colRows /\ Keyed(f.rows) /\ ExactFor(q, reads, base)
          /\ table = [cols |-> colRows, rows |-> {}]
      BY <2>1, <2>5 DEF Sole, Writing, Half, HalfExact
    <3>2. R = f.rows
      <4>1. Track \cap (table.cols \ f.cols) = {}
        BY <3>1
      <4> QED
        BY <2>2, <4>1, SetAllNone
    <3>3. table' = f
      <4>1. table' = [cols |-> colRows, rows |-> f.rows]
        BY <2>1, <3>1, <3>2
      <4> QED
        BY <2>2, <3>1, <4>1 DEF Frame
    <3>4. Exact(f.rows, f.cols, reads, base')
      <4>1. ASSUME NEW rec \in f.rows, NEW u \in Track \cap f.cols
            PROVE rec.n[u] = reads[rec.id][u] - base'[rec.id][u]
        <5>1. rec.id \in Row /\ reads[rec.id][u] \in Nat
          BY <2>2 DEF Record, Reads
        <5>2. base'[rec.id][u] = IF Born(q, rec.id, u) THEN reads[rec.id][u]
                                 ELSE base[rec.id][u]
          BY <2>1, <5>1
        <5>3. rec.n[u] = IF Born(q, rec.id, u) THEN 0 ELSE reads[rec.id][u] - base[rec.id][u]
          BY <3>1 DEF ExactFor
        <5> QED
          BY <5>1, <5>2, <5>3
      <4> QED
        BY <4>1 DEF Exact
    <3> HIDE DEF n
    <3> QED
      BY <2>1, <2>3, <2>4, <3>1, <3>3, <3>4 DEF Sole, Half, HalfExact
  <2> HIDE DEF n
  <2> QED
    BY <2>1, <2>2, <2>4, <2>5, WriteSerial
<1> QED
  BY <1>1, <1>2

\* A request ends well when what it leaves agrees.
LEMMA EndSerial ==
  ASSUME TypeOK, Shape, Serial, NEW w \in Web, Write(w, Idle), req[w].pc # "idle",
         Sole(req[w], colRows, table, wf, reads, base) =>
            Settled(colRows', table', wf') /\ Exact(table'.rows, table'.cols, reads', base')
  PROVE Serial'
<1>1. /\ ~Writing(Idle) /\ Reading(Idle, table', wf')
      /\ ReadingExact(Idle, reads', base') /\ ShapeOf(Idle)
  BY IdleShape, IdleReads
<1>2. Sole(req[w], colRows, table, wf, reads, base)
        => Sole(Idle, colRows', table', wf', reads', base')
  BY <1>1 DEF Sole
<1> QED
  BY <1>1, <1>2, WriteSerial

LEMMA SaveWorkflowSerial ==
  ASSUME TypeOK, Shape, Serial, NEW w \in Web, SaveWorkflow(w)
  PROVE Serial'
<1>1. /\ req[w].pc = "save" /\ Write(w, Idle) /\ UNCHANGED <<table, reads, base>>
      /\ wf' = Dims(req[w].frame)
      /\ \E C \in SUBSET (req[w].frame.cols \ colRows) : colRows' = colRows \cup C
  BY DEF SaveWorkflow, Dims
<1>2. Sole(req[w], colRows, table, wf, reads, base) =>
        Settled(colRows', table, wf') /\ Exact(table.rows, table.cols, reads, base)
  <2> SUFFICES ASSUME Sole(req[w], colRows, table, wf, reads, base)
               PROVE  Settled(colRows', table, wf') /\ Exact(table.rows, table.cols, reads, base)
    OBVIOUS
  <2>1. Half(req[w], colRows, table) /\ HalfExact(req[w], table, reads, base)
    BY <1>1 DEF Sole, Writing
  <2>2. req[w].frame = table /\ colRows = table.cols /\ Keyed(table.rows)
    BY <1>1, <2>1 DEF Half
  <2>3. colRows' = colRows
    BY <1>1, <2>2
  <2> QED
    BY <1>1, <2>1, <2>2, <2>3 DEF HalfExact, Settled
<1> QED
  BY <1>1, <1>2, EndSerial

-----------------------------------------------------------------------------
(* Sending emails, and adding a column. *)

LEMMA SendMessagesSerial ==
  ASSUME IInv, Shape, Serial, NEW w \in Web, NEW R \in SUBSET Row, NEW t \in Track,
         SendMessages(w, R, t)
  PROVE Serial'
<1> DEFINE S == SetAll(table.rows, {t}, 0)
           f == [cols |-> table.cols \cup {t}, rows |-> S]
           n == [Idle EXCEPT !.pc = "column", !.op = "mail", !.arg = t, !.size = wf,
                   !.frame = f]
<1>1. /\ req[w].pc = "idle" /\ req' = [req EXCEPT ![w] = n] /\ t \in Track \ table.cols
      /\ UNCHANGED <<colRows, wf, table, reads, base, sound>>
  BY DEF SendMessages, Arrive, NewName
<1>2. TypeOK /\ table.rows \in SUBSET Record /\ IsFiniteSet(table.rows)
  BY DEF IInv, GoodRows
<1>3. n.pc = "column" /\ n.op = "mail" /\ n.arg = t /\ n.frame = f /\ n.fresh
  BY DEF Idle
<1>4. ShapeOf(n) /\ ~Writing(n) /\ ~Counting(n)
  BY <1>3 DEF ShapeOf, Writing, Counting
<1>5. Settled(colRows, table, wf) => Reading(n, table, wf)
  <2>1. Keyed(table.rows) => Keyed(S)
    BY <1>2, SetAllKeyed
  <2> HIDE DEF n, S
  <2> QED
    BY <1>3, <2>1 DEF Settled, Reading
<1>6. Exact(table.rows, table.cols, reads, base) => ReadingExact(n, reads, base)
  <2> SUFFICES ASSUME Exact(table.rows, table.cols, reads, base),
                      NEW x \in S, NEW u \in Track \cap (table.cols \cup {t})
               PROVE x.n[u] = IF Born(n, x.id, u) THEN 0
                              ELSE reads[x.id][u] - base[x.id][u]
    <3> HIDE DEF n, S
    <3> QED
      BY <1>3 DEF ReadingExact, ExactFor
  <2>1. PICK rec \in table.rows :
          /\ x.id = rec.id
          /\ \A v \in Track : x.n[v] = IF v = t THEN 0 ELSE rec.n[v]
    <3> DEFINE T == {t}
    <3>1. /\ x \in SetAll(table.rows, T, 0)
          /\ \A v \in Track : v \in T <=> v = t
      OBVIOUS
    <3> HIDE DEF T, S, n
    <3>2. PICK rec \in table.rows :
            /\ x.id = rec.id
            /\ \A v \in Track : x.n[v] = IF v \in T THEN 0 ELSE rec.n[v]
      BY <1>2, <3>1, SetAllRows
    <3> QED
      BY <3>1, <3>2
  <2>2. Born(n, x.id, u) <=> u = t
    <3> HIDE DEF n
    <3> QED
      BY <1>3 DEF Born
  <2> HIDE DEF n, S
  <2> QED
    BY <2>1, <2>2 DEF Exact
<1> HIDE DEF n
<1>7. Shape'
  BY <1>1, <1>2, <1>4, AloneOthers, ShapeStep
<1> QED
  BY <1>1, <1>2, <1>3, <1>4, <1>5, <1>6, <1>7, CalmSerial

\* A request that comes to nothing, or is given up.
LEMMA IdleSerial ==
  ASSUME TypeOK, Shape, Serial, NEW w \in Web, req' = [req EXCEPT ![w] = Idle],
         req[w].pc \in {"idle", "form", "drop"},
         UNCHANGED <<colRows, wf, table, reads, base, sound>>
  PROVE Serial'
<1>1. /\ ~Writing(Idle) /\ ~Counting(Idle) /\ Idle.fresh
      /\ Reading(Idle, table, wf) /\ ReadingExact(Idle, reads, base)
  BY IdleShape, IdleReads
<1> QED
  BY <1>1, CalmSerial

LEMMA SaveColumnSerial ==
  ASSUME TypeOK, Shape, Serial, NEW w \in Web, SaveColumn(w)
  PROVE Serial'
<1>1. CASE Fail(w)
  BY <1>1 DEF Fail, Serial
<1>2. CASE ~Fail(w)
  <2> DEFINE q == req[w]
             p == IF q.op = "mail" THEN "count" ELSE "reconcile"
             n == [q EXCEPT !.pc = p]
  <2>1. /\ q.pc = "column" /\ Write(w, n) /\ colRows' = colRows \cup {q.arg}
        /\ UNCHANGED <<wf, table, reads, base>>
    BY <1>2 DEF SaveColumn
  <2>2. q \in Request /\ q.op \in {"mail", "columnadd"}
    BY <2>1 DEF TypeOK, Shape, ShapeOf
  <2>3. /\ n.pc = p /\ n.op = q.op /\ n.arg = q.arg /\ n.frame = q.frame
    BY <2>2, NextPc
  <2>4. ShapeOf(n) /\ Writing(n) /\ ~Writing(q)
    BY <2>1, <2>2, <2>3 DEF ShapeOf, Writing
  <2>5. ASSUME Sole(q, colRows, table, wf, reads, base)
        PROVE Sole(n, colRows', table', wf', reads', base')
    <3>1. /\ Settled(colRows, table, wf)
          /\ q.frame.cols = table.cols \cup {q.arg} /\ Keyed(q.frame.rows)
          /\ ExactFor(q, reads, base)
      BY <2>1, <2>4, <2>5 DEF Sole, Reading, ReadingExact
    <3>2. n.frame.cols = colRows'
      BY <2>1, <2>3, <3>1 DEF Settled
    <3>3. ExactFor(n, reads, base)
      BY <2>3, <3>1, SameExact
    <3> HIDE DEF n
    <3> QED
      BY <2>1, <2>3, <2>4, <3>1, <3>2, <3>3 DEF Sole, Half, HalfExact
  <2> HIDE DEF n
  <2> QED
    BY <2>1, <2>4, <2>5, WriteSerial
<1> QED
  BY <1>1, <1>2

LEMMA CountColumnSerial ==
  ASSUME TypeOK, Shape, Serial, NEW w \in Web, CountColumn(w)
  PROVE Serial'
<1> DEFINE q == req[w]
           n == [q EXCEPT !.pc = "reconcile"]
<1>1. q.pc = "count" /\ Write(w, n) /\ UNCHANGED <<colRows, table, reads, base>>
  BY DEF CountColumn
<1>2. q \in Request /\ q.op = "mail"
  BY <1>1 DEF TypeOK, Shape, ShapeOf
<1>3. n.pc = "reconcile" /\ n.op = q.op /\ n.arg = q.arg /\ n.frame = q.frame
  BY <1>2, NextPc
<1>4. ShapeOf(n) /\ Writing(n) /\ Writing(q)
  BY <1>1, <1>2, <1>3 DEF ShapeOf, Writing
<1>5. ASSUME Sole(q, colRows, table, wf, reads, base)
      PROVE Sole(n, colRows', table', wf', reads', base')
  <2>1. q.frame.cols = colRows /\ Keyed(q.frame.rows) /\ ExactFor(q, reads, base)
    BY <1>1, <1>4, <1>5 DEF Sole, Half, HalfExact
  <2>2. ExactFor(n, reads, base)
    BY <1>3, <2>1, SameExact
  <2> HIDE DEF n
  <2> QED
    BY <1>1, <1>3, <1>4, <2>1, <2>2 DEF Sole, Half, HalfExact
<1> HIDE DEF n
<1> QED
  BY <1>1, <1>4, <1>5, WriteSerial

LEMMA ColumnAddSerial ==
  ASSUME IInv, Shape, Serial, NEW w \in Web, NEW c \in Col, ColumnAdd(w, c)
  PROVE Serial'
<1> DEFINE f == [table EXCEPT !.cols = @ \cup {c}]
           n == [Idle EXCEPT !.pc = "column", !.op = "columnadd", !.arg = c, !.frame = f]
<1>1. /\ req[w].pc = "idle" /\ req' = [req EXCEPT ![w] = n] /\ c \in Other
      /\ UNCHANGED <<colRows, wf, table, reads, base, sound>>
  BY DEF ColumnAdd, Arrive
<1>2. TypeOK /\ table \in Frame
  BY DEF IInv, TypeOK
<1>3. f.cols = table.cols \cup {c} /\ f.rows = table.rows
  BY <1>2 DEF Frame
<1>4. n.pc = "column" /\ n.op = "columnadd" /\ n.arg = c /\ n.frame = f /\ n.fresh
  BY DEF Idle
<1>5. ~Writing(n) /\ ~Counting(n)
  BY <1>4 DEF Writing, Counting
<1> HIDE DEF f
<1>6. Settled(colRows, table, wf) => Reading(n, table, wf)
  <2> HIDE DEF n
  <2> QED
    BY <1>3, <1>4 DEF Settled, Reading
<1>7. Exact(table.rows, table.cols, reads, base) => ReadingExact(n, reads, base)
  <2>1. c \notin Track
    BY <1>1, TrackingAssumption
  <2>2. \A r, t : ~Born(n, r, t)
    <3> HIDE DEF n
    <3> QED
      BY <1>4 DEF Born
  <2> HIDE DEF n
  <2> QED
    BY <1>3, <1>4, <2>1, <2>2 DEF ReadingExact, ExactFor, Exact
<1> HIDE DEF n
<1> QED
  BY <1>1, <1>2, <1>4, <1>5, <1>6, <1>7, CalmSerial

-----------------------------------------------------------------------------
(* The other requests of the owner. *)

LEMMA RowCreateSerial ==
  ASSUME IInv, Shape, Serial, NEW w \in Web, NEW r \in Row, RowCreate(w, r)
  PROVE Serial'
<1> DEFINE S == SetAll(table.rows, Track \cap (colRows \ table.cols), NaN)
           Z == [id: {r}, n: {Zeros}]
           T == SetAll(Z, Track \cap (table.cols \ colRows), NaN)
           f == [cols |-> table.cols \cup colRows, rows |-> S \cup T]
           n == [Idle EXCEPT !.pc = "reconcile", !.op = "rowcreate", !.arg = r, !.frame = f]
<1>1. /\ req[w].pc = "idle" /\ req' = [req EXCEPT ![w] = n] /\ r \in Row \ Ids
      /\ UNCHANGED <<colRows, wf, table, reads, base, sound>>
  BY DEF RowCreate, Arrive
<1>2. TypeOK /\ table.rows \in SUBSET Record
  BY DEF IInv, GoodRows
<1>3. n.pc = "reconcile" /\ n.op = "rowcreate" /\ n.arg = r /\ n.frame = f /\ n.fresh
  BY DEF Idle
<1>4. ~Writing(n) /\ ~Counting(n)
  BY <1>3 DEF Writing, Counting
<1>5. /\ Zeros \in [Track -> Nat \cup {NaN}] /\ \A u \in Track : Zeros[u] = 0
      /\ Z \in SUBSET Record
      /\ \A x \in Z : x = [id |-> r, n |-> Zeros]
  <2>1. Zeros \in [Track -> Nat \cup {NaN}] /\ \A u \in Track : Zeros[u] = 0
    BY DEF Zeros
  <2>2. \A x \in Z : x = [id |-> r, n |-> Zeros]
    OBVIOUS
  <2> QED
    BY <2>1, <2>2 DEF Record
<1>6. colRows = table.cols => S = table.rows /\ T = Z
  <2> SUFFICES ASSUME colRows = table.cols PROVE S = table.rows /\ T = Z
    OBVIOUS
  <2>1. Track \cap (colRows \ table.cols) = {} /\ Track \cap (table.cols \ colRows) = {}
    OBVIOUS
  <2> HIDE DEF Z
  <2> QED
    BY <1>2, <1>5, <2>1, SetAllNone
<1>7. \A rec \in table.rows : rec.id # r
  BY <1>1 DEF Ids
<1> HIDE DEF S, T, Z
<1>8. Settled(colRows, table, wf) => Reading(n, table, wf)
  <2> SUFFICES ASSUME Settled(colRows, table, wf) PROVE Reading(n, table, wf)
    OBVIOUS
  <2>1. f.cols = table.cols /\ f.rows = table.rows \cup Z /\ Keyed(table.rows)
    BY <1>6 DEF Settled
  <2>2. Keyed(f.rows)
    BY <1>5, <1>7, <2>1 DEF Keyed
  <2> HIDE DEF f, n
  <2> QED
    BY <1>3, <2>1, <2>2 DEF Reading
<1>9. Settled(colRows, table, wf) /\ Exact(table.rows, table.cols, reads, base)
        => ReadingExact(n, reads, base)
  <2> SUFFICES ASSUME Settled(colRows, table, wf),
                      Exact(table.rows, table.cols, reads, base)
               PROVE ReadingExact(n, reads, base)
    OBVIOUS
  <2>1. f.cols = table.cols /\ f.rows = table.rows \cup Z
    BY <1>6 DEF Settled
  <2>2. \A p, t : Born(n, p, t) <=> p = r
    <3> HIDE DEF f, n
    <3> QED
      BY <1>3 DEF Born
  <2>3. ASSUME NEW x \in f.rows, NEW u \in Track \cap table.cols
        PROVE x.n[u] = IF Born(n, x.id, u) THEN 0 ELSE reads[x.id][u] - base[x.id][u]
    <3>1. CASE x \in Z
      BY <1>5, <2>2, <3>1
    <3>2. CASE x \in table.rows
      <4> HIDE DEF f, n
      <4> QED
        BY <1>7, <2>2, <3>2 DEF Exact
    <3> QED
      BY <2>1, <3>1, <3>2
  <2> HIDE DEF f, n
  <2> QED
    BY <1>3, <2>1, <2>3 DEF ReadingExact, ExactFor
<1> HIDE DEF n
<1> QED
  BY <1>1, <1>2, <1>3, <1>4, <1>8, <1>9, CalmSerial

LEMMA RowFormSerial ==
  ASSUME TypeOK, Shape, Serial, NEW w \in Web, NEW rec \in table.rows, RowForm(w, rec)
  PROVE Serial'
<1> DEFINE f == [cols |-> colRows, rows |-> {rec}]
           n == [Idle EXCEPT !.pc = "form", !.op = "rowupdate", !.arg = rec.id, !.frame = f]
<1>1. /\ req[w].pc = "idle" /\ req' = [req EXCEPT ![w] = n]
      /\ UNCHANGED <<colRows, wf, table, reads, base, sound>>
  BY DEF RowForm, Arrive
<1>2. n.pc = "form" /\ n.op = "rowupdate" /\ n.frame.rows = {rec} /\ n.fresh
  BY DEF Idle
<1> HIDE DEF n
<1>3. /\ ~Writing(n) /\ ~Counting(n)
      /\ Reading(n, table, wf) /\ ReadingExact(n, reads, base)
  BY <1>2 DEF Writing, Counting, Reading, ReadingExact
<1> QED
  BY <1>1, <1>2, <1>3, CalmSerial

\* With the rows as the form has shown them, nothing changes.
LEMMA RowUpdateSerial ==
  ASSUME IInv, Shape, Serial, NEW w \in Web, RowUpdate(w)
  PROVE Serial'
<1> DEFINE q == req[w]
           f == q.frame
<1>1. PICK shown \in f.rows :
        table' = [table EXCEPT !.rows = {IF rec.id = q.arg THEN Overwritten(rec, shown, f.cols)
                                         ELSE rec : rec \in @}]
  BY DEF RowUpdate
<1>2. q.pc = "form" /\ Write(w, Idle) /\ UNCHANGED <<colRows, wf, reads, base>>
  BY DEF RowUpdate
<1>3. /\ TypeOK /\ table \in Frame /\ table.rows \in SUBSET Record
      /\ shown.id = q.arg
  BY <1>2 DEF IInv, TypeOK, GoodRequest, GoodRows
<1>4. ~Writing(q) /\ ~Counting(q)
  BY <1>2, WaitingNot DEF Shape
<1>5. ASSUME Sole(q, colRows, table, wf, reads, base)
      PROVE Settled(colRows', table', wf') /\ Exact(table'.rows, table'.cols, reads', base')
  <2>1. /\ Settled(colRows, table, wf) /\ f.rows \subseteq table.rows
        /\ Exact(table.rows, table.cols, reads, base)
    BY <1>2, <1>4, <1>5 DEF Sole, Reading
  <2>2. ASSUME NEW rec \in table.rows, rec.id = q.arg
        PROVE Overwritten(rec, shown, f.cols) = rec
    <3>1. rec = shown /\ rec \in Record
      BY <1>3, <2>1, <2>2 DEF Settled, Keyed
    <3>2. rec.n = [t \in Track |-> rec.n[t]]
      BY <3>1 DEF Record
    <3>3. Overwritten(rec, rec, f.cols) = [rec EXCEPT !.n = [t \in Track |-> rec.n[t]]]
      BY DEF Overwritten
    <3>4. [rec EXCEPT !.n = rec.n] = rec
      BY <3>1 DEF Record
    <3> QED
      BY <3>1, <3>2, <3>3, <3>4
  <2>3. {IF rec.id = q.arg THEN Overwritten(rec, shown, f.cols) ELSE rec : rec \in table.rows}
          = table.rows
    BY <2>2
  <2>4. table' = table
    BY <1>1, <1>3, <2>3 DEF Frame
  <2> QED
    BY <1>2, <2>1, <2>4
<1> QED
  BY <1>2, <1>3, <1>5, EndSerial

LEMMA ColumnDeleteSerial ==
  ASSUME TypeOK, Shape, Serial, NEW w \in Web, NEW c \in Col, ColumnDelete(w, c)
  PROVE Serial'
<1> DEFINE z == [wf EXCEPT !.ncols = @ - 1]
           n == [Idle EXCEPT !.pc = "drop", !.op = "columndelete", !.arg = c, !.size = z]
<1>1. /\ req[w].pc = "idle" /\ req' = [req EXCEPT ![w] = n]
      /\ UNCHANGED <<colRows, wf, table, reads, base, sound>>
  BY DEF ColumnDelete, Arrive
<1>2. n.pc = "drop" /\ n.op = "columndelete" /\ n.size = z /\ n.fresh
  BY DEF Idle
<1> HIDE DEF n
<1>3. /\ ~Writing(n) /\ ~Counting(n)
      /\ Reading(n, table, wf) /\ ReadingExact(n, reads, base)
  BY <1>2 DEF Writing, Counting, Reading, ReadingExact
<1> QED
  BY <1>1, <1>2, <1>3, CalmSerial

LEMMA RowDeleteSerial ==
  ASSUME TypeOK, Shape, Serial, NEW w \in Web, NEW r \in Row, RowDelete(w, r)
  PROVE Serial'
<1> DEFINE z == [wf EXCEPT !.nrows = @ - 1]
           n == [Idle EXCEPT !.pc = "deleterow", !.op = "rowdelete", !.arg = r, !.size = z]
<1>1. /\ req[w].pc = "idle" /\ req' = [req EXCEPT ![w] = n]
      /\ UNCHANGED <<colRows, wf, table, reads, base, sound>>
  BY DEF RowDelete, Arrive
<1>2. n.pc = "deleterow" /\ n.op = "rowdelete" /\ n.size = z /\ n.fresh
  BY DEF Idle
<1> HIDE DEF n
<1>3. /\ ~Writing(n) /\ ~Counting(n)
      /\ Reading(n, table, wf) /\ ReadingExact(n, reads, base)
  BY <1>2 DEF Writing, Counting, Reading, ReadingExact
<1> QED
  BY <1>1, <1>2, <1>3, CalmSerial

LEMMA DropColumnSerial ==
  ASSUME IInv, Shape, Serial, NEW w \in Web, DropColumn(w)
  PROVE Serial'
<1> DEFINE q == req[w]
           C == table.cols \ {q.arg}
           R == Project(table.rows, C)
           n == [q EXCEPT !.pc = "delete"]
<1>1. q.pc = "drop" /\ TypeOK /\ q \in Request /\ q.op = "columndelete"
  BY DEF DropColumn, IInv, TypeOK, Shape, ShapeOf
<1>2. CASE Continue(w, Idle)
  BY <1>1, <1>2, IdleSerial DEF Continue
<1>3. CASE ~Continue(w, Idle)
  <2>1. /\ q.arg \in table.cols /\ table' = [cols |-> C, rows |-> R]
        /\ Write(w, n) /\ UNCHANGED <<colRows, wf, reads, base>>
    BY <1>3 DEF DropColumn
  <2>2. /\ table.rows \in SUBSET Record /\ IsFiniteSet(table.rows)
        /\ IsFiniteSet(table.cols)
    <3>1. IsFiniteSet(Col) /\ table.cols \subseteq Col
      BY TrackingAssumption, FS_Union DEF Col, IInv, TypeOK, Frame
    <3> QED
      BY <3>1, FS_Subset DEF IInv, GoodRows
  <2>3. /\ n.pc = "delete" /\ n.op = "columndelete" /\ n.arg = q.arg /\ n.size = q.size
        /\ n.frame = q.frame
    BY <1>1, NextPc
  <2>4. ShapeOf(n) /\ Writing(n) /\ ~Writing(q) /\ ~Counting(q)
    <3>1. ShapeOf(q)
      BY DEF Shape
    <3> HIDE DEF n
    <3> QED
      BY <1>1, <2>3, <3>1 DEF ShapeOf, Writing, Counting
  <2>5. ASSUME Sole(q, colRows, table, wf, reads, base)
        PROVE Sole(n, colRows', table', wf', reads', base')
    <3>1. /\ Settled(colRows, table, wf) /\ q.size = [wf EXCEPT !.ncols = @ - 1]
          /\ Exact(table.rows, table.cols, reads, base)
      BY <1>1, <2>4, <2>5 DEF Sole, Reading
    <3>2. Keyed(R) /\ Cardinality(R) = Cardinality(table.rows)
      BY <2>2, <3>1, SetAllKeyed DEF Project, Settled
    <3>3. Cardinality(C) = Cardinality(table.cols) - 1
      <4> HIDE DEF n, R
      <4>1. q.arg \in table.cols /\ IsFiniteSet(table.cols)
        BY <2>1, <2>2
      <4> QED
        BY <4>1, FS_RemoveElement
    <3>4. q.size = [ncols |-> Cardinality(table.cols) - 1, nrows |-> Cardinality(table.rows)]
      BY <3>1 DEF Settled, Dims
    <3>5. Exact(R, C, reads, base)
      <4>1. C \cap (Track \ C) = {} /\ C \in SUBSET table.cols
        OBVIOUS
      <4> HIDE DEF C
      <4> QED
        BY <2>2, <3>1, <4>1, SetAllExact DEF Project
    <3>6. colRows = C \cup {q.arg} /\ q.arg \notin C
      BY <2>1, <3>1 DEF Settled
    <3> HIDE DEF n, R, C
    <3>7. q.size = Dims(table')
      BY <2>1, <3>2, <3>3, <3>4 DEF Dims
    <3> QED
      BY <2>1, <2>3, <2>4, <3>2, <3>5, <3>6, <3>7 DEF Sole, Half, HalfExact
  <2> HIDE DEF n
  <2> QED
    BY <1>1, <2>1, <2>4, <2>5, WriteSerial
<1> QED
  BY <1>2, <1>3

LEMMA DeleteColumnSerial ==
  ASSUME TypeOK, Shape, Serial, NEW w \in Web, DeleteColumn(w)
  PROVE Serial'
<1> DEFINE q == req[w]
           n == [q EXCEPT !.pc = "size"]
<1>1. /\ q.pc = "delete" /\ Write(w, n) /\ colRows' = colRows \ {q.arg}
      /\ UNCHANGED <<wf, table, reads, base>>
  BY DEF DeleteColumn
<1>2. q \in Request /\ ShapeOf(q)
  BY DEF TypeOK, Shape
<1>3. n.pc = "size" /\ n.op = q.op /\ n.size = q.size /\ n.frame = q.frame
  BY <1>2, NextPc
<1> HIDE DEF n
<1>4. ShapeOf(n) /\ Writing(n) /\ Writing(q)
  BY <1>1, <1>2, <1>3 DEF ShapeOf, Writing
<1>5. ASSUME Sole(q, colRows, table, wf, reads, base)
      PROVE Sole(n, colRows', table', wf', reads', base')
  <2>1. Half(q, colRows, table) /\ HalfExact(q, table, reads, base)
    BY <1>4, <1>5 DEF Sole
  <2> QED
    BY <1>1, <1>3, <1>4, <2>1 DEF Sole, Half, HalfExact
<1> QED
  BY <1>1, <1>4, <1>5, WriteSerial

LEMMA DeleteRowSerial ==
  ASSUME IInv, Shape, Serial, NEW w \in Web, DeleteRow(w)
  PROVE Serial'
<1> DEFINE q == req[w]
           r == q.arg
           R == {rec \in table.rows : rec.id # r}
           b == q.fresh /\ r \in Ids
           n == [q EXCEPT !.pc = "size", !.fresh = b]
<1>1. /\ q.pc = "deleterow" /\ table' = [table EXCEPT !.rows = R] /\ Write(w, n)
      /\ UNCHANGED <<colRows, wf, reads, base>>
  BY DEF DeleteRow
<1>2. /\ TypeOK /\ q \in Request /\ ShapeOf(q) /\ q.op = "rowdelete"
      /\ table \in Frame /\ IsFiniteSet(table.rows)
  BY <1>1 DEF IInv, TypeOK, GoodRows, Shape, ShapeOf
<1>3. /\ n.pc = "size" /\ n.op = q.op /\ n.size = q.size /\ n.frame = q.frame
      /\ n.fresh = b
  <2>1. ASSUME NEW x
        PROVE LET m == [q EXCEPT !.pc = "size", !.fresh = x] IN
              /\ m.pc = "size" /\ m.op = q.op /\ m.size = q.size /\ m.frame = q.frame
              /\ m.fresh = x
    BY <1>2 DEF Request
  <2> QED
    BY <2>1
<1>4. table'.rows = R /\ table'.cols = table.cols
  BY <1>1, <1>2 DEF Frame
<1> HIDE DEF n
<1>5. ShapeOf(n) /\ Writing(n) /\ ~Writing(q) /\ ~Counting(q)
  BY <1>1, <1>2, <1>3 DEF ShapeOf, Writing, Counting
<1>6. ASSUME Sole(q, colRows, table, wf, reads, base), ~Overtaken(n)
      PROVE Sole(n, colRows', table', wf', reads', base')
  <2>1. /\ Settled(colRows, table, wf) /\ q.size = [wf EXCEPT !.nrows = @ - 1]
        /\ Exact(table.rows, table.cols, reads, base)
    BY <1>1, <1>5, <1>6 DEF Sole, Reading
  <2>2. r \in Ids
    BY <1>3, <1>6 DEF Overtaken
  <2>3. PICK rec \in table.rows : rec.id = r
    BY <2>2 DEF Ids
  <2>4. R = table.rows \ {rec}
    BY <2>1, <2>3 DEF Settled, Keyed
  <2>5. Cardinality(R) = Cardinality(table.rows) - 1
    BY <1>2, <2>3, <2>4, FS_RemoveElement
  <2>6. q.size = [ncols |-> Cardinality(table.cols), nrows |-> Cardinality(table.rows) - 1]
    BY <2>1 DEF Settled, Dims
  <2>7. Keyed(R) /\ Exact(R, table.cols, reads, base)
    BY <2>1, <2>4 DEF Settled, Keyed, Exact
  <2>8. q.size = Dims(table') /\ colRows = table.cols
    BY <1>4, <2>1, <2>5, <2>6 DEF Dims, Settled
  <2> HIDE DEF R
  <2> QED
    BY <1>1, <1>3, <1>4, <1>5, <2>7, <2>8 DEF Sole, Half, HalfExact
<1> QED
  BY <1>1, <1>2, <1>5, <1>6, WriteSerial

LEMMA SaveSizeSerial ==
  ASSUME TypeOK, Shape, Serial, NEW w \in Web, SaveSize(w)
  PROVE Serial'
<1>1. /\ req[w].pc = "size" /\ Write(w, Idle) /\ wf' = req[w].size
      /\ UNCHANGED <<colRows, table, reads, base>>
  BY DEF SaveSize
<1>2. Sole(req[w], colRows, table, wf, reads, base) =>
        Settled(colRows, table, wf') /\ Exact(table.rows, table.cols, reads, base)
  BY <1>1 DEF Sole, Writing, Half, HalfExact, Settled
<1> QED
  BY <1>1, <1>2, EndSerial

-----------------------------------------------------------------------------
(* The image in an email. *)

LEMMA BumpRows ==
  ASSUME NEW rows \in SUBSET Record, NEW r \in Row, NEW t \in Track
  PROVE /\ \A x \in Bump(rows, r, t) : \E rec \in rows :
             /\ x.id = rec.id
             /\ \A u \in Track : x.n[u] = IF rec.id = r /\ u = t THEN Plus(rec.n[u])
                                          ELSE rec.n[u]
        /\ Keyed(rows) => Keyed(Bump(rows, r, t))
<1> DEFINE f == [rec \in rows |->
                   IF rec.id = r THEN [rec EXCEPT !.n[t] = Plus(@)] ELSE rec]
           S == Bump(rows, r, t)
<1>1. S = {f[rec] : rec \in rows}
  BY DEF Bump
<1>2. ASSUME NEW rec \in rows
      PROVE /\ f[rec].id = rec.id
            /\ \A u \in Track : f[rec].n[u] = IF rec.id = r /\ u = t THEN Plus(rec.n[u])
                                              ELSE rec.n[u]
  <2>1. rec \in Record /\ rec.n \in [Track -> Nat \cup {NaN}]
    BY DEF Record
  <2>2. CASE rec.id = r
    <3> DEFINE m == [rec.n EXCEPT ![t] = Plus(@)]
    <3>1. f[rec] = [id |-> rec.id, n |-> m]
      BY <2>1, <2>2 DEF Record
    <3>2. \A u \in Track : m[u] = IF u = t THEN Plus(rec.n[u]) ELSE rec.n[u]
      BY <2>1
    <3> QED
      BY <2>2, <3>1, <3>2
  <2>3. CASE rec.id # r
    BY <2>3
  <2> QED
    BY <2>2, <2>3
<1> HIDE DEF f, S
<1>3. ASSUME NEW x \in S
      PROVE \E rec \in rows :
              /\ x.id = rec.id
              /\ \A u \in Track : x.n[u] = IF rec.id = r /\ u = t THEN Plus(rec.n[u])
                                           ELSE rec.n[u]
  BY <1>1, <1>2
<1>4. Keyed(rows) => Keyed(S)
  BY <1>1, <1>2 DEF Keyed
<1> QED
  BY <1>3, <1>4 DEF S

\* Another image that is being counted may lose this one, or be lost by it.
LEMMA ServeImageSerial ==
  ASSUME IInv, SInv, NEW w \in Web, NEW r \in Row, NEW t \in Track, ServeImage(w, r, t)
  PROVE Serial'
<1> DEFINE R == Bump(table.rows, r, t)
           f == [table EXCEPT !.rows = R]
           n == [Idle EXCEPT !.pc = "reconcile", !.op = "image", !.arg = t, !.frame = f]
<1>1. /\ req[w].pc = "idle" /\ req' = [req EXCEPT ![w] = n]
      /\ reads' = [reads EXCEPT ![r][t] = @ + 1]
      /\ UNCHANGED <<colRows, wf, table, base, sound>>
  BY DEF ServeImage, Arrive
<1>2. /\ TypeOK /\ table \in Frame /\ table.rows \in SUBSET Record
      /\ reads \in Reads /\ base \in Reads
  BY DEF IInv, TypeOK, GoodRows, Reads
<1>3. f.cols = table.cols /\ f.rows = R
  BY <1>2 DEF Frame
<1>4. n.pc = "reconcile" /\ n.op = "image" /\ n.frame = f /\ n.fresh
  BY DEF Idle
<1> HIDE DEF n, f, R
<1>5. ~Writing(n) /\ Counting(n) /\ ~Overtaken(n)
  BY <1>4 DEF Writing, Counting, Overtaken
<1>6. ~Writing(req[w]) /\ ~Counting(req[w]) /\ ~Overtaken(req[w])
  BY <1>1, IdleReads
<1>7. req'[w] = n /\ \A v \in Web \ {w} : req'[v] = req[v]
  BY <1>1, <1>2, AloneOthers DEF Others
<1>8. /\ \A v \in Web : Writing(req'[v]) <=> Writing(req[v])
      /\ \A v \in Web \ {w} : ~Alone(v)'
      /\ Alone(w)' => \A v \in Web : ~Counting(req[v])
  BY <1>5, <1>6, <1>7 DEF Alone
<1> SUFFICES ASSUME sound, \A v \in Web : ~Overtaken(req[v])
             PROVE \/ /\ Settled(colRows, table, wf)
                      /\ \A v \in Web :
                           /\ ~Writing(req[v])
                           /\ req'[v].fresh => Reading(req'[v], table, wf)
                      /\ Alone(w)' => ReadingExact(n, reads', base)
                   \/ \E u \in Web \ {w} : /\ Writing(req[u]) /\ Half(req[u], colRows, table)
                                           /\ \A v \in Web \ {u} : ~Writing(req[v])
  <2>1. (\A v \in Web : ~Overtaken(req'[v])) => \A v \in Web : ~Overtaken(req[v])
    BY <1>6, <1>7
  <2>2. ~(\A v \in Web : ~Counting(req'[v]))
    BY <1>5, <1>7
  <2> QED
    BY <1>1, <1>7, <1>8, <2>1, <2>2 DEF Serial
<1>9. CASE \A v \in Web : ~Writing(req[v])
  <2>1. /\ Settled(colRows, table, wf)
        /\ (\A v \in Web : ~Counting(req[v])) => Exact(table.rows, table.cols, reads, base)
        /\ \A v \in Web : req[v].fresh => Reading(req[v], table, wf)
    BY <1>9 DEF SInv, Serial
  <2>2. Reading(n, table, wf)
    <3>1. Keyed(R)
      BY <1>2, <2>1, BumpRows DEF R, Settled
    <3> QED
      BY <1>3, <1>4, <3>1 DEF Reading
  <2>3. ASSUME Alone(w)' PROVE ReadingExact(n, reads', base)
    <3>1. Exact(table.rows, table.cols, reads, base)
      BY <1>8, <2>1, <2>3
    <3>2. ASSUME NEW x \in R, NEW u \in Track \cap table.cols
          PROVE x.n[u] = reads'[x.id][u] - base[x.id][u]
      <4>1. PICK rec \in table.rows :
              /\ x.id = rec.id
              /\ x.n[u] = IF rec.id = r /\ u = t THEN Plus(rec.n[u]) ELSE rec.n[u]
        BY <1>2, BumpRows DEF R
      <4>2. /\ rec.id \in Row /\ reads[rec.id][u] \in Nat /\ base[rec.id][u] \in Nat
            /\ base[rec.id][u] <= reads[rec.id][u]
        BY <1>2 DEF Record, Reads, SInv, Bounded
      <4>3. reads'[rec.id][u] = IF rec.id = r /\ u = t THEN reads[rec.id][u] + 1
                                ELSE reads[rec.id][u]
        BY <1>1, <1>2, <4>2 DEF Reads
      <4>4. rec.n[u] = reads[rec.id][u] - base[rec.id][u]
        BY <3>1 DEF Exact
      <4>5. Plus(rec.n[u]) = rec.n[u] + 1
        BY <4>2, <4>4 DEF Plus, NaN
      <4> QED
        BY <4>1, <4>2, <4>3, <4>4, <4>5
    <3>3. \A p, u : ~Born(n, p, u)
      BY <1>4 DEF Born
    <3> QED
      BY <1>3, <1>4, <3>2, <3>3 DEF ReadingExact, ExactFor
  <2> QED
    BY <1>7, <1>9, <2>1, <2>2, <2>3
<1>10. CASE \E v \in Web : Writing(req[v])
  <2>1. PICK u \in Web : /\ Writing(req[u]) /\ Half(req[u], colRows, table)
                         /\ \A v \in Web \ {u} : ~Writing(req[v])
    BY <1>10 DEF SInv, Serial
  <2> QED
    BY <1>6, <2>1
<1> QED
  BY <1>9, <1>10

-----------------------------------------------------------------------------
(* The theorems. *)

LEMMA InitSerial == Init => SInv
<1> SUFFICES ASSUME Init PROVE SInv
  OBVIOUS
<1>1. PICK c \in Other, R \in (SUBSET Row) \ {{}} :
        /\ colRows = {c}
        /\ wf = [ncols |-> 1, nrows |-> Cardinality(R)]
        /\ table = [cols |-> {c}, rows |-> [id: R, n: {Zeros}]]
  BY DEF Init
<1> DEFINE S == [id: R, n: {Zeros}]
           g == [r \in R |-> [id |-> r, n |-> Zeros]]
<1>2. \A t \in Track : Zeros[t] = 0
  BY DEF Zeros
<1>3. IsFiniteSet(R) /\ R \in SUBSET Row
  BY TrackingAssumption, FS_Subset
<1>4. /\ \A x \in S : x.id \in R /\ x.n = Zeros /\ x = [id |-> x.id, n |-> Zeros]
      /\ \A r \in R : g[r] \in S /\ g[r].id = r
  OBVIOUS
<1>5. Cardinality(S) = Cardinality(R)
  <2>1. g \in [R -> S]
    OBVIOUS
  <2>2. \A x \in S : \E r \in R : g[r] = x
    BY <1>4
  <2>3. \A p, r \in R : g[p] = g[r] => p = r
    BY <1>4
  <2> HIDE DEF g, S
  <2>4. ExistsBijection(R, S)
    BY <2>1, <2>2, <2>3 DEF Bijection, Injection, IsInjective, Surjection, ExistsBijection
  <2> QED
    BY <1>3, <2>4, FS_Bijection
<1>6. \A w \in Web : req[w] = Idle
  BY DEF Init
<1>7. reads = [r \in Row |-> Zeros] /\ base = [r \in Row |-> Zeros]
  BY DEF Init
<1>8. Shape /\ Bounded
  BY <1>2, <1>6, <1>7, IdleShape DEF Shape, Bounded
<1>9. Settled(colRows, table, wf)
  <2>1. Keyed(S)
    BY <1>4 DEF Keyed
  <2>2. Cardinality({c}) = 1
    BY FS_Singleton
  <2> QED
    BY <1>1, <1>5, <2>1, <2>2 DEF Settled, Dims
<1>10. Exact(table.rows, table.cols, reads, base)
  <2>1. ASSUME NEW x \in S, NEW u \in Track PROVE x.n[u] = reads[x.id][u] - base[x.id][u]
    BY <1>2, <1>3, <1>4, <1>7
  <2> QED
    BY <1>1, <2>1 DEF Exact
<1>11. \A w \in Web : /\ ~Writing(req[w])
                      /\ Reading(req[w], table, wf) /\ ReadingExact(req[w], reads, base)
  BY <1>6, IdleShape, IdleReads
<1> QED
  BY <1>8, <1>9, <1>10, <1>11 DEF SInv, Serial

\* The images answered go up, and a counter starts from them.
LEMMA StepBounded ==
  ASSUME IInv, Bounded, [Next]_vars
  PROVE Bounded'
<1>1. reads \in Reads /\ base \in Reads
  BY DEF IInv, TypeOK, Reads
<1>2. CASE UNCHANGED <<reads, base>>
  BY <1>2 DEF Bounded
<1>3. ASSUME NEW w \in Web, FillTable(w), ~UNCHANGED <<reads, base>> PROVE Bounded'
  <2>1. /\ reads' = reads
        /\ base' = [r \in Row |-> [t \in Track |->
                      IF Born(req[w], r, t) THEN reads[r][t] ELSE base[r][t]]]
    BY <1>3 DEF FillTable, Fail
  <2>2. \A r \in Row : \A t \in Track : base'[r][t] \in {reads[r][t], base[r][t]}
    BY <2>1
  <2> QED
    BY <1>1, <2>1, <2>2 DEF Bounded, Reads
<1>4. ASSUME NEW w \in Web, NEW r \in Row, NEW t \in Track, ServeImage(w, r, t)
      PROVE Bounded'
  <2>1. reads' = [reads EXCEPT ![r][t] = @ + 1] /\ base' = base
    BY <1>4 DEF ServeImage
  <2>2. \A p \in Row : \A u \in Track : reads'[p][u] \in {reads[p][u], reads[p][u] + 1}
    BY <1>1, <2>1 DEF Reads
  <2> QED
    BY <1>1, <2>1, <2>2 DEF Bounded, Reads
<1>5. ASSUME NEW w \in Web, Store(w), ~FillTable(w) PROVE UNCHANGED <<reads, base>>
  BY <1>5 DEF Store, Reconcile, Continue, CreateColumn, Fail, Clear, SaveWorkflow
<1>6. ASSUME NEW w \in Web, Email(w), \A r \in Row, t \in Track : ~ServeImage(w, r, t)
      PROVE UNCHANGED <<reads, base>>
  BY <1>6 DEF Email, SendMessages, SendFails, SaveColumn, Fail, CountColumn
<1>7. ASSUME NEW w \in Web, Owner(w) PROVE UNCHANGED <<reads, base>>
  BY <1>7 DEF Owner, ColumnAdd, ColumnDelete, RowCreate, RowDelete, RowForm, RowUpdate,
              CloseForm, Continue, DropColumn, DeleteColumn, DeleteRow, SaveSize
<1>8. ASSUME NEW w \in Web, Crash(w) PROVE UNCHANGED <<reads, base>>
  BY <1>8 DEF Crash
<1>9. UNCHANGED vars => UNCHANGED <<reads, base>>
  BY DEF vars
<1> QED
  BY <1>2, <1>3, <1>4, <1>5, <1>6, <1>7, <1>8, <1>9 DEF Next

LEMMA StepSerial ==
  ASSUME IInv, SInv, [Next]_vars
  PROVE Serial'
<1>1. TypeOK /\ Shape /\ Serial
  BY DEF IInv, SInv
<1>2. CASE UNCHANGED vars
  BY <1>1, <1>2 DEF vars, Serial, Alone
<1>3. ASSUME NEW w \in Web, Store(w) PROVE Serial'
  BY <1>1, <1>3, ReconcileSerial, ClearSerial, FillTableSerial, SaveWorkflowSerial,
     CreateColumnSerial DEF Store
<1>4. ASSUME NEW w \in Web, NEW R \in SUBSET Row, NEW t \in Track, SendFails(w, R, t)
      PROVE Serial'
  BY <1>1, <1>4, IdleSerial DEF SendFails, Arrive
<1>5. ASSUME NEW w \in Web, Email(w) PROVE Serial'
  BY <1>1, <1>4, <1>5, ServeImageSerial, SendMessagesSerial, SaveColumnSerial,
     CountColumnSerial DEF Email
<1>6. ASSUME NEW w \in Web, CloseForm(w) PROVE Serial'
  BY <1>1, <1>6, IdleSerial DEF CloseForm, Continue
<1>7. ASSUME NEW w \in Web, Owner(w) PROVE Serial'
  BY <1>1, <1>6, <1>7, ColumnAddSerial, ColumnDeleteSerial, RowCreateSerial,
     RowDeleteSerial, RowFormSerial, RowUpdateSerial, DropColumnSerial,
     DeleteColumnSerial, DeleteRowSerial, SaveSizeSerial DEF Owner
<1>8. ASSUME NEW w \in Web, Crash(w) PROVE Serial'
  BY <1>8 DEF Crash, Serial
<1> QED
  BY <1>2, <1>3, <1>5, <1>7, <1>8 DEF Next

\* As long as no request fails half way or writes over what another one has
\* changed, the requests behave as if one of them wrote at a time: what is
\* stored agrees with itself, or with what the one that is writing holds
\* (store_table_in_db, workflow_delete_column, row_delete, trck).
THEOREM SerialInvariant == Spec => [](IInv /\ SInv)
<1>1. Init => IInv /\ CInv /\ SInv
  BY InitGood, InitCovered, InitSerial
<1>2. (IInv /\ CInv /\ SInv) /\ [Next]_vars => (IInv /\ CInv /\ SInv)'
  BY StepGoodAll, StepCovered, StepBounded, StepSerial DEF CInv, SInv
<1> QED
  BY <1>1, <1>2, PTL DEF Spec

\* When every request is done, none has begun to write.
LEMMA QuietSerial ==
  ASSUME IInv, SInv, Quiet, sound
  PROVE /\ Settled(colRows, table, wf)
        /\ Exact(table.rows, table.cols, reads, base)
<1>1. \A w \in Web : ~Writing(req[w]) /\ ~Counting(req[w]) /\ ~Overtaken(req[w])
  BY WaitingNot DEF Quiet, SInv, Shape
<1> QED
  BY <1>1 DEF SInv, Serial

\* The Column rows are the columns of the table and the workflow has its
\* dimensions, whichever of its three writers came last, when no request is
\* half way and none has written over another (store_table_in_db,
\* workflow_delete_column, row_delete).
THEOREM StructureStaysSound == Spec => []StructureSound
<1>1. IInv /\ SInv => StructureSound
  BY QuietSerial DEF StructureSound, Settled, Dims
<1> QED
  BY <1>1, SerialInvariant, PTL

\* On the same condition every counter is the number of images answered since
\* it was made, also when its name was used before (send_messages, trck,
\* row_create).
THEOREM CountersExact == Spec => []CountsExact
<1>1. IInv /\ SInv => CountsExact
  BY QuietSerial DEF CountsExact, Exact
<1> QED
  BY <1>1, SerialInvariant, PTL
=============================================================================
