---------------------------- MODULE CountsProofs ----------------------------
(***************************************************************************)
(* For any finite set of rows, any actions and conditions and any formulas *)
(* of the query builder: the numbers of filters and conditions are those   *)
(* the queries give, and the texts of plain formulas go to the rows that   *)
(* are counted.                                                            *)
(*                                                                         *)
(* A number is right for one of three reasons: it has just been counted;   *)
(* nothing its formula mentions has changed since; or the condition does   *)
(* not claim to be right, because its links are not those of its formula.  *)
(* The links are therefore part of the invariant: they are those of the    *)
(* formula, or a clone left them behind and there are none.                *)
(***************************************************************************)
EXTENDS Counts, FiniteSetTheorems, TLAPS

-----------------------------------------------------------------------------
(* The invariant.                                                          *)

CondsType == [Slot -> Condition \cup {None}]

\* What the query of the condition in slot s counts in T, alone and within
\* the filter of its action.
One(conds, s, T) == Cardinality(Select(conds[s].formula, T))
Both(conds, s, T) == Cardinality(SelectBoth(conds[Filter].formula, conds[s].formula, T))

LinksRight(conds) ==
    \A s \in Slot : conds[s] # None => conds[s].links \in {{}, Vars(conds[s].formula)}

FilterRight(conds, T) ==
    conds[Filter] # None /\ Tracked(conds[Filter]) => conds[Filter].n = One(conds, Filter, T)

\* The number of c is one of the two, or an image has changed what it selects
\* and the filter was not linked to the counter.
Meaning(conds, c, T) ==
    \/ /\ conds[Filter] # None
       /\ "reads" \notin conds[Filter].links
       /\ "reads" \in Vars(conds[c].formula) \cup Vars(conds[Filter].formula)
    \/ conds[c].n = One(conds, c, T)
    \/ conds[Filter] # None /\ conds[c].n = Both(conds, c, T)

CondsRight(conds, T) ==
    \A c \in Cond : conds[c] # None /\ Tracked(conds[c]) => Meaning(conds, c, T)

Right(conds, T) == LinksRight(conds) /\ FilterRight(conds, T) /\ CondsRight(conds, T)

AllRight == \A a \in Action : actions[a] # None => Right(actions[a].conds, rows)

IInv == TypeOK /\ AllRight

-----------------------------------------------------------------------------
(* The two programs that evaluate a formula.                               *)

LEMMA SqlValues ==
  ASSUME NEW f, NEW row
  PROVE  Sql(f, row) \in {"true", "false", "unknown"}
BY DEF Sql, SqlAnd, SqlOr, SqlNot

\* A WHERE clause looks at the columns that the formula mentions.
LEMMA SqlReadsVars ==
  ASSUME NEW f, NEW old, NEW new, \A x \in Vars(f) : old[x] = new[x]
  PROVE  Sql(f, old) = Sql(f, new)
<1>1. \A rule \in f.rules : old[rule.id] = new[rule.id]
  BY DEF Vars
<1>2. {RuleSql(rule, old[rule.id]) : rule \in f.rules}
        = {RuleSql(rule, new[rule.id]) : rule \in f.rules}
  BY <1>1
<1> QED
  BY <1>2 DEF Sql

\* A filter in conjunction with itself selects what it selects alone.
LEMMA BothWithItself ==
  ASSUME NEW f, NEW T
  PROVE  SelectBoth(f, f, T) = Select(f, T)
<1>1. \A r \in DOMAIN T : (SqlAnd({Sql(f, T[r]), Sql(f, T[r])}) = "true") <=> (Sql(f, T[r]) = "true")
  <2> SUFFICES ASSUME NEW r \in DOMAIN T
               PROVE  (SqlAnd({Sql(f, T[r]), Sql(f, T[r])}) = "true") <=> (Sql(f, T[r]) = "true")
    OBVIOUS
  <2> DEFINE x == Sql(f, T[r])
  <2>1. x \in {"true", "false", "unknown"}
    BY SqlValues
  <2> HIDE DEF x
  <2>2. (SqlAnd({x, x}) = "true") <=> (x = "true")
    BY <2>1 DEF SqlAnd
  <2> QED
    BY <2>2 DEF x
<1> QED
  BY <1>1 DEF SelectBoth, Select

\* One rule of a plain formula: NULL in a query is false in Python, and only
\* an order between numbers has it.
LEMMA RulesAgree ==
  ASSUME NEW rule, NEW v, NEW none,
         rule.operator \in {"equal", "not_equal", "between"}
  PROVE  /\ RulePython(rule, v, none) \in {"true", "false"}
         /\ RuleSql(rule, v) \in {"true", "false", "unknown"}
         /\ RulePython(rule, v, none) = "true" <=> RuleSql(rule, v) = "true"
         /\ rule.operator \in {"equal", "not_equal"} =>
              RulePython(rule, v, none) = RuleSql(rule, v)
BY DEF RulePython, RuleSql, Bool

LEMMA PlainAgree ==
  ASSUME NEW f \in Formulas, Plain(f), NEW row, NEW none
  PROVE  Sql(f, row) = "true" <=> Python(f, row, none) = "true"
<1> DEFINE P(rule) == RulePython(rule, row[rule.id], none)
           S(rule) == RuleSql(rule, row[rule.id])
           ps == {P(rule) : rule \in f.rules}
           ss == {S(rule) : rule \in f.rules}
<1>1. ASSUME NEW rule \in f.rules
      PROVE  /\ P(rule) \in {"true", "false"}
             /\ S(rule) \in {"true", "false", "unknown"}
             /\ P(rule) = "true" <=> S(rule) = "true"
             /\ f.not => P(rule) = S(rule)
  BY RulesAgree DEF Plain
<1> HIDE DEF P, S
<1>2. ps \subseteq {"true", "false"} /\ ss \subseteq {"true", "false", "unknown"}
  BY <1>1
<1>3. ("true" \in ps <=> "true" \in ss) /\ (ps \subseteq {"true"} <=> ss \subseteq {"true"})
  BY <1>1
<1>4. f.not => ps = ss
  BY <1>1
<1>5. f.not \in BOOLEAN
  BY DEF Formulas
<1> DEFINE pr == IF f.condition = "AND" THEN ps \subseteq {"true"} ELSE ("true" \in ps)
           sr == IF f.condition = "AND" THEN SqlAnd(ss) ELSE SqlOr(ss)
<1>6. Python(f, row, none) = IF "raised" \in ps THEN "raised" ELSE Bool(pr # f.not)
  BY DEF Python, P
<1>7. Sql(f, row) = IF f.not THEN SqlNot(sr) ELSE sr
  BY DEF Sql, S
<1> HIDE DEF ps, ss
<1>8. sr \in {"true", "false", "unknown"}
  BY DEF SqlAnd, SqlOr
<1>9. sr = "true" <=> pr
  BY <1>2, <1>3 DEF SqlAnd, SqlOr
<1>10. f.not => sr # "unknown"
  BY <1>2, <1>4 DEF SqlAnd, SqlOr
<1> HIDE DEF pr, sr
<1>11. "raised" \notin ps
  BY <1>2
<1>12. Python(f, row, none) = "true" <=> (pr # f.not)
  BY <1>6, <1>11 DEF Bool
<1>13. Sql(f, row) = "true" <=> (pr # f.not)
  BY <1>5, <1>7, <1>8, <1>9, <1>10 DEF SqlNot
<1> QED
  BY <1>12, <1>13

-----------------------------------------------------------------------------
(* Tables.                                                                 *)

LEMMA TableType ==
  ASSUME NEW T \in Tables
  PROVE  DOMAIN T \subseteq Row /\ T \in [DOMAIN T -> Values]
BY DEF Tables

LEMMA SelectFinite ==
  ASSUME NEW T \in Tables, NEW f, NEW g
  PROVE  Cardinality(Select(f, T)) \in Nat /\ Cardinality(SelectBoth(f, g, T)) \in Nat
<1>1. Select(f, T) \subseteq Row /\ SelectBoth(f, g, T) \subseteq Row
  BY TableType DEF Select, SelectBoth
<1> QED
  BY <1>1, CountsAssumption, FS_Subset, FS_CardinalityType

\* A query that does not mention the counters selects the same rows before
\* and after one has changed.
Unread(T, U) ==
    /\ DOMAIN T = DOMAIN U
    /\ \A r \in DOMAIN T : T[r].answer = U[r].answer

LEMMA SelectUnread ==
  ASSUME NEW T, NEW U, Unread(T, U), NEW f \in Formulas, "reads" \notin Vars(f)
  PROVE  \A r \in DOMAIN T : Sql(f, T[r]) = Sql(f, U[r])
<1>1. Vars(f) \subseteq {"answer"}
  BY DEF Formulas, Vars, Column
<1> SUFFICES ASSUME NEW r \in DOMAIN T PROVE Sql(f, T[r]) = Sql(f, U[r])
  OBVIOUS
<1>2. \A x \in Vars(f) : T[r][x] = U[r][x]
  BY <1>1 DEF Unread
<1> QED
  BY <1>2, SqlReadsVars

LEMMA CountUnread ==
  ASSUME NEW T, NEW U, Unread(T, U), NEW f \in Formulas, NEW g \in Formulas
  PROVE  /\ "reads" \notin Vars(f) => Select(f, T) = Select(f, U)
         /\ "reads" \notin Vars(f) \cup Vars(g) => SelectBoth(f, g, T) = SelectBoth(f, g, U)
<1>1. DOMAIN T = DOMAIN U
  BY DEF Unread
<1>2. "reads" \notin Vars(f) => Select(f, T) = Select(f, U)
  BY <1>1, SelectUnread DEF Select
<1>3. "reads" \notin Vars(f) \cup Vars(g) => SelectBoth(f, g, T) = SelectBoth(f, g, U)
  BY <1>1, SelectUnread DEF SelectBoth
<1> QED
  BY <1>2, <1>3

-----------------------------------------------------------------------------
(* The operations on the conditions of one action.                         *)

LEMMA CountedType ==
  ASSUME NEW c \in Condition, NEW S, Cardinality(S) \in Nat
  PROVE  /\ Counted(c, S) \in Condition
         /\ Counted(c, S).n = Cardinality(S)
         /\ Counted(c, S).formula = c.formula /\ Counted(c, S).links = c.links
BY DEF Counted, Condition

LEMMA SlotOf ==
  ASSUME NEW conds \in CondsType, NEW s \in Slot, conds[s] # None
  PROVE  conds[s] \in Condition /\ conds[s].formula \in Formulas
BY CountsAssumption DEF CondsType, Condition

\* Everything is counted, within the filter: right whatever it was before.
LEMMA PropagateRight ==
  ASSUME NEW conds \in CondsType, NEW T \in Tables, conds[Filter] # None
  PROVE  LET new == Propagate(conds, T) IN
         /\ new \in CondsType
         /\ \A s \in Slot : /\ new[s] # None <=> conds[s] # None
                            /\ new[s] # None => /\ new[s].formula = conds[s].formula
                                                /\ new[s].links = conds[s].links
                                                /\ new[s].n = Both(new, s, T)
<1> DEFINE new == Propagate(conds, T)
           f == conds[Filter].formula
           count(s) == IF s = Filter THEN Select(f, T) ELSE SelectBoth(f, conds[s].formula, T)
<1>1. \A s \in Slot : new[s] = IF conds[s] = None THEN None ELSE Counted(conds[s], count(s))
  BY DEF Propagate
<1>2. \A s \in Slot : Cardinality(count(s)) \in Nat
  BY SelectFinite
<1>3. ASSUME NEW s \in Slot, conds[s] # None
      PROVE  count(s) = SelectBoth(f, conds[s].formula, T)
  BY BothWithItself
<1> HIDE DEF count
<1>4. ASSUME NEW s \in Slot, conds[s] # None
      PROVE  /\ new[s] \in Condition /\ new[s] # None
             /\ new[s].formula = conds[s].formula /\ new[s].links = conds[s].links
             /\ new[s].n = Cardinality(count(s))
  BY <1>1, <1>2, <1>4, SlotOf, CountedType, CountsAssumption
<1>5. new \in CondsType
  <2>1. new = [s \in Slot |-> new[s]]
    BY DEF Propagate
  <2>2. \A s \in Slot : new[s] \in Condition \cup {None}
    BY <1>1, <1>4
  <2> HIDE DEF new
  <2> QED
    BY <2>1, <2>2 DEF CondsType
<1>6. Filter \in Slot
  BY DEF Slot
<1>7. \A s \in Slot : new[s] # None => new[s].n = Both(new, s, T)
  <2> SUFFICES ASSUME NEW s \in Slot, new[s] # None
               PROVE  new[s].n = Cardinality(SelectBoth(new[Filter].formula, new[s].formula, T))
    BY DEF Both
  <2>1. conds[s] # None
    BY <1>1
  <2>2. new[Filter].formula = f /\ new[s].formula = conds[s].formula
    BY <1>4, <1>6, <2>1
  <2> HIDE DEF new, f
  <2> QED
    BY <1>3, <1>4, <2>1, <2>2
<1> HIDE DEF new
<1>8. \A s \in Slot : new[s] # None <=> conds[s] # None
  BY <1>1, <1>4
<1> QED
  BY <1>4, <1>5, <1>7, <1>8 DEF new

\* Without a filter every condition is counted alone.
LEMMA CountAloneRight ==
  ASSUME NEW conds \in CondsType, NEW T \in Tables, conds[Filter] = None, NEW chosen
  PROVE  LET new == RecountFor(conds, T, chosen) IN
         /\ new \in CondsType
         /\ new[Filter] = None
         /\ \A s \in Slot : /\ new[s] # None <=> conds[s] # None
                            /\ s \notin chosen => new[s] = conds[s]
                            /\ new[s] # None => /\ new[s].formula = conds[s].formula
                                                /\ new[s].links = conds[s].links
                                                /\ s \in chosen => new[s].n = One(new, s, T)
<1> DEFINE new == RecountFor(conds, T, chosen)
<1>1. \A s \in Slot : new[s] = IF conds[s] # None /\ s \in chosen
                               THEN Counted(conds[s], Select(conds[s].formula, T)) ELSE conds[s]
  BY DEF RecountFor
<1>2. \A s \in Slot : Cardinality(Select(conds[s].formula, T)) \in Nat
  BY SelectFinite
<1>3. ASSUME NEW s \in Slot, conds[s] # None
      PROVE  /\ new[s] \in Condition /\ new[s] # None
             /\ new[s].formula = conds[s].formula /\ new[s].links = conds[s].links
             /\ s \in chosen => new[s].n = One(new, s, T)
  <2>1. CASE s \in chosen
    BY <1>1, <1>2, <1>3, <2>1, SlotOf, CountedType, CountsAssumption DEF One
  <2>2. CASE s \notin chosen
    BY <1>1, <1>3, <2>2, SlotOf
  <2> QED
    BY <2>1, <2>2
<1>4. new \in CondsType
  <2>1. new = [s \in Slot |-> new[s]]
    BY DEF RecountFor
  <2>2. \A s \in Slot : new[s] \in Condition \cup {None}
    BY <1>1, <1>3
  <2> HIDE DEF new
  <2> QED
    BY <2>1, <2>2 DEF CondsType
<1>5. Filter \in Slot
  BY DEF Slot
<1> HIDE DEF new
<1>6. \A s \in Slot : new[s] # None <=> conds[s] # None
  BY <1>1, <1>3
<1> QED
  BY <1>1, <1>3, <1>4, <1>5, <1>6 DEF new

\* A recount of everything is right whatever the numbers were before.
LEMMA RecountRight ==
  ASSUME NEW conds \in CondsType, NEW T \in Tables, LinksRight(conds)
  PROVE  LET new == Recount(conds, T) IN
         /\ new \in CondsType
         /\ Right(new, T)
         /\ \A s \in Slot : new[s] # None =>
              new[s].n = IF new[Filter] = None THEN One(new, s, T) ELSE Both(new, s, T)
<1> DEFINE new == Recount(conds, T)
<1>1. Filter \in Slot /\ Cond \subseteq Slot
  BY DEF Slot
<1>2. CASE conds[Filter] # None
  <2>1. new = Propagate(conds, T)
    BY <1>1, <1>2 DEF Recount, RecountFor
  <2> HIDE DEF new
  <2>2. /\ new \in CondsType
        /\ \A s \in Slot : /\ new[s] # None <=> conds[s] # None
                           /\ new[s] # None => /\ new[s].formula = conds[s].formula
                                               /\ new[s].links = conds[s].links
                                               /\ new[s].n = Both(new, s, T)
    BY <1>2, <2>1, PropagateRight
  <2>3. LinksRight(new)
    BY <2>2 DEF LinksRight
  <2>4. FilterRight(new, T)
    BY <1>1, <2>2, BothWithItself DEF FilterRight, One, Both
  <2>5. CondsRight(new, T)
    BY <1>1, <1>2, <2>2 DEF CondsRight, Meaning
  <2> QED
    BY <1>1, <1>2, <2>2, <2>3, <2>4, <2>5 DEF new, Right
<1>3. CASE conds[Filter] = None
  <2>1. new = RecountFor(conds, T, Slot)
    BY DEF Recount
  <2> HIDE DEF new
  <2>2. /\ new \in CondsType
        /\ new[Filter] = None
        /\ \A s \in Slot : /\ new[s] # None <=> conds[s] # None
                           /\ new[s] # None => /\ new[s].formula = conds[s].formula
                                               /\ new[s].links = conds[s].links
                                               /\ new[s].n = One(new, s, T)
    BY <1>3, <2>1, CountAloneRight
  <2>3. LinksRight(new)
    BY <2>2 DEF LinksRight
  <2>4. FilterRight(new, T) /\ CondsRight(new, T)
    BY <1>1, <2>2 DEF FilterRight, CondsRight, Meaning
  <2> QED
    BY <2>2, <2>3, <2>4 DEF new, Right
<1> QED
  BY <1>2, <1>3

\* An image recounts what its links say, and leaves numbers that nothing it
\* changes can have made wrong.
LEMMA RecountReadsRight ==
  ASSUME NEW conds \in CondsType, NEW T \in Tables, NEW U \in Tables, Unread(T, U),
         Right(conds, T)
  PROVE  RecountReads(conds, U) \in CondsType /\ Right(RecountReads(conds, U), U)
<1> DEFINE new == RecountReads(conds, U)
           chosen == Linked(conds)
<1>1. Filter \in Slot /\ Cond \subseteq Slot
  BY DEF Slot
<1>2. LinksRight(conds) /\ FilterRight(conds, T) /\ CondsRight(conds, T)
  BY DEF Right
<1>3. CASE conds[Filter] # None /\ Filter \in chosen
  <2>1. new = Recount(conds, U)
    BY <1>1, <1>3 DEF RecountReads, Recount, RecountFor
  <2> QED
    BY <1>2, <2>1, RecountRight
<1>4. CASE conds[Filter] # None /\ Filter \notin chosen
  <2>1. new = conds /\ "reads" \notin conds[Filter].links
    BY <1>1, <1>4 DEF RecountReads, RecountFor, Linked
  <2>2. FilterRight(conds, U)
    <3> SUFFICES ASSUME Tracked(conds[Filter])
                 PROVE  conds[Filter].n = One(conds, Filter, U)
      BY DEF FilterRight
    <3>1. "reads" \notin Vars(conds[Filter].formula)
      BY <2>1 DEF Tracked
    <3>2. Select(conds[Filter].formula, T) = Select(conds[Filter].formula, U)
      BY <1>1, <1>4, <3>1, SlotOf, CountUnread
    <3> QED
      BY <1>2, <1>4, <3>2 DEF FilterRight, One
  <2>3. CondsRight(conds, U)
    <3> SUFFICES ASSUME NEW c \in Cond, conds[c] # None, Tracked(conds[c])
                 PROVE  Meaning(conds, c, U)
      BY DEF CondsRight
    <3>1. Meaning(conds, c, T)
      BY <1>2 DEF CondsRight
    <3>2. CASE "reads" \in Vars(conds[c].formula) \cup Vars(conds[Filter].formula)
      BY <1>4, <2>1, <3>2 DEF Meaning
    <3>3. CASE "reads" \notin Vars(conds[c].formula) \cup Vars(conds[Filter].formula)
      <4>1. /\ conds[c].formula \in Formulas /\ conds[Filter].formula \in Formulas
            /\ "reads" \notin Vars(conds[c].formula)
            /\ "reads" \notin Vars(conds[Filter].formula) \cup Vars(conds[c].formula)
        BY <1>1, <1>4, <3>3, SlotOf
      <4>2. One(conds, c, T) = One(conds, c, U) /\ Both(conds, c, T) = Both(conds, c, U)
        BY <4>1, CountUnread DEF One, Both
      <4> QED
        BY <3>1, <3>3, <4>2 DEF Meaning
    <3> QED
      BY <3>2, <3>3
  <2> QED
    BY <1>2, <2>1, <2>2, <2>3 DEF Right
<1>5. CASE conds[Filter] = None
  <2>1. new = RecountFor(conds, U, chosen)
    BY DEF RecountReads
  <2>2. \A s \in Slot : conds[s] # None /\ s \notin chosen => "reads" \notin conds[s].links
    BY DEF Linked
  <2> HIDE DEF new, chosen
  <2>3. /\ new \in CondsType
        /\ new[Filter] = None
        /\ \A s \in Slot : /\ new[s] # None <=> conds[s] # None
                           /\ s \notin chosen => new[s] = conds[s]
                           /\ new[s] # None => /\ new[s].formula = conds[s].formula
                                               /\ new[s].links = conds[s].links
                                               /\ s \in chosen => new[s].n = One(new, s, U)
    BY <1>5, <2>1, CountAloneRight
  <2>4. LinksRight(new)
    BY <1>2, <2>3 DEF LinksRight
  <2>5. FilterRight(new, U)
    BY <2>3 DEF FilterRight
  <2>6. CondsRight(new, U)
    <3> SUFFICES ASSUME NEW c \in Cond, new[c] # None, Tracked(new[c])
                 PROVE  new[c].n = One(new, c, U)
      BY DEF CondsRight, Meaning
    <3>1. CASE c \in chosen
      BY <1>1, <2>3, <3>1
    <3>2. CASE c \notin chosen
      <4>1. new[c] = conds[c] /\ conds[c] # None
        BY <1>1, <2>3, <3>2
      <4>2. conds[c].n = One(conds, c, T)
        BY <1>2, <1>5, <4>1 DEF CondsRight, Meaning
      <4>3. "reads" \notin Vars(conds[c].formula)
        BY <1>1, <2>2, <3>2, <4>1 DEF Tracked
      <4>4. Select(conds[c].formula, T) = Select(conds[c].formula, U)
        BY <1>1, <4>1, <4>3, SlotOf, CountUnread
      <4> QED
        BY <4>1, <4>2, <4>4 DEF One
    <3> QED
      BY <3>1, <3>2
  <2> QED
    BY <2>3, <2>4, <2>5, <2>6 DEF new, Right
<1> QED
  BY <1>3, <1>4, <1>5

\* A condition put in a slot: the numbers of the others stay right, and a
\* filter leaves them alone only if it is what it was.
LEMMA SetCondRight ==
  ASSUME NEW conds \in CondsType, NEW T \in Tables, Right(conds, T),
         NEW c \in Cond, NEW x \in Condition \cup {None},
         x # None => /\ x.links \in {{}, Vars(x.formula)}
                     /\ Tracked(x) => Meaning([conds EXCEPT ![c] = x], c, T)
  PROVE  [conds EXCEPT ![c] = x] \in CondsType /\ Right([conds EXCEPT ![c] = x], T)
<1> DEFINE new == [conds EXCEPT ![c] = x]
<1>1. /\ Filter \in Slot /\ Cond \subseteq Slot /\ c # Filter
      /\ conds \in [Slot -> Condition \cup {None}]
  BY CountsAssumption DEF Slot, CondsType
<1>2. new \in [Slot -> Condition \cup {None}] /\ new[c] = x
      /\ \A s \in Slot : s # c => new[s] = conds[s]
  BY <1>1
<1> HIDE DEF new
<1>3. LinksRight(new)
  BY <1>2 DEF Right, LinksRight
<1>4. FilterRight(new, T)
  BY <1>1, <1>2 DEF Right, FilterRight, One
<1>5. CondsRight(new, T)
  <2> SUFFICES ASSUME NEW d \in Cond, new[d] # None, Tracked(new[d])
               PROVE  Meaning(new, d, T)
    BY DEF CondsRight
  <2>1. CASE d = c
    BY <1>2, <2>1 DEF new
  <2>2. CASE d # c
    <3>1. new[d] = conds[d] /\ new[Filter] = conds[Filter]
      BY <1>1, <1>2, <2>2
    <3>2. Meaning(conds, d, T)
      BY <3>1 DEF Right, CondsRight
    <3> QED
      BY <3>1, <3>2 DEF Meaning, One, Both
  <2> QED
    BY <2>1, <2>2
<1> QED
  BY <1>2, <1>3, <1>4, <1>5 DEF new, CondsType, Right

\* A copy without links claims to be right only if the formula is empty, and
\* then the original does as well.
LEMMA CopyRight ==
  ASSUME NEW conds \in CondsType, LinksRight(conds), NEW s \in Slot
  PROVE  /\ Copy(conds[s]) \in Condition \cup {None}
         /\ Copy(conds[s]) # None <=> conds[s] # None
         /\ conds[s] # None =>
              /\ Copy(conds[s]).links = {}
              /\ Copy(conds[s]).formula = conds[s].formula /\ Copy(conds[s]).n = conds[s].n
              /\ Tracked(Copy(conds[s])) => Tracked(conds[s])
<1>1. CASE conds[s] = None
  BY <1>1 DEF Copy
<1>2. CASE conds[s] # None
  <2>1. conds[s] \in Condition /\ conds[s].links \in {{}, Vars(conds[s].formula)}
    BY <1>2, SlotOf DEF LinksRight
  <2>2. /\ Copy(conds[s]) \in Condition
        /\ Copy(conds[s]).links = {}
        /\ Copy(conds[s]).formula = conds[s].formula /\ Copy(conds[s]).n = conds[s].n
        /\ Copy(conds[s]).counted = conds[s].counted
    BY <1>2, <2>1 DEF Copy, Condition
  <2> QED
    BY <1>2, <2>1, <2>2, CountsAssumption DEF Tracked
<1> QED
  BY <1>1, <1>2

-----------------------------------------------------------------------------
(* The requests.                                                           *)

LEMMA ActionType ==
  ASSUME TypeOK, NEW a \in Saved
  PROVE  /\ a \in Action /\ actions[a] \in ActionRow /\ actions[a] # None
         /\ actions[a].conds \in CondsType
BY DEF TypeOK, Saved, ActionRow, CondsType

\* A request on one action, or one that makes it.
LEMMA OneAction ==
  ASSUME IInv, NEW a \in Action, NEW new \in ActionRow \cup {None},
         new # None => Right(new.conds, rows),
         actions' = [actions EXCEPT ![a] = new], rows' = rows
  PROVE  IInv'
<1>1. TypeOK /\ AllRight
  BY DEF IInv
<1>2. actions \in [Action -> ActionRow \cup {None}]
  BY <1>1 DEF TypeOK
<1>3. TypeOK'
  BY <1>1, <1>2 DEF TypeOK
<1>4. AllRight'
  <2> SUFFICES ASSUME NEW b \in Action, actions'[b] # None
               PROVE  Right(actions'[b].conds, rows)
    BY DEF AllRight
  <2>1. CASE b = a
    BY <1>2, <2>1
  <2>2. CASE b # a
    BY <1>1, <1>2, <2>2 DEF AllRight
  <2> QED
    BY <2>1, <2>2
<1> QED
  BY <1>3, <1>4 DEF IInv

\* The same for a request that only changes its conditions.
LEMMA OneConds ==
  ASSUME IInv, NEW a \in Saved, NEW new \in CondsType, Right(new, rows),
         actions' = [actions EXCEPT ![a].conds = new], rows' = rows
  PROVE  IInv'
<1>1. TypeOK /\ a \in Action /\ actions[a] \in ActionRow
  BY ActionType DEF IInv
<1> DEFINE row == [actions[a] EXCEPT !.conds = new]
<1>2. row \in ActionRow /\ row.conds = new
  BY <1>1 DEF ActionRow, CondsType
<1>3. actions' = [actions EXCEPT ![a] = row]
  BY <1>1 DEF TypeOK
<1> HIDE DEF row
<1> QED
  BY <1>1, <1>2, <1>3, OneAction

LEMMA SavedRight ==
  ASSUME IInv, NEW a \in Saved
  PROVE  /\ rows \in Tables
         /\ actions[a].conds \in CondsType
         /\ Right(actions[a].conds, rows) /\ LinksRight(actions[a].conds)
BY ActionType DEF IInv, AllRight, Right, Saved, TypeOK

\* A change of rows and the recount of everything.
LEMMA StoreRowsRight ==
  ASSUME IInv, NEW T \in Tables, StoreRows(T)
  PROVE  /\ IInv'
         /\ \A a \in Action : actions'[a] # None =>
              \A s \in Slot : actions'[a].conds[s] # None =>
                actions'[a].conds[s].n = IF actions'[a].conds[Filter] = None
                                         THEN One(actions'[a].conds, s, rows')
                                         ELSE Both(actions'[a].conds, s, rows')
<1>1. TypeOK /\ rows' = T
  BY DEF IInv, StoreRows
<1>2. actions' = [a \in Action |-> IF actions[a] = None THEN None
                      ELSE [actions[a] EXCEPT !.conds = Recount(actions[a].conds, T)]]
  BY DEF StoreRows, RecountAll
<1>3. ASSUME NEW a \in Action, actions'[a] # None
      PROVE  /\ actions'[a] \in ActionRow
             /\ Right(actions'[a].conds, T)
             /\ \A s \in Slot : actions'[a].conds[s] # None =>
                  actions'[a].conds[s].n = IF actions'[a].conds[Filter] = None
                                           THEN One(actions'[a].conds, s, T)
                                           ELSE Both(actions'[a].conds, s, T)
  <2>1. actions[a] # None /\ a \in Saved
    BY <1>2, <1>3 DEF Saved
  <2> DEFINE conds == actions[a].conds
             new == Recount(conds, T)
  <2>2. actions[a] \in ActionRow /\ actions'[a] = [actions[a] EXCEPT !.conds = new]
    BY <1>1, <1>2, <2>1, ActionType
  <2>3. conds \in CondsType /\ LinksRight(conds)
    BY <2>1, SavedRight
  <2> HIDE DEF conds
  <2>4. /\ new \in CondsType
        /\ Right(new, T)
        /\ \A s \in Slot : new[s] # None =>
             new[s].n = IF new[Filter] = None THEN One(new, s, T) ELSE Both(new, s, T)
    BY <2>3, RecountRight
  <2> HIDE DEF new
  <2>5. actions'[a] \in ActionRow /\ actions'[a].conds = new
    BY <2>2, <2>4 DEF ActionRow, CondsType
  <2> QED
    BY <2>4, <2>5
<1>4. TypeOK'
  <2>1. actions' \in [Action -> ActionRow \cup {None}]
    BY <1>2, <1>3
  <2> QED
    BY <1>1, <2>1 DEF TypeOK
<1>5. AllRight'
  BY <1>1, <1>3 DEF AllRight
<1> QED
  BY <1>1, <1>3, <1>4, <1>5 DEF IInv

LEMMA DataTables ==
  ASSUME TypeOK, DataStep
  PROVE  \E T \in Tables : StoreRows(T)
<1>1. rows \in Tables /\ DOMAIN rows \subseteq Row /\ rows \in [DOMAIN rows -> Values]
  BY TableType DEF TypeOK
<1>2. ASSUME NEW R \in SUBSET Row, NEW T \in [R -> Values] PROVE T \in Tables
  BY DEF Tables
<1>3. CASE \E r \in Row, v \in Values : RowUpdate(r, v)
  <2> PICK r \in Row, v \in Values : RowUpdate(r, v)
    BY <1>3
  <2>1. [rows EXCEPT ![r] = v] \in [DOMAIN rows -> Values]
    BY <1>1
  <2> QED
    BY <1>1, <1>2, <2>1 DEF RowUpdate
<1>4. CASE \E r \in Row, v \in Values : RowCreate(r, v)
  <2> PICK r \in Row, v \in Values : RowCreate(r, v)
    BY <1>4
  <2> DEFINE T == [q \in DOMAIN rows \cup {r} |-> IF q = r THEN v ELSE rows[q]]
  <2>1. T \in [DOMAIN rows \cup {r} -> Values] /\ DOMAIN rows \cup {r} \subseteq Row
    BY <1>1
  <2>2. StoreRows(T)
    BY DEF RowCreate
  <2> HIDE DEF T
  <2> QED
    BY <1>2, <2>1, <2>2
<1>5. CASE \E r \in Row : RowDelete(r)
  <2> PICK r \in Row : RowDelete(r)
    BY <1>5
  <2> DEFINE T == [q \in DOMAIN rows \ {r} |-> rows[q]]
  <2>1. T \in [DOMAIN rows \ {r} -> Values] /\ DOMAIN rows \ {r} \subseteq Row
    BY <1>1
  <2>2. StoreRows(T)
    BY DEF RowDelete
  <2> HIDE DEF T
  <2> QED
    BY <1>2, <2>1, <2>2
<1>6. CASE \E v \in Values : Merge(v)
  <2> PICK v \in Values : Merge(v)
    BY <1>6
  <2>1. [r \in Row |-> v] \in [Row -> Values]
    OBVIOUS
  <2> QED
    BY <1>2, <2>1 DEF Merge
<1>7. CASE \E a \in Action, is_inst \in BOOLEAN, r \in Row, v \in Given \cup {Null} :
              ServeActionIn(a, is_inst, r, v)
  <2> PICK a \in Action, is_inst \in BOOLEAN, r \in Row, v \in Given \cup {Null} :
              ServeActionIn(a, is_inst, r, v)
    BY <1>7
  <2>1. [rows EXCEPT ![r].answer = v] \in [DOMAIN rows -> Values]
    BY <1>1 DEF Values
  <2> QED
    BY <1>1, <1>2, <2>1 DEF ServeActionIn
<1> QED
  BY <1>3, <1>4, <1>5, <1>6, <1>7 DEF DataStep

LEMMA ImageInv ==
  ASSUME IInv, NEW r \in Row, Image(r)
  PROVE  IInv'
<1>1. TypeOK /\ rows \in Tables /\ DOMAIN rows \subseteq Row /\ rows \in [DOMAIN rows -> Values]
  BY TableType DEF IInv, TypeOK
<1>2. r \in DOMAIN rows /\ rows[r].reads < MaxReads /\ rows' = [rows EXCEPT ![r].reads = @ + 1]
  BY DEF Image
<1>3. rows[r].reads + 1 \in 0..MaxReads
  BY <1>1, <1>2, CountsAssumption DEF Values
<1>4. rows' \in [DOMAIN rows -> Values]
  BY <1>1, <1>2, <1>3 DEF Values
<1>5. rows' \in Tables
  BY <1>1, <1>4 DEF Tables
<1>6. Unread(rows, rows')
  BY <1>1, <1>2 DEF Unread, Values
<1>7. actions' = [a \in Action |-> IF actions[a] = None THEN None
                      ELSE [actions[a] EXCEPT !.conds = RecountReads(actions[a].conds, rows')]]
  BY DEF Image, RecountAllReads
<1>8. ASSUME NEW a \in Action, actions'[a] # None
      PROVE  actions'[a] \in ActionRow /\ Right(actions'[a].conds, rows')
  <2>1. actions[a] # None /\ a \in Saved
    BY <1>7, <1>8 DEF Saved
  <2> DEFINE conds == actions[a].conds
             new == RecountReads(conds, rows')
  <2>2. actions[a] \in ActionRow /\ actions'[a] = [actions[a] EXCEPT !.conds = new]
    BY <1>1, <1>7, <2>1, ActionType
  <2>3. conds \in CondsType /\ Right(conds, rows)
    BY <2>1, SavedRight
  <2> HIDE DEF conds
  <2>4. new \in CondsType /\ Right(new, rows')
    BY <1>1, <1>5, <1>6, <2>3, RecountReadsRight
  <2> HIDE DEF new
  <2>5. actions'[a] \in ActionRow /\ actions'[a].conds = new
    BY <2>2, <2>4 DEF ActionRow, CondsType
  <2> QED
    BY <2>4, <2>5
<1>9. actions' \in [Action -> ActionRow \cup {None}]
  BY <1>7, <1>8
<1> QED
  BY <1>5, <1>8, <1>9 DEF IInv, TypeOK, AllRight

LEMMA NewType ==
  ASSUME TypeOK, NEW f \in FilterFormula \cup CondFormula
  PROVE  /\ New(f, 0) \in Condition
         /\ New(f, Cardinality(Select(f, rows))) \in Condition
<1>1. f \in Formulas
  BY CountsAssumption
<1>2. Vars(f) \in SUBSET Column
  BY <1>1 DEF Formulas, Vars
<1>3. Cardinality(Select(f, rows)) \in Nat
  BY SelectFinite DEF TypeOK
<1> QED
  BY <1>2, <1>3 DEF New, Condition

LEMMA SaveFilterInv ==
  ASSUME IInv, NEW a \in Action, NEW f \in FilterFormula, SaveFilter(a, f)
  PROVE  IInv'
<1> DEFINE conds == actions[a].conds
           c1 == [conds EXCEPT ![Filter] = New(f, 0)]
           new == Propagate(c1, rows)
<1>1. a \in Saved /\ TypeOK
  BY DEF SaveFilter, IInv
<1>2. rows \in Tables /\ conds \in CondsType /\ LinksRight(conds)
  BY <1>1, SavedRight
<1>3. New(f, 0) \in Condition /\ New(f, 0) # None
  BY <1>1, NewType, CountsAssumption
<1>4. New(f, 0).links = Vars(New(f, 0).formula)
  BY DEF New
<1>5. actions' = [actions EXCEPT ![a].conds = new] /\ rows' = rows
  BY DEF SaveFilter
<1> HIDE DEF conds
<1>6. c1 \in CondsType /\ c1[Filter] # None /\ LinksRight(c1) /\ Filter \in Slot
  BY <1>2, <1>3, <1>4 DEF CondsType, LinksRight, Slot
<1> HIDE DEF c1
<1>7. new = Recount(c1, rows)
  BY <1>6 DEF Recount, RecountFor
<1>8. new \in CondsType /\ Right(new, rows)
  BY <1>2, <1>6, <1>7, RecountRight
<1> HIDE DEF new
<1> QED
  BY <1>1, <1>5, <1>8, OneConds

LEMMA DeleteFilterInv ==
  ASSUME IInv, NEW a \in Action, DeleteFilter(a)
  PROVE  IInv'
<1> DEFINE conds == actions[a].conds
           c1 == [conds EXCEPT ![Filter] = None]
           new == Recount(c1, rows)
<1>1. a \in Saved
  BY DEF DeleteFilter
<1>2. rows \in Tables /\ conds \in CondsType /\ LinksRight(conds)
  BY <1>1, SavedRight
<1>3. actions' = [actions EXCEPT ![a].conds = new] /\ rows' = rows
  BY DEF DeleteFilter
<1> HIDE DEF conds
<1>4. c1 \in CondsType /\ LinksRight(c1)
  BY <1>2 DEF CondsType, LinksRight
<1> HIDE DEF c1
<1>5. new \in CondsType /\ Right(new, rows)
  BY <1>2, <1>4, RecountRight
<1> HIDE DEF new
<1> QED
  BY <1>1, <1>3, <1>5, OneConds

\* A request on one condition that is no filter.
LEMMA OneCond ==
  ASSUME IInv, NEW a \in Saved, NEW c \in Cond, NEW x \in Condition \cup {None},
         x # None => /\ x.links \in {{}, Vars(x.formula)}
                     /\ Tracked(x) => Meaning([actions[a].conds EXCEPT ![c] = x], c, rows),
         actions' = [actions EXCEPT ![a].conds[c] = x], rows' = rows
  PROVE  IInv'
<1> DEFINE conds == actions[a].conds
           new == [conds EXCEPT ![c] = x]
<1>1. rows \in Tables /\ conds \in CondsType /\ Right(conds, rows)
  BY SavedRight
<1>2. actions' = [actions EXCEPT ![a].conds = new]
  OBVIOUS
<1> HIDE DEF conds
<1>3. new \in CondsType /\ Right(new, rows)
  BY <1>1, SetCondRight DEF conds
<1> HIDE DEF new
<1> QED
  BY <1>2, <1>3, OneConds

LEMMA SaveConditionInv ==
  ASSUME IInv, NEW a \in Action, NEW c \in Cond, NEW f \in CondFormula, SaveCondition(a, c, f)
  PROVE  IInv'
<1> DEFINE x == New(f, Cardinality(Select(f, rows)))
           new == [actions[a].conds EXCEPT ![c] = x]
<1>1. a \in Saved /\ TypeOK
  BY DEF SaveCondition, IInv
<1>2. x \in Condition /\ x.links = Vars(x.formula) /\ x.formula = f
      /\ x.n = Cardinality(Select(f, rows))
  BY <1>1, NewType DEF New
<1>3. actions' = [actions EXCEPT ![a].conds[c] = x] /\ rows' = rows
  BY DEF SaveCondition
<1>4. c \in Slot /\ actions[a].conds \in CondsType
  BY <1>1, SavedRight DEF Slot
<1>5. new[c] = x
  BY <1>4 DEF CondsType
<1> HIDE DEF x, new
<1>6. Meaning(new, c, rows)
  BY <1>2, <1>5 DEF Meaning, One
<1> QED
  BY <1>1, <1>2, <1>3, <1>6, OneCond DEF new

LEMMA DeleteConditionInv ==
  ASSUME IInv, NEW a \in Action, NEW c \in Cond, DeleteCondition(a, c)
  PROVE  IInv'
<1>1. a \in Saved /\ actions' = [actions EXCEPT ![a].conds[c] = None] /\ rows' = rows
  BY DEF DeleteCondition
<1> QED
  BY <1>1, OneCond

LEMMA CloneConditionInv ==
  ASSUME IInv, NEW a \in Action, NEW c \in Cond, NEW d \in Cond, CloneCondition(a, c, d)
  PROVE  IInv'
<1> DEFINE conds == actions[a].conds
           x == Copy(conds[c])
           new == [conds EXCEPT ![d] = x]
<1>1. a \in Saved /\ conds[c] # None
      /\ actions' = [actions EXCEPT ![a].conds[d] = x] /\ rows' = rows
  BY DEF CloneCondition
<1>2. conds \in CondsType /\ LinksRight(conds) /\ Right(conds, rows)
  BY <1>1, SavedRight
<1> HIDE DEF conds
<1>3. c \in Slot /\ d \in Slot /\ Filter \in Slot /\ d # Filter
  BY CountsAssumption DEF Slot
<1>4. /\ x \in Condition \cup {None} /\ x # None /\ x.links = {}
      /\ x.formula = conds[c].formula /\ x.n = conds[c].n
      /\ Tracked(x) => Tracked(conds[c])
  BY <1>1, <1>2, <1>3, CopyRight
<1> HIDE DEF x
<1>5. new[d] = x /\ new[Filter] = conds[Filter]
  BY <1>2, <1>3 DEF CondsType
<1> HIDE DEF new
<1>6. Tracked(x) => Meaning(new, d, rows)
  <2>1. Tracked(x) => Meaning(conds, c, rows)
    BY <1>1, <1>2, <1>4 DEF Right, CondsRight
  <2> QED
    BY <1>4, <1>5, <2>1 DEF Meaning, One, Both
<1>7. new = [actions[a].conds EXCEPT ![d] = x]
  BY DEF new, conds
<1> QED
  BY <1>1, <1>4, <1>6, <1>7, OneCond

LEMMA ActionCreateInv ==
  ASSUME IInv, NEW a \in Action, NEW is_out \in BOOLEAN, ActionCreate(a, is_out)
  PROVE  IInv'
<1> DEFINE conds == [s \in Slot |-> None]
           new == [is_out |-> is_out, columns |-> {}, conds |-> conds]
<1>1. actions' = [actions EXCEPT ![a] = new] /\ rows' = rows
  BY DEF ActionCreate
<1>2. new \in ActionRow /\ new.conds = conds
  BY DEF ActionRow
<1>3. Right(conds, rows)
  BY DEF Right, LinksRight, FilterRight, CondsRight, Slot
<1> HIDE DEF conds, new
<1> QED
  BY <1>1, <1>2, <1>3, OneAction

LEMMA ActionCloneInv ==
  ASSUME IInv, NEW a \in Action, NEW b \in Action, ActionClone(a, b)
  PROVE  IInv'
<1> DEFINE conds == actions[a].conds
           cs == [s \in Slot |-> Copy(conds[s])]
           new == [actions[a] EXCEPT !.conds = cs]
<1>1. a \in Saved /\ actions' = [actions EXCEPT ![b] = new] /\ rows' = rows
  BY DEF ActionClone
<1>2. conds \in CondsType /\ LinksRight(conds) /\ Right(conds, rows)
  BY <1>1, SavedRight
<1>3. actions[a] \in ActionRow
  BY <1>1, ActionType DEF IInv
<1> HIDE DEF conds
<1>4. \A s \in Slot :
         /\ cs[s] \in Condition \cup {None}
         /\ cs[s] # None <=> conds[s] # None
         /\ conds[s] # None =>
              /\ cs[s].links = {}
              /\ cs[s].formula = conds[s].formula /\ cs[s].n = conds[s].n
              /\ Tracked(cs[s]) => Tracked(conds[s])
  BY <1>2, CopyRight
<1>5. cs \in [Slot -> Condition \cup {None}]
  BY <1>4
<1> HIDE DEF cs
<1>6. new \in ActionRow /\ new.conds = cs
  BY <1>3, <1>5 DEF ActionRow
<1>7. Filter \in Slot /\ Cond \subseteq Slot
  BY DEF Slot
<1>8. LinksRight(cs)
  BY <1>4 DEF LinksRight
<1>9. FilterRight(cs, rows)
  BY <1>2, <1>4, <1>7 DEF Right, FilterRight, One
<1>10. CondsRight(cs, rows)
  <2> SUFFICES ASSUME NEW c \in Cond, cs[c] # None, Tracked(cs[c])
               PROVE  Meaning(cs, c, rows)
    BY DEF CondsRight
  <2>1. Meaning(conds, c, rows)
    BY <1>2, <1>4, <1>7 DEF Right, CondsRight
  <2>2. /\ cs[c].formula = conds[c].formula /\ cs[c].n = conds[c].n
        /\ cs[Filter] # None <=> conds[Filter] # None
        /\ conds[Filter] # None => /\ cs[Filter].formula = conds[Filter].formula
                                   /\ cs[Filter].links = {}
    BY <1>4, <1>7
  <2> QED
    BY <2>1, <2>2 DEF Meaning, One, Both
<1> HIDE DEF new
<1> QED
  BY <1>1, <1>6, <1>8, <1>9, <1>10, OneAction DEF Right

LEMMA ActionDeleteInv ==
  ASSUME IInv, NEW a \in Action, ActionDelete(a)
  PROVE  IInv'
<1>1. actions' = [actions EXCEPT ![a] = None] /\ rows' = rows
  BY DEF ActionDelete
<1> QED
  BY <1>1, OneAction

LEMMA ActionImportInv ==
  ASSUME IInv, NEW a \in Action, NEW f \in FilterFormula, NEW g \in CondFormula,
         ActionImport(a, f, g)
  PROVE  IInv'
<1> DEFINE row(s) == [New(IF s = Filter THEN f ELSE g, 0) EXCEPT !.counted = FALSE]
           cs == [s \in Slot |-> row(s)]
           new == [is_out |-> TRUE, columns |-> {}, conds |-> cs]
<1>1. actions' = [actions EXCEPT ![a] = new] /\ rows' = rows
  BY DEF ActionImport
<1>2. \A h \in FilterFormula \cup CondFormula :
        /\ [New(h, 0) EXCEPT !.counted = FALSE] \in Condition
        /\ [New(h, 0) EXCEPT !.counted = FALSE].links
             = Vars([New(h, 0) EXCEPT !.counted = FALSE].formula)
        /\ [New(h, 0) EXCEPT !.counted = FALSE].counted = FALSE
  BY NewType DEF IInv, Condition, New
<1>3. \A s \in Slot : /\ row(s) \in Condition
                      /\ row(s).links = Vars(row(s).formula)
                      /\ row(s).counted = FALSE
  BY <1>2
<1> HIDE DEF row
<1>4. cs \in [Slot -> Condition \cup {None}]
  BY <1>3
<1>5. new \in ActionRow /\ new.conds = cs
  BY <1>4 DEF ActionRow
<1>6. Right(cs, rows)
  BY <1>3 DEF Right, LinksRight, FilterRight, CondsRight, Tracked, Slot
<1> HIDE DEF cs, new
<1> QED
  BY <1>1, <1>5, <1>6, OneAction

LEMMA SelectColumnInv ==
  ASSUME IInv, NEW a \in Action, NEW c \in InColumn,
         SelectColumn(a, c) \/ UnselectColumn(a, c)
  PROVE  IInv'
<1>1. a \in Saved /\ rows' = rows
  BY DEF SelectColumn, UnselectColumn
<1>2. actions[a] \in ActionRow /\ Right(actions[a].conds, rows)
  BY <1>1, ActionType, SavedRight DEF IInv
<1>3. PICK S \in SUBSET InColumn : actions' = [actions EXCEPT ![a].columns = S]
  <2>1. actions[a].columns \cup {c} \in SUBSET InColumn
        /\ actions[a].columns \ {c} \in SUBSET InColumn
    BY <1>2 DEF ActionRow
  <2> QED
    BY <2>1 DEF SelectColumn, UnselectColumn
<1> DEFINE new == [actions[a] EXCEPT !.columns = S]
<1>4. new \in ActionRow /\ new.conds = actions[a].conds
  BY <1>2 DEF ActionRow
<1>5. actions' = [actions EXCEPT ![a] = new]
  BY <1>3
<1> HIDE DEF new
<1> QED
  BY <1>1, <1>2, <1>4, <1>5, OneAction

LEMMA CountFilterInv ==
  ASSUME IInv, NEW a \in Action, CountFilter(a)
  PROVE  IInv'
<1> DEFINE conds == actions[a].conds
           x == Counted(conds[Filter], Select(conds[Filter].formula, rows))
           new == [conds EXCEPT ![Filter] = x]
<1>1. /\ a \in Saved /\ conds[Filter] # None /\ rows' = rows
      /\ actions' = [actions EXCEPT ![a].conds[Filter] = x]
  BY DEF CountFilter
<1>2. rows \in Tables /\ conds \in CondsType /\ Right(conds, rows)
  BY <1>1, SavedRight
<1>3. Filter \in Slot /\ Cond \subseteq Slot /\ Filter \notin Cond
  BY CountsAssumption DEF Slot
<1>4. actions' = [actions EXCEPT ![a].conds = new]
  BY <1>1
<1> HIDE DEF conds
<1>5. /\ x \in Condition /\ x.formula = conds[Filter].formula /\ x.links = conds[Filter].links
      /\ x.n = One(conds, Filter, rows)
  BY <1>1, <1>2, <1>3, SlotOf, SelectFinite, CountedType DEF One
<1> HIDE DEF x
<1>6. new \in CondsType /\ new[Filter] = x /\ \A s \in Slot : s # Filter => new[s] = conds[s]
  BY <1>2, <1>3, <1>5 DEF CondsType
<1>7. x # None
  BY <1>5, CountsAssumption
<1> HIDE DEF new
<1>8. LinksRight(new)
  BY <1>1, <1>2, <1>3, <1>5, <1>6 DEF Right, LinksRight
<1>9. FilterRight(new, rows)
  BY <1>5, <1>6 DEF FilterRight, One
<1>10. CondsRight(new, rows)
  <2> SUFFICES ASSUME NEW c \in Cond, new[c] # None, Tracked(new[c])
               PROVE  Meaning(new, c, rows)
    BY DEF CondsRight
  <2>1. new[c] = conds[c]
    BY <1>3, <1>6
  <2>2. Meaning(conds, c, rows)
    BY <1>2, <2>1 DEF Right, CondsRight
  <2> QED
    BY <1>1, <1>5, <1>6, <1>7, <2>1, <2>2 DEF Meaning, One, Both
<1> QED
  BY <1>1, <1>4, <1>6, <1>8, <1>9, <1>10, OneConds DEF Right

-----------------------------------------------------------------------------
(* The theorems.                                                           *)

LEMMA InitInv == Init => IInv
<1> SUFFICES ASSUME Init PROVE IInv
  OBVIOUS
<1>1. [reads |-> 0, answer |-> Null] \in Values
  BY CountsAssumption DEF Values
<1>2. rows \in [Row -> Values]
  BY <1>1 DEF Init
<1> QED
  BY <1>2 DEF Init, IInv, TypeOK, AllRight, Tables

LEMMA NextInv == IInv /\ [Next]_vars => IInv'
<1> SUFFICES ASSUME IInv, [Next]_vars PROVE IInv'
  OBVIOUS
<1>1. CASE DataStep
  BY <1>1, DataTables, StoreRowsRight DEF IInv
<1>2. CASE \E r \in Row : Image(r)
  BY <1>2, ImageInv
<1>3. CASE UNCHANGED vars
  BY <1>3 DEF vars, IInv, TypeOK, AllRight
<1> QED
  BY <1>1, <1>2, <1>3, SaveFilterInv, SaveConditionInv, DeleteConditionInv, CloneConditionInv,
     ActionCreateInv, ActionCloneInv, ActionImportInv, SelectColumnInv, DeleteFilterInv,
     ActionDeleteInv, CountFilterInv DEF Next

\* The inductive invariant: types, links that are those of the formula or
\* none, and numbers that mean what the last count says (update_n_rows_selected).
THEOREM CountsInvariant == Spec => []IInv
<1>1. Init => IInv
  BY InitInv
<1>2. IInv /\ [Next]_vars => IInv'
  BY NextInv
<1> QED
  BY <1>1, <1>2, PTL DEF Spec

\* Every variable keeps its type, whatever is saved, copied or counted.
THEOREM CountsTypeCorrect == Spec => []TypeOK
<1>1. IInv => TypeOK
  BY DEF IInv
<1> QED
  BY <1>1, CountsInvariant, PTL

\* The number of a filter is what its formula selects, though images, saved
\* conditions and emails do not redo all counts (trck, save_condition_form).
THEOREM FiltersCountRight == Spec => []FilterCountRight
<1>1. IInv => FilterCountRight
  BY DEF IInv, AllRight, Right, FilterRight, FilterCountRight, Has, Conds, Saved, Alone, One
<1> QED
  BY <1>1, CountsInvariant, PTL

\* The number of a condition is that of its formula, alone or within the
\* filter, but for images that the filter is not linked to
\* (Condition.update_n_rows_selected, Action.update_n_rows_selected).
THEOREM ConditionsCountMeans == Spec => []ConditionCountMeans
<1>1. IInv => ConditionCountMeans
  <2> SUFFICES ASSUME IInv, NEW a \in Action, NEW c \in Cond, Has(a, c), Tracked(Conds(a)[c])
               PROVE  \/ /\ Conds(a)[Filter] # None
                         /\ "reads" \notin Conds(a)[Filter].links
                         /\ "reads" \in Vars(Conds(a)[c].formula) \cup Vars(Conds(a)[Filter].formula)
                      \/ Conds(a)[c].n \in {Alone(a, c), InFilter(a, c)}
    BY DEF ConditionCountMeans
  <2>1. Meaning(Conds(a), c, rows)
    BY DEF IInv, AllRight, Right, CondsRight, Has, Conds, Saved
  <2>2. Alone(a, c) = One(Conds(a), c, rows)
    BY DEF Alone, One
  <2>3. Conds(a)[Filter] # None => InFilter(a, c) = Both(Conds(a), c, rows)
    BY DEF InFilter, Both
  <2> QED
    BY <2>1, <2>2, <2>3 DEF Meaning
<1> QED
  BY <1>1, CountsInvariant, PTL

\* A change of rows leaves every number of every action right, in clones and
\* imports too (row_update, override, perform_dataframe_upload_merge).
THEOREM RecountsAreComplete == Spec => RecountComplete
<1>1. IInv /\ [Next]_vars =>
        [DataStep => \A a \in Action, s \in Slot :
           Has(a, s)' => Conds(a)'[s].n = InFilter(a, s)']_vars
  <2> SUFFICES ASSUME IInv, DataStep, NEW a \in Action, NEW s \in Slot, Has(a, s)'
               PROVE  Conds(a)'[s].n = InFilter(a, s)'
    OBVIOUS
  <2>1. actions'[a] # None /\ actions'[a].conds[s] # None
    BY DEF Has, Saved, Conds
  <2>2. actions'[a].conds[s].n = IF actions'[a].conds[Filter] = None
                                 THEN One(actions'[a].conds, s, rows')
                                 ELSE Both(actions'[a].conds, s, rows')
    BY <2>1, DataTables, StoreRowsRight DEF IInv
  <2> QED
    BY <2>2 DEF Conds, InFilter, Alone, One, Both
<1> QED
  BY <1>1, CountsInvariant, PTL DEF Spec, RecountComplete

\* The texts of a plain formula go to the rows that are counted, for every
\* such formula and all values, missing ones included (evaluate_node,
\* evaluate_node_sql).
THEOREM TextsGoWhereCounted == Spec => []TextsMatchCounts
<1>1. IInv => TextsMatchCounts
  <2> SUFFICES ASSUME IInv, NEW a \in Action, NEW c \in Cond, Has(a, c),
                      Plain(Conds(a)[c].formula)
               PROVE  Select(Conds(a)[c].formula, rows)
                        = {r \in DOMAIN rows : Python(Conds(a)[c].formula, rows[r],
                                                       Hollow(DOMAIN rows)) = "true"}
    BY DEF TextsMatchCounts
  <2>1. Conds(a)[c].formula \in Formulas
    BY SavedRight, SlotOf DEF Has, Conds, Slot
  <2> QED
    BY <2>1, PlainAgree DEF Select
<1> QED
  BY <1>1, CountsInvariant, PTL
=============================================================================
