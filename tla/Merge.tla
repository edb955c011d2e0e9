------------------------------- MODULE Merge -------------------------------
(***************************************************************************)
(* How two tables are combined (dataops.ops: perform_dataframe_upload_merge *)
(* and perform_overlap_update).  A table has its columns in a sequence and *)
(* its rows in a set: some column tells any two rows apart.  While tables  *)
(* are combined a row is known by where it comes from, so that two equal   *)
(* rows remain two.                                                        *)
(***************************************************************************)
EXTENDS Integers, Sequences, FiniteSets

CONSTANTS
    Name,       \* names of columns
    Value,      \* what a cell can hold, but for the missing value
    Strings,    \* the values that are strings; the others are numbers
    Categories, \* the values allowed in a column, by name; {}: any
    NaN,        \* the missing value
    NoRow       \* the other side of a row that has no match

ASSUME MergeAssumption ==
    /\ Strings \subseteq Value /\ NaN \notin Value
    /\ Categories \in [Name -> SUBSET Value]
    /\ \A S \in SUBSET Name : NoRow \notin [S -> Value \cup {NaN}]

Cell == Value \cup {NaN}
Names(q) == {q[i] : i \in DOMAIN q}
How == {"left", "right", "inner", "outer"}

\* is_unique_column, of rows given by their origin: a missing value is not one.
Unique(g, c) ==
    /\ \A i \in DOMAIN g : g[i][c] # NaN
    /\ \A i, j \in DOMAIN g : i # j => g[i][c] # g[j][c]

Rows(t) == [r \in t.rows |-> r]
Keys(t) == {c \in Names(t.cols) : Unique(Rows(t), c)}

\* The columns of strings of a table that was read from a file: the others
\* have numbers, or nothing.
StringColumns(t) == {c \in Names(t.cols) : \E r \in t.rows : r[c] \in Strings}

-----------------------------------------------------------------------------
(* Step A: the columns of the source that are new are joined.              *)

New(d, s, sk) == (Names(s.cols) \ Names(d.cols)) \ {sk}

Overlap(d, s, sk) == (Names(s.cols) \cap Names(d.cols)) \ {sk}

Pairs(d, s, dk, sk, how) ==
    LET match == {p \in d.rows \X s.rows : p[1][dk] = p[2][sk]} IN
    match \cup
    {p \in d.rows \X {NoRow} : how \in {"left", "outer"} /\ \A m \in match : m[1] # p[1]} \cup
    {p \in {NoRow} \X s.rows : how \in {"right", "outer"} /\ \A m \in match : m[2] # p[2]}

Joined(d, s, dk, sk, p) ==
    [c \in Names(d.cols) \cup New(d, s, sk) \cup {sk} |->
        CASE p[1] # NoRow /\ c \in Names(d.cols) -> p[1][c]
          [] p[2] # NoRow /\ c \notin Names(d.cols) -> p[2][c]
          [] p[1] = NoRow /\ c = dk /\ dk = sk -> p[2][sk]
          [] OTHER -> NaN]

StepA(d, s, dk, sk, how) ==
    IF New(d, s, sk) = {} THEN [p \in d.rows \X {NoRow} |-> p[1]]
    ELSE [p \in Pairs(d, s, dk, sk, how) |-> Joined(d, s, dk, sk, p)]

-----------------------------------------------------------------------------
(* Step B: the values of the columns that are in both are updated, and the *)
(* rows only in the source appended.                                       *)

Failed == [kind |-> "raised", rows |-> <<>>]
Done(g) == [kind |-> "frame", rows |-> g]

\* Mutant: a missing value of the source replaces one of the table.
FreshAll(old, new) == new

\* DataFrame.update skips what is missing.
Fresh(old, new) == IF new = NaN THEN old ELSE new

Update(g, s, over, dk, sk) ==
    [i \in DOMAIN g |-> [c \in DOMAIN g[i] |->
        IF c \in over \ {dk} /\ \E r \in s.rows : r[sk] = g[i][dk]
        THEN Fresh(g[i][c], (CHOOSE r \in s.rows : r[sk] = g[i][dk])[c])
        ELSE g[i][c]]]

Matched(g, s, dk, sk) == {i \in DOMAIN g : \E r \in s.rows : r[sk] = g[i][dk]}

\* Rows of the source that are not in the table.  With another name for the
\* key the index loses its name, and the key column is the source's or none
\* (that the old index comes back as a column "index" is left out).
Appended(g, s, over, cols, dk, sk) ==
    LET more == {<<r>> : r \in {r \in s.rows : \A i \in DOMAIN g : g[i][dk] # r[sk]}}
        kept == IF dk = sk \/ dk \in over THEN cols ELSE cols \ {dk} IN
    IF more = {} THEN g
    ELSE [i \in DOMAIN g \cup more |-> [c \in kept |->
            IF i \in more
            THEN (IF c = dk /\ dk = sk THEN i[1][sk] ELSE IF c \in over THEN i[1][c] ELSE NaN)
            ELSE IF c = dk /\ dk # sk THEN NaN ELSE g[i][c]]]

\* perform_overlap_update.  A right merge that appends nothing uses a frame
\* that was never assigned; update refuses a source with repeated keys.
PerformOverlapUpdate(g, s, over, cols, dk, sk, how) ==
    LET part == IF how \in {"inner", "right"}
                THEN [i \in Matched(g, s, dk, sk) |-> g[i]] ELSE g
        new == Update(part, s, over, dk, sk)
        all == Appended(new, s, over, cols, dk, sk) IN
    IF ~Unique(Rows(s), sk) THEN Failed
    ELSE CASE how \in {"inner", "left"} -> Done(new)
           [] how = "outer" -> Done(all)
           [] how = "right" -> IF all = new THEN Failed ELSE Done(all)

StepB(g, d, s, dk, sk, how) ==
    LET over == Overlap(d, s, sk) IN
    IF over = {} THEN Done(g)
    ELSE PerformOverlapUpdate(g, s, over,
            Names(d.cols) \cup (IF New(d, s, sk) = {} THEN {} ELSE New(d, s, sk) \cup {sk}),
            dk, sk, how)

\* The two steps.  A key that is not in the table is an exception that the
\* join catches and the update does not.
Combine(d, s, dk, sk, how) ==
    IF sk \notin Names(s.cols) THEN Failed
    ELSE IF dk \notin Names(d.cols)
    THEN IF New(d, s, sk) # {} THEN [Failed EXCEPT !.kind = "refused"]
         ELSE IF Overlap(d, s, sk) # {} THEN Failed ELSE Done(StepA(d, s, dk, sk, how))
    ELSE StepB(StepA(d, s, dk, sk, how), d, s, dk, sk, how)

\* The columns of the result that are of strings (dtype "object"), given those
\* of the table: a column stays one, whatever rows and values are left, and
\* one of numbers becomes one when a string arrives.  What is new is as it
\* was in the source, and so is a key that rows with a key of another name
\* were appended to.
StringsIn(g, texts, d, s, dk, sk) ==
    LET replaced == {dk} \cap {c \in Names(s.cols) : dk # sk /\ \E i \in DOMAIN g : Len(i) = 1}
        kept == Names(d.cols) \ replaced
        came(c) == \E i \in DOMAIN g : c \in DOMAIN g[i] /\ g[i][c] \in Strings IN
    {c \in kept : c \in texts \/ came(c)} \cup (StringColumns(s) \ kept)

-----------------------------------------------------------------------------
(* The checks of each column of the workflow, in the order of positions.   *)
(* The columns of strings are texts in the table and now in the result.    *)

Has(g, c) == \A i \in DOMAIN g : c \in DOMAIN g[i]

Allowed(g, c) == Categories[c] = {} \/ \A i \in DOMAIN g : g[i][c] \in Categories[c]

\* Mutant: condition 3 forgotten.
AcceptsAnyKey(g, texts, now, keys, c) == (c \in texts <=> c \in now) /\ Allowed(g, c)

\* Conditions 1 to 3: the type, the categories, and the key.
Accepts(g, texts, now, keys, c) ==
    /\ c \in texts <=> c \in now
    /\ Allowed(g, c)
    /\ c \in keys => Unique(g, c)

\* The result of the checks, and the keys as they are then: every column that
\* passed was saved before the next one was looked at.
Check(g, texts, now, columns, keys) ==
    LET Fine(i) == Has(g, columns[i]) /\ Accepts(g, texts, now, keys, columns[i])
        passed == {i \in DOMAIN columns : \A j \in 1..i : Fine(j)}
        saved == {columns[i] : i \in passed}
        next == Cardinality(passed) + 1 IN
    [kind |-> IF next > Len(columns) THEN "frame"
              ELSE IF Has(g, columns[next]) THEN "refused" ELSE "raised",
     keys |-> (keys \ saved) \cup {c \in saved : Unique(g, c)}]

-----------------------------------------------------------------------------
(* What the pseudocode of the two functions promises of a merge by a       *)
(* column that has the same name in both, with something to merge.         *)

KeysOf(t, k) == {r[k] : r \in t.rows}

Selected(d, s, k, how) ==
    CASE how = "left" -> KeysOf(d, k)
      [] how = "right" -> KeysOf(s, k)
      [] how = "inner" -> KeysOf(d, k) \cap KeysOf(s, k)
      [] how = "outer" -> KeysOf(d, k) \cup KeysOf(s, k)

Lookup(t, k, v, c) ==
    LET R == {r \in t.rows : r[k] = v} IN
    IF c \in Names(t.cols) /\ R # {} THEN (CHOOSE r \in R : TRUE)[c] ELSE NaN

Promised(d, s, k, how) ==
    {[c \in Names(d.cols) \cup Names(s.cols) |->
        IF Lookup(s, k, v, c) # NaN THEN Lookup(s, k, v, c) ELSE Lookup(d, k, v, c)] :
     v \in Selected(d, s, k, how)}
=============================================================================
