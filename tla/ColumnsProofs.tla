--------------------------- MODULE ColumnsProofs ---------------------------
(***************************************************************************)
(* For every set of names, conditions and views: however long the sequence *)
(* of uploads, merges, insertions, moves, renamings and deletions, the     *)
(* positions of the columns stay 1 to ncols, the data table stays in their *)
(* order, and a workflow with data keeps a key.                            *)
(*                                                                         *)
(* The argument is about Numbered(p, n): p numbers its columns from 1 to n.*)
(* One lemma per way of changing positions shows that it is kept, and one  *)
(* that ORDER BY position then lists every column at its own position.     *)
(*                                                                         *)
(* The second half: Columns implements OrderedTable.  The list of the user *)
(* is the columns at their positions, and each operation of the column     *)
(* views, written as arithmetic on positions, inserts, removes, renames,   *)
(* moves or appends in that list and leaves the rest in order.             *)
(***************************************************************************)
EXTENDS Columns, FiniteSetTheorems, FunctionTheorems, SequenceTheorems, TLAPS

Numbered(p, n) ==
    /\ n \in Nat
    /\ DOMAIN p \subseteq Name
    /\ p \in [DOMAIN p -> 1..n]
    /\ \A c, d \in DOMAIN p : p[c] = p[d] => c = d
    /\ \A i \in 1..n : \E c \in DOMAIN p : p[c] = i

-----------------------------------------------------------------------------
(* Counting and ordering numbered columns. *)

\* The number of columns is the last position.
LEMMA CountNumbered ==
  ASSUME NEW p, NEW n, Numbered(p, n)
  PROVE  IsFiniteSet(DOMAIN p) /\ Cardinality(DOMAIN p) = n
<1> DEFINE at == [i \in 1..n |-> CHOOSE c \in DOMAIN p : p[c] = i]
<1>1. /\ at \in [1..n -> DOMAIN p]
      /\ \A i \in 1..n : p[at[i]] = i
  BY DEF Numbered
<1>2. \A c \in DOMAIN p : p[c] \in 1..n /\ at[p[c]] = c
  BY <1>1 DEF Numbered
<1>3. at \in Bijection(1..n, DOMAIN p)
  BY <1>1, <1>2, Fun_IsBij
<1>4. ExistsBijection(1..n, DOMAIN p) /\ n \in Nat
  BY <1>3, Fun_ExistsBij DEF Numbered
<1> QED
  BY <1>4, FS_CountingElements, FS_NatBijection

\* k of the columns are at positions up to k.
LEMMA CountBelow ==
  ASSUME NEW p, NEW n, Numbered(p, n), NEW k \in 0..n
  PROVE  Cardinality({d \in DOMAIN p : p[d] <= k}) = k
<1> DEFINE low == {d \in DOMAIN p : p[d] <= k}
           at == [i \in 1..k |-> CHOOSE c \in DOMAIN p : p[c] = i]
<1>1. \A i \in 1..k : at[i] \in DOMAIN p /\ p[at[i]] = i
  BY DEF Numbered
<1>2. at \in [1..k -> low]
  BY <1>1
<1>3. \A c \in low : p[c] \in 1..k /\ at[p[c]] = c
  BY <1>1 DEF Numbered
<1>4. at \in Bijection(1..k, low)
  <2>1. \A i, j \in 1..k : at[i] = at[j] => i = j
    BY <1>1
  <2>2. \A c \in low : \E i \in 1..k : at[i] = c
    BY <1>3
  <2> HIDE DEF at, low
  <2> QED
    BY <1>2, <2>1, <2>2, Fun_IsBij
<1>5. ExistsBijection(1..k, low) /\ k \in Nat
  BY <1>4, Fun_ExistsBij DEF Numbered
<1> QED
  BY <1>5, FS_CountingElements

\* ORDER BY position puts every column at its position.
LEMMA ByPositionNumbered ==
  ASSUME NEW p, NEW n, Numbered(p, n)
  PROVE  /\ ByPosition(p) \in [1..n -> DOMAIN p]
         /\ \A i \in 1..n : p[ByPosition(p)[i]] = i
         /\ \A c \in DOMAIN p : ByPosition(p)[p[c]] = c
<1> DEFINE Upto(k) == {d \in DOMAIN p : p[d] <= k}
           There(c, i) == /\ Cardinality({d \in DOMAIN p : p[d] < p[c]}) < i
                          /\ Cardinality({d \in DOMAIN p : p[d] <= p[c]}) >= i
<1>1. ASSUME NEW c \in DOMAIN p, NEW i \in 1..n PROVE There(c, i) <=> p[c] = i
  <2>1. p[c] \in 1..n /\ n \in Nat
    BY DEF Numbered
  <2>2. Cardinality({d \in DOMAIN p : p[d] <= p[c]}) = p[c]
    BY <2>1, CountBelow
  <2>3. Cardinality({d \in DOMAIN p : p[d] < p[c]}) = p[c] - 1
    <3>1. {d \in DOMAIN p : p[d] < p[c]} = {d \in DOMAIN p : p[d] <= p[c] - 1}
      BY <2>1 DEF Numbered
    <3>2. p[c] - 1 \in 0..n
      BY <2>1
    <3> QED
      BY <3>1, <3>2, CountBelow
  <2> QED
    BY <2>1, <2>2, <2>3
<1>2. ASSUME NEW i \in 1..n
      PROVE  (CHOOSE c \in DOMAIN p : There(c, i)) \in {c \in DOMAIN p : p[c] = i}
  <2>1. PICK c \in DOMAIN p : p[c] = i
    BY DEF Numbered
  <2>2. There(c, i)
    BY <1>1, <2>1
  <2>3. PICK e : e = CHOOSE d \in DOMAIN p : There(d, i)
    OBVIOUS
  <2>4. e \in DOMAIN p /\ There(e, i)
    BY <2>2, <2>3
  <2> QED
    BY <1>1, <2>3, <2>4
<1>3. Cardinality(DOMAIN p) = n
  BY CountNumbered
<1>4. ByPosition(p) = [i \in 1..n |-> CHOOSE c \in DOMAIN p : There(c, i)]
  BY <1>3 DEF ByPosition
<1> HIDE DEF There
<1>5. \A i \in 1..n : ByPosition(p)[i] \in DOMAIN p /\ p[ByPosition(p)[i]] = i
  BY <1>2, <1>4
<1> QED
  BY <1>4, <1>5 DEF Numbered

-----------------------------------------------------------------------------
(* The ways positions change.  Each keeps the numbering. *)

\* reposition_columns followed by the save of the moved column.
LEMMA MoveNumbered ==
  ASSUME NEW p, NEW n, Numbered(p, n), NEW c \in DOMAIN p, NEW i \in 1..n
  PROVE  /\ Numbered(Place(Shift(p, p[c], i), c, i), n)
         /\ DOMAIN Place(Shift(p, p[c], i), c, i) = DOMAIN p
<1> DEFINE q == Place(Shift(p, p[c], i), c, i)
<1>1. n \in Nat /\ p[c] \in 1..n /\ \A d \in DOMAIN p : p[d] \in 1..n
  BY DEF Numbered
<1>2. DOMAIN q = DOMAIN p
  BY DEF Place, Shift
<1>3. \A d \in DOMAIN p :
        q[d] = IF d = c THEN i
               ELSE IF p[c] < p[d] /\ p[d] <= i THEN p[d] - 1
               ELSE IF i <= p[d] /\ p[d] < p[c] THEN p[d] + 1
               ELSE p[d]
  BY DEF Place, Shift
<1>4. \A d \in DOMAIN p : d # c => p[d] # p[c]
  BY DEF Numbered
<1>5. \A d \in DOMAIN p : q[d] \in 1..n
  BY <1>1, <1>3
<1>6. \A d, e \in DOMAIN p : q[d] = q[e] => d = e
  <2> SUFFICES ASSUME NEW d \in DOMAIN p, NEW e \in DOMAIN p, q[d] = q[e]
               PROVE  p[d] = p[e]
    BY DEF Numbered
  <2> QED
    BY <1>1, <1>3, <1>4
<1>7. \A k \in 1..n : \E d \in DOMAIN p : q[d] = k
  <2> SUFFICES ASSUME NEW k \in 1..n PROVE \E d \in DOMAIN p : q[d] = k
    OBVIOUS
  <2> DEFINE j == IF k = i THEN p[c]
                  ELSE IF p[c] <= k /\ k < i THEN k + 1
                  ELSE IF i < k /\ k <= p[c] THEN k - 1
                  ELSE k
  <2>1. j \in 1..n
    BY <1>1
  <2>2. PICK d \in DOMAIN p : p[d] = j
    BY <2>1 DEF Numbered
  <2>3. q[d] = k
    BY <1>1, <1>3, <1>4, <2>2
  <2> QED
    BY <2>3
<1>8. q \in [DOMAIN q -> 1..n]
  BY <1>2, <1>5 DEF Place
<1> HIDE DEF q
<1>9. Numbered(q, n)
  BY <1>1, <1>2, <1>5, <1>6, <1>7, <1>8 DEF Numbered
<1> QED
  BY <1>2, <1>9 DEF q

\* A column saved after the last one.
LEMMA AppendNumbered ==
  ASSUME NEW p, NEW n, Numbered(p, n), NEW c \in Name \ DOMAIN p
  PROVE  /\ Numbered(Place(p, c, n + 1), n + 1)
         /\ DOMAIN Place(p, c, n + 1) = DOMAIN p \cup {c}
<1> DEFINE q == Place(p, c, n + 1)
<1>1. /\ DOMAIN q = DOMAIN p \cup {c}
      /\ q[c] = n + 1
      /\ \A d \in DOMAIN p : q[d] = p[d] /\ d # c /\ p[d] \in 1..n
      /\ n \in Nat
  BY DEF Place, Numbered
<1>2. q \in [DOMAIN q -> 1..n + 1]
  BY <1>1 DEF Place
<1>3. \A d, e \in DOMAIN q : q[d] = q[e] => d = e
  BY <1>1 DEF Numbered
<1>4. \A k \in 1..n + 1 : \E d \in DOMAIN q : q[d] = k
  <2>1. ASSUME NEW k \in 1..n PROVE \E d \in DOMAIN q : q[d] = k
    <3>1. PICK d \in DOMAIN p : p[d] = k
      BY DEF Numbered
    <3> QED
      BY <1>1, <3>1
  <2> QED
    BY <1>1, <2>1
<1>5. DOMAIN q \subseteq Name /\ n + 1 \in Nat
  BY <1>1 DEF Numbered
<1> HIDE DEF q
<1>6. Numbered(q, n + 1)
  BY <1>2, <1>3, <1>4, <1>5 DEF Numbered
<1> QED
  BY <1>1, <1>6 DEF q

\* column_add: a shift that makes room, then the save of the new column.
LEMMA InsertNumbered ==
  ASSUME NEW p, NEW n, Numbered(p, n), NEW c \in Name \ DOMAIN p, NEW i \in 1..n + 1
  PROVE  /\ Numbered(Place(Shift(p, n + 1, i), c, i), n + 1)
         /\ DOMAIN Place(Shift(p, n + 1, i), c, i) = DOMAIN p \cup {c}
<1> DEFINE a == Place(p, c, n + 1)
<1>1. Numbered(a, n + 1) /\ c \in DOMAIN a /\ a[c] = n + 1
  BY AppendNumbered DEF Place
<1>2. Place(Shift(a, a[c], i), c, i) = Place(Shift(p, n + 1, i), c, i)
  BY <1>1 DEF Place, Shift
<1>3. DOMAIN Place(Shift(p, n + 1, i), c, i) = DOMAIN p \cup {c}
  BY DEF Place, Shift
<1> HIDE DEF a
<1>4. Numbered(Place(Shift(a, a[c], i), c, i), n + 1)
  BY <1>1, MoveNumbered
<1> QED
  BY <1>2, <1>3, <1>4

\* clone_column: a column appended and then moved.
LEMMA CloneNumbered ==
  ASSUME NEW p, NEW n, Numbered(p, n), NEW c \in Name \ DOMAIN p, NEW i \in 1..n + 1
  PROVE  /\ Numbered(Place(Shift(Place(p, c, n + 1), n + 1, i), c, i), n + 1)
         /\ DOMAIN Place(Shift(Place(p, c, n + 1), n + 1, i), c, i) = DOMAIN p \cup {c}
<1> DEFINE a == Place(p, c, n + 1)
<1>1. Numbered(a, n + 1) /\ DOMAIN a = DOMAIN p \cup {c} /\ c \in DOMAIN a /\ a[c] = n + 1
  BY AppendNumbered DEF Place
<1> HIDE DEF a
<1>2. /\ Numbered(Place(Shift(a, a[c], i), c, i), n + 1)
      /\ DOMAIN Place(Shift(a, a[c], i), c, i) = DOMAIN a
  BY <1>1, MoveNumbered
<1> QED
  BY <1>1, <1>2 DEF a

\* workflow_delete_column: the columns above close the gap.  The data table
\* without the column is in the order of the new positions.
LEMMA DeleteNumbered ==
  ASSUME NEW p, NEW n, Numbered(p, n), NEW c \in DOMAIN p
  PROVE  LET q == Drop(Shift(p, p[c], n + 1), c) IN
         /\ Numbered(q, n - 1)
         /\ DOMAIN q = DOMAIN p \ {c}
         /\ Without(ByPosition(p), c) = ByPosition(q)
<1> DEFINE q == Drop(Shift(p, p[c], n + 1), c)
<1>1. n \in Nat /\ p[c] \in 1..n /\ \A d \in DOMAIN p : p[d] \in 1..n
  BY DEF Numbered
<1>2. /\ DOMAIN q = DOMAIN p \ {c}
      /\ \A d \in DOMAIN q : q[d] = IF p[d] > p[c] THEN p[d] - 1 ELSE p[d]
  BY <1>1 DEF Drop, Shift
<1>3. \A d \in DOMAIN q : d \in DOMAIN p /\ p[d] # p[c]
  BY <1>2 DEF Numbered
<1>4. q \in [DOMAIN q -> 1..n - 1]
  <2>1. \A d \in DOMAIN q : q[d] \in 1..n - 1
    BY <1>1, <1>2, <1>3
  <2> QED
    BY <2>1 DEF Drop
<1>5. \A d, e \in DOMAIN q : q[d] = q[e] => d = e
  <2> SUFFICES ASSUME NEW d \in DOMAIN q, NEW e \in DOMAIN q, q[d] = q[e]
               PROVE  p[d] = p[e]
    BY <1>2 DEF Numbered
  <2> QED
    BY <1>1, <1>2, <1>3
<1>6. \A k \in 1..n - 1 : \E d \in DOMAIN q : q[d] = k
  <2> SUFFICES ASSUME NEW k \in 1..n - 1 PROVE \E d \in DOMAIN q : q[d] = k
    OBVIOUS
  <2>1. PICK d \in DOMAIN p : p[d] = IF k < p[c] THEN k ELSE k + 1
    BY <1>1 DEF Numbered
  <2>2. d # c
    BY <1>1, <2>1
  <2> QED
    BY <1>1, <1>2, <2>1, <2>2
<1>7. Numbered(q, n - 1)
  <2>1. DOMAIN q \subseteq Name /\ n - 1 \in Nat
    BY <1>1, <1>2 DEF Numbered
  <2> HIDE DEF q
  <2> QED
    BY <1>4, <1>5, <1>6, <2>1 DEF Numbered
<1>8. Without(ByPosition(p), c) = ByPosition(q)
  <2> DEFINE t == ByPosition(p)
             w == ByPosition(q)
  <2>1. /\ t \in [1..n -> DOMAIN p] /\ \A i \in 1..n : p[t[i]] = i
        /\ \A d \in DOMAIN p : t[p[d]] = d
    BY ByPositionNumbered
  <2>2. /\ w \in [1..n - 1 -> DOMAIN q] /\ \A i \in 1..n - 1 : q[w[i]] = i
    BY <1>7, ByPositionNumbered
  <2>3. p[c] = CHOOSE i \in DOMAIN t : t[i] = c
    BY <1>1, <2>1
  <2>4. Len(t) = n
    BY <1>1, <2>1
  <2>5. Without(t, c) = [i \in 1..n - 1 |-> IF i < p[c] THEN t[i] ELSE t[i + 1]]
    BY <2>3, <2>4 DEF Without
  <2>6. ASSUME NEW i \in 1..n - 1 PROVE w[i] = IF i < p[c] THEN t[i] ELSE t[i + 1]
    <3>1. w[i] \in DOMAIN q /\ q[w[i]] = i
      BY <2>2
    <3>2. p[w[i]] = IF i < p[c] THEN i ELSE i + 1
      BY <1>1, <1>2, <1>3, <3>1
    <3>3. t[p[w[i]]] = w[i]
      BY <1>2, <2>1, <3>1
    <3> QED
      BY <3>2, <3>3
  <2> HIDE DEF t, w
  <2>7. Without(t, c) = w
    BY <2>2, <2>5, <2>6
  <2> QED
    BY <2>7 DEF t, w
<1> QED
  BY <1>2, <1>7, <1>8

\* store_table_in_db numbers the new columns of a frame after the others.
LEMMA ExtendNumbered ==
  ASSUME NEW p, NEW n, Numbered(p, n),
         NEW S \in SUBSET (Name \ DOMAIN p), NEW m \in Nat,
         NEW s \in Injection(1..m, S)
  PROVE  /\ Numbered(Extend(p, s), n + m)
         /\ DOMAIN Extend(p, s) = DOMAIN p \cup Range(s)
<1> DEFINE q == Extend(p, s)
           At(d) == CHOOSE i \in DOMAIN s : s[i] = d
<1>1. /\ s \in [1..m -> S] /\ DOMAIN s = 1..m
      /\ \A i, j \in 1..m : s[i] = s[j] => i = j
  BY Fun_InjectionProperties
<1>2. Range(s) \subseteq S /\ \A d \in Range(s) : At(d) \in 1..m /\ s[At(d)] = d
  BY <1>1 DEF Range
<1>3. Cardinality(DOMAIN p) = n /\ n \in Nat /\ \A d \in DOMAIN p : p[d] \in 1..n
  BY CountNumbered DEF Numbered
<1>4. /\ DOMAIN q = DOMAIN p \cup Range(s)
      /\ \A d \in DOMAIN p : q[d] = p[d]
      /\ \A d \in Range(s) : q[d] = n + At(d)
  BY <1>2, <1>3 DEF Extend
<1> HIDE DEF At
<1>5. \A d \in DOMAIN q : q[d] \in 1..n + m
  BY <1>2, <1>3, <1>4
<1>6. \A d, e \in DOMAIN q : q[d] = q[e] => d = e
  <2>1. \A d, e \in DOMAIN p : q[d] = q[e] => d = e
    BY <1>4 DEF Numbered
  <2>2. \A d, e \in Range(s) : q[d] = q[e] => d = e
    BY <1>2, <1>3, <1>4
  <2>3. \A d \in DOMAIN p, e \in Range(s) : q[d] # q[e]
    BY <1>2, <1>3, <1>4
  <2> QED
    BY <1>4, <2>1, <2>2, <2>3
<1>7. \A k \in 1..n + m : \E d \in DOMAIN q : q[d] = k
  <2> SUFFICES ASSUME NEW k \in 1..n + m PROVE \E d \in DOMAIN q : q[d] = k
    OBVIOUS
  <2>1. CASE k \in 1..n
    BY <1>4, <2>1 DEF Numbered
  <2>2. CASE k \notin 1..n
    <3>1. k - n \in 1..m
      BY <1>3, <2>2
    <3>2. s[k - n] \in Range(s)
      BY <1>1, <3>1 DEF Range
    <3>3. At(s[k - n]) = k - n
      BY <1>1, <1>2, <3>1, <3>2
    <3> QED
      BY <1>3, <1>4, <3>1, <3>2, <3>3
  <2> QED
    BY <2>1, <2>2
<1>8. q \in [DOMAIN q -> 1..n + m] /\ DOMAIN q \subseteq Name /\ n + m \in Nat
  BY <1>2, <1>3, <1>4, <1>5 DEF Extend, Numbered
<1> HIDE DEF q
<1>9. Numbered(q, n + m)
  BY <1>6, <1>7, <1>8 DEF Numbered
<1> QED
  BY <1>4, <1>9 DEF q

\* A column renamed keeps its position.
LEMMA RenameNumbered ==
  ASSUME NEW p, NEW n, Numbered(p, n), NEW c \in DOMAIN p,
         NEW d \in (Name \ DOMAIN p) \cup {c}
  PROVE  /\ Numbered(RenamedTo(p, c, d), n)
         /\ DOMAIN RenamedTo(p, c, d) = (DOMAIN p \ {c}) \cup {d}
<1> DEFINE q == RenamedTo(p, c, d)
<1>1. /\ DOMAIN q = (DOMAIN p \ {c}) \cup {d}
      /\ q[d] = p[c]
      /\ \A e \in DOMAIN p \ {c} : q[e] = p[e] /\ e # d
      /\ \A e \in DOMAIN p : p[e] \in 1..n
  BY DEF RenamedTo, Numbered
<1>2. q \in [DOMAIN q -> 1..n] /\ DOMAIN q \subseteq Name /\ n \in Nat
  BY <1>1 DEF RenamedTo, Numbered
<1>3. \A e, f \in DOMAIN q : q[e] = q[f] => e = f
  BY <1>1 DEF Numbered
<1>4. \A k \in 1..n : \E e \in DOMAIN q : q[e] = k
  <2> SUFFICES ASSUME NEW k \in 1..n PROVE \E e \in DOMAIN q : q[e] = k
    OBVIOUS
  <2>1. PICK e \in DOMAIN p : p[e] = k
    BY DEF Numbered
  <2>2. CASE e = c
    BY <1>1, <2>1, <2>2
  <2>3. CASE e # c
    BY <1>1, <2>1, <2>3
  <2> QED
    BY <2>2, <2>3
<1> HIDE DEF q
<1>5. Numbered(q, n)
  BY <1>2, <1>3, <1>4 DEF Numbered
<1> QED
  BY <1>1, <1>5 DEF q

-----------------------------------------------------------------------------
(* The invariant.  Type correctness and the assertions of the workflow page *)
(* follow from it; by themselves they are not inductive, because a shift    *)
(* keeps positions consecutive only when each is taken by one column.       *)

PosInv ==
    /\ Numbered(pos, ncols)
    /\ table = ByPosition(pos)

KeyInv ==
    /\ key \subseteq Cols
    /\ uniq \subseteq Cols
    /\ Cols # {} => key # {}

MentionInv ==
    /\ qbOps \in Seq(Name)
    /\ conds \in [Cond -> Mention \cup {None}]
    /\ views \in [View -> Mention \cup {None}]

ColumnsInv == PosInv /\ KeyInv /\ MentionInv

\* With the positions numbered, the columns of the table are the columns.
LEMMA TableColumns ==
  ASSUME PosInv
  PROVE  /\ table \in Seq(Name) /\ Len(table) = ncols
         /\ Range(table) = Cols
         /\ HasTable <=> Cols # {}
         /\ IsFiniteSet(Cols) /\ Cardinality(Cols) = ncols
<1>1. /\ table \in [1..ncols -> Cols]
      /\ \A c \in Cols : pos[c] \in 1..ncols /\ table[pos[c]] = c
      /\ Cols \subseteq Name /\ ncols \in Nat
  BY ByPositionNumbered DEF PosInv, Numbered, Cols
<1>2. table \in Seq(Name) /\ Len(table) = ncols
  BY <1>1
<1>3. Range(table) = Cols
  BY <1>1 DEF Range
<1>4. HasTable <=> Cols # {}
  BY <1>1, <1>2, <1>3 DEF HasTable, Range
<1> QED
  BY <1>2, <1>3, <1>4, CountNumbered DEF PosInv, Cols

\* store_table_in_db re-establishes the order for any numbered positions.
LEMMA StoreNumbered ==
  ASSUME NEW p, NEW n, Numbered(p, n), StoreTable(p)
  PROVE  PosInv' /\ Cols' = DOMAIN p /\ qbOps' \in Seq(Name)
<1>1. Cardinality(DOMAIN p) = n
  BY CountNumbered
<1>2. ByPosition(p) \in [1..n -> DOMAIN p] /\ n \in Nat /\ DOMAIN p \subseteq Name
  BY ByPositionNumbered DEF Numbered
<1>3. ByPosition(p) \in Seq(Name)
  BY <1>2
<1> QED
  BY <1>1, <1>3 DEF StoreTable, PosInv, Cols

\* A workflow without data: no column, no table, and nothing that mentions one.
LEMMA InitInv == Init => ColumnsInv
<1> SUFFICES ASSUME Init PROVE ColumnsInv
  OBVIOUS
<1>1. DOMAIN pos = {} /\ ncols = 0 /\ Cardinality({}) = 0
  BY FS_EmptySet DEF Init
<1>2. Numbered(pos, ncols)
  BY <1>1 DEF Init, Numbered
<1>3. ByPosition(pos) = <<>>
  BY <1>1 DEF ByPosition
<1> QED
  BY <1>1, <1>2, <1>3 DEF Init, ColumnsInv, PosInv, KeyInv, MentionInv, Cols

\* Columns appended to a frame: what Upload and MergeAccepted store.
LEMMA FrameNumbered ==
  ASSUME ColumnsInv, NEW s \in FreshSeqs, StoreTable(Extend(pos, s))
  PROVE  PosInv' /\ Cols' = Cols \cup Range(s) /\ qbOps' \in Seq(Name)
<1>1. PICK S \in SUBSET (Name \ Cols) : s \in Injection(1..Cardinality(S), S)
  BY DEF FreshSeqs
<1>2. Cardinality(S) \in Nat
  BY NameAssumption, FS_Subset, FS_CardinalityType
<1>3. /\ Numbered(Extend(pos, s), ncols + Cardinality(S))
      /\ DOMAIN Extend(pos, s) = Cols \cup Range(s)
  BY <1>1, <1>2, ExtendNumbered DEF ColumnsInv, PosInv, Cols
<1> QED
  BY <1>3, StoreNumbered

\* Uploads, merges and row operations: columns are appended, keys gained.
LEMMA DataStepInv == ASSUME ColumnsInv, DataStep PROVE ColumnsInv'
<1> USE DEF others
<1>1. HasTable <=> Cols # {}
  BY TableColumns DEF ColumnsInv
<1>2. ASSUME NEW s \in FreshSeqs, NEW u \in SUBSET Range(s), Upload(s, u)
      PROVE  ColumnsInv'
  <2>1. PosInv' /\ Cols' = Cols \cup Range(s) /\ qbOps' \in Seq(Name)
    BY <1>2, FrameNumbered DEF Upload
  <2>2. KeyInv'
    BY <1>2, <2>1 DEF Upload, ColumnsInv, KeyInv
  <2>3. MentionInv'
    BY <1>2, <2>1 DEF Upload, ColumnsInv, MentionInv
  <2> QED
    BY <2>1, <2>2, <2>3 DEF ColumnsInv
<1>3. ASSUME NEW s \in FreshSeqs, NEW u \in SUBSET (Cols \cup Range(s)),
             MergeAccepted(s, u)
      PROVE  ColumnsInv'
  <2>1. PosInv' /\ Cols' = Cols \cup Range(s) /\ qbOps' \in Seq(Name)
    BY <1>3, FrameNumbered DEF MergeAccepted
  <2>2. KeyInv'
    BY <1>1, <1>3, <2>1 DEF MergeAccepted, ColumnsInv, KeyInv
  <2>3. MentionInv'
    BY <1>3, <2>1 DEF MergeAccepted, ColumnsInv, MentionInv
  <2> QED
    BY <2>1, <2>2, <2>3 DEF ColumnsInv
<1>4. ASSUME NEW u \in SUBSET Cols, NEW i \in 1..ncols, MergeRejected(u, i)
      PROVE  ColumnsInv'
  <2>1. key \subseteq key' /\ key' \subseteq Cols
    BY <1>4 DEF MergeRejected, ColumnsInv, KeyInv
  <2> QED
    BY <1>1, <1>4, <2>1
       DEF MergeRejected, ColumnsInv, PosInv, KeyInv, MentionInv, Cols
<1>5. CASE Flush
  <2>1. DOMAIN pos' = {} /\ ncols' = 0 /\ Cardinality({}) = 0
    BY <1>5, FS_EmptySet DEF Flush
  <2>2. Numbered(pos', ncols')
    BY <1>5, <2>1 DEF Flush, Numbered
  <2>3. ByPosition(pos') = <<>>
    BY <2>1 DEF ByPosition
  <2>4. qbOps' \in Seq(Name)
    BY <1>5, TableColumns DEF Flush, ColumnsInv, PosInv
  <2> QED
    BY <1>5, <2>1, <2>2, <2>3, <2>4
       DEF Flush, ColumnsInv, PosInv, KeyInv, MentionInv, Cols
<1>6. ASSUME NEW u \in SUBSET uniq, RowCreate(u) PROVE ColumnsInv'
  <2>1. PosInv' /\ Cols' = Cols /\ qbOps' \in Seq(Name)
    BY <1>6, StoreNumbered DEF RowCreate, ColumnsInv, PosInv, Cols
  <2> QED
    BY <1>6, <2>1 DEF RowCreate, ColumnsInv, KeyInv, MentionInv
<1>7. ASSUME NEW u \in SUBSET Cols, RowUpdate(u) \/ RowDelete(u) PROVE ColumnsInv'
  BY <1>7 DEF RowUpdate, RowDelete, ColumnsInv, PosInv, KeyInv, MentionInv, Cols
<1> QED
  BY <1>2, <1>3, <1>4, <1>5, <1>6, <1>7 DEF DataStep

\* Insertions, moves, renamings and deletions.
LEMMA ColumnStepInv == ASSUME ColumnsInv, ColumnStep PROVE ColumnsInv'
<1> USE DEF others
<1>1. /\ Numbered(pos, ncols) /\ ncols \in Nat
      /\ HasTable <=> Cols # {}
      /\ \A c \in Cols : pos[c] \in 1..ncols
  BY TableColumns DEF ColumnsInv, PosInv, Numbered, Cols
<1>2. ASSUME NEW c \in Name, NEW i \in 1..ncols + 1, NEW u \in BOOLEAN, Insert(c, i, u)
      PROVE  ColumnsInv'
  <2>1. PosInv' /\ Cols' = Cols \cup {c} /\ qbOps' \in Seq(Name)
    <3> DEFINE q == Place(Shift(pos, ncols + 1, i), c, i)
    <3>1. c \in Name \ DOMAIN pos /\ StoreTable(q)
      BY <1>2 DEF Insert, Cols
    <3>2. Numbered(q, ncols + 1) /\ DOMAIN q = DOMAIN pos \cup {c}
      BY <1>1, <1>2, <3>1, InsertNumbered
    <3> HIDE DEF q
    <3> QED
      BY <3>1, <3>2, StoreNumbered DEF Cols
  <2> QED
    BY <1>1, <1>2, <2>1 DEF Insert, ColumnsInv, KeyInv, MentionInv
<1>3. ASSUME NEW c \in Name, NEW u \in BOOLEAN, TrackColumnAdd(c, u) PROVE ColumnsInv'
  <2>1. PosInv' /\ Cols' = Cols \cup {c} /\ qbOps' \in Seq(Name)
    BY <1>1, <1>3, AppendNumbered, StoreNumbered DEF TrackColumnAdd, Cols
  <2> QED
    BY <1>1, <1>3, <2>1 DEF TrackColumnAdd, ColumnsInv, KeyInv, MentionInv
<1>4. ASSUME NEW c \in Cols, NEW d \in Name, ColumnClone(c, d) PROVE ColumnsInv'
  <2>1. pos[c] + 1 \in 1..ncols + 1
    BY <1>1
  <2>2. PosInv' /\ Cols' = Cols \cup {d} /\ qbOps' \in Seq(Name)
    <3> DEFINE q == Place(Shift(Place(pos, d, ncols + 1), ncols + 1, pos[c] + 1),
                          d, pos[c] + 1)
    <3>1. d \in Name \ DOMAIN pos /\ StoreTable(q)
      BY <1>4 DEF ColumnClone, Cols
    <3>2. Numbered(q, ncols + 1) /\ DOMAIN q = Cols \cup {d}
      BY <1>1, <2>1, <3>1, CloneNumbered DEF Cols
    <3> HIDE DEF q
    <3> QED
      BY <3>1, <3>2, StoreNumbered
  <2> QED
    BY <1>4, <2>2 DEF ColumnClone, ColumnsInv, KeyInv, MentionInv
<1>5. ASSUME NEW c \in Cols, NEW n \in Name, NEW i \in 1..ncols, NEW k \in BOOLEAN,
             ColumnEdit(c, n, i, k)
      PROVE  ColumnsInv'
  <2> DEFINE marked == IF k THEN key \cup {c} ELSE key \ {c}
  <2>1. PosInv' /\ Cols' = (Cols \ {c}) \cup {n} /\ qbOps' \in Seq(Name)
    <3> DEFINE q == Place(Shift(pos, pos[c], i), c, i)
               r == RenamedTo(q, c, n)
    <3>1. Numbered(q, ncols) /\ DOMAIN q = Cols
      BY <1>1, MoveNumbered DEF Cols
    <3>2. n \in (Name \ Cols) \cup {c} /\ StoreTable(r)
      BY <1>5 DEF ColumnEdit
    <3> HIDE DEF q
    <3>3. Numbered(r, ncols) /\ DOMAIN r = (Cols \ {c}) \cup {n}
      BY <3>1, <3>2, RenameNumbered
    <3> HIDE DEF r
    <3> QED
      BY <3>2, <3>3, StoreNumbered
  <2>2. marked # {} /\ marked \subseteq Cols
    <3>1. key # {} /\ key \subseteq Cols
      BY DEF ColumnsInv, KeyInv
    <3>2. CASE ~k /\ c \in key
      <4>1. Cardinality(key) # 1 /\ Cardinality({c}) = 1
        BY <1>5, <3>2, FS_Singleton DEF ColumnEdit
      <4>2. key # {c}
        BY <4>1
      <4> QED
        BY <3>1, <4>2
    <3> QED
      BY <3>1, <3>2
  <2>3. KeyInv'
    <3>1. key' = Rename(marked, c, n) /\ uniq' = Rename(uniq, c, n)
      BY <1>5 DEF ColumnEdit
    <3> QED
      BY <2>1, <2>2, <3>1 DEF Rename, ColumnsInv, KeyInv
  <2>4. \A m : m = None \/ m \in Mention =>
              RenameMention(m, c, n) = None \/ RenameMention(m, c, n) \in Mention
    BY DEF RenameMention, Rename, Mention
  <2>5. MentionInv'
    BY <1>5, <2>1, <2>4 DEF ColumnEdit, ColumnsInv, MentionInv
  <2> QED
    BY <2>1, <2>3, <2>5 DEF ColumnsInv
<1>6. ASSUME NEW c \in Cols, ColumnDelete(c) PROVE ColumnsInv'
  <2>1. PosInv' /\ Cols' = Cols \ {c}
    <3> DEFINE q == Drop(Shift(pos, pos[c], ncols + 1), c)
    <3>1. pos' = q /\ ncols' = ncols - 1 /\ table' = Without(ByPosition(pos), c)
      BY <1>6 DEF ColumnDelete, ColumnsInv, PosInv
    <3>2. /\ Numbered(q, ncols - 1) /\ DOMAIN q = Cols \ {c}
          /\ Without(ByPosition(pos), c) = ByPosition(q)
      BY <1>1, DeleteNumbered DEF Cols
    <3> HIDE DEF q
    <3> QED
      BY <3>1, <3>2 DEF PosInv, Cols
  <2>2. KeyInv'
    <3>1. key \ {c} # {}
      <4>1. ~(c \in key /\ Cardinality(key) = 1) /\ Cardinality({c}) = 1
        BY <1>6, FS_Singleton DEF ColumnDelete
      <4>2. key # {} /\ key # {c}
        BY <4>1 DEF ColumnsInv, KeyInv
      <4> QED
        BY <4>2
    <3> QED
      BY <1>6, <2>1, <3>1 DEF ColumnDelete, ColumnsInv, KeyInv
  <2>3. \A m : m = None \/ m \in Mention =>
              /\ Unlink(m, c) = None \/ Unlink(m, c) \in Mention
              /\ UnlinkOrDrop(m, c) = None \/ UnlinkOrDrop(m, c) \in Mention
    BY DEF Unlink, UnlinkOrDrop, Mention
  <2>4. MentionInv'
    BY <1>6, <2>3 DEF ColumnDelete, ColumnsInv, MentionInv
  <2> QED
    BY <2>1, <2>2, <2>4 DEF ColumnsInv
<1>7. ASSUME NEW c \in Cols, NEW i \in 1..ncols, MoveTo(c, i) PROVE ColumnsInv'
  <2>1. PosInv' /\ Cols' = Cols /\ qbOps' \in Seq(Name)
    BY <1>1, <1>7, MoveNumbered, StoreNumbered DEF MoveTo, Cols
  <2> QED
    BY <1>7, <2>1 DEF MoveTo, ColumnsInv, KeyInv, MentionInv
<1>8. ASSUME NEW c \in Cols,
             \/ ColumnMovePrev(c) \/ ColumnMoveNext(c)
             \/ ColumnMoveTop(c) \/ ColumnMoveBottom(c)
      PROVE  \E i \in 1..ncols : MoveTo(c, i)
  <2>1. pos[c] > 1 => pos[c] - 1 \in 1..ncols /\ 1 \in 1..ncols
    BY <1>1
  <2>2. pos[c] < ncols => pos[c] + 1 \in 1..ncols /\ ncols \in 1..ncols
    BY <1>1
  <2> QED
    BY <1>8, <2>1, <2>2
       DEF ColumnMovePrev, ColumnMoveNext, ColumnMoveTop, ColumnMoveBottom
<1> QED
  BY <1>2, <1>3, <1>4, <1>5, <1>6, <1>7, <1>8 DEF ColumnStep, ColumnAdd, FormulaColumnAdd

\* Conditions and views change nothing of the columns.
LEMMA MentionStepInv == ASSUME ColumnsInv, MentionStep PROVE ColumnsInv'
<1>1. UNCHANGED <<pos, key, ncols, table, uniq, qbOps>>
  BY DEF MentionStep, SaveCondition, DeleteCondition, CloneCondition,
         SaveView, DeleteView, CloneView
<1>2. Cols \subseteq Name /\ Offered \subseteq Name
  BY DEF ColumnsInv, PosInv, MentionInv, Numbered, Cols, Offered, Range
<1>3. MentionInv'
  <2>1. ASSUME NEW f \in Cond, NEW g \in Cond, NEW formula \in SUBSET Offered,
               \/ SaveCondition(f, formula) \/ DeleteCondition(f)
               \/ CloneCondition(f, g)
        PROVE  MentionInv'
    BY <1>1, <1>2, <2>1
       DEF SaveCondition, DeleteCondition, CloneCondition, ColumnsInv, MentionInv, Mention
  <2>2. ASSUME NEW v \in View, NEW w \in View,
               NEW formula \in SUBSET Offered, NEW shown \in SUBSET Cols,
               SaveView(v, formula, shown) \/ DeleteView(v) \/ CloneView(v, w)
        PROVE  MentionInv'
    BY <1>1, <1>2, <2>2
       DEF SaveView, DeleteView, CloneView, ColumnsInv, MentionInv, Mention
  <2> QED
    BY <2>1, <2>2 DEF MentionStep
<1> QED
  BY <1>1, <1>3 DEF ColumnsInv, PosInv, KeyInv, Cols

\* The inductive invariant holds in every reachable state: numbered positions,
\* a table in their order, and a key whenever there is a table.
THEOREM ColumnsInvariant == Spec => []ColumnsInv
<1>1. ColumnsInv /\ UNCHANGED vars => ColumnsInv'
  BY DEF vars, ColumnsInv, PosInv, KeyInv, MentionInv, Cols
<1>2. ColumnsInv /\ [Next]_vars => ColumnsInv'
  BY <1>1, DataStepInv, ColumnStepInv, MentionStepInv DEF Next
<1> QED
  BY <1>2, InitInv, PTL DEF Spec

-----------------------------------------------------------------------------
(* What the invariant gives. *)

\* Every variable keeps its type.
THEOREM ColumnsTypeCorrect == Spec => []TypeOK
<1>1. ColumnsInv => TypeOK
  <2> SUFFICES ASSUME ColumnsInv PROVE TypeOK
    OBVIOUS
  <2>1. pos \in [Cols -> Nat] /\ Cols \subseteq Name /\ ncols \in Nat
    BY DEF ColumnsInv, PosInv, Numbered, Cols
  <2> QED
    BY <2>1, TableColumns DEF ColumnsInv, KeyInv, MentionInv, TypeOK
<1> QED
  BY <1>1, ColumnsInvariant, PTL

\* The positions of the columns are 1 to ncols, each taken once.
THEOREM PositionsStayConsecutive == Spec => []PositionsConsecutive
<1>1. ColumnsInv => PositionsConsecutive
  <2> SUFFICES ASSUME ColumnsInv PROVE PositionsConsecutive
    OBVIOUS
  <2>1. Cardinality(Cols) = ncols
    BY TableColumns DEF ColumnsInv
  <2>2. Range(pos) = 1..ncols
    BY DEF ColumnsInv, PosInv, Numbered, Range
  <2> QED
    BY <2>1, <2>2 DEF PositionsConsecutive
<1> QED
  BY <1>1, ColumnsInvariant, PTL

\* The data table has the columns of the workflow in the order of their
\* positions (check_wf_df).
THEOREM TableStaysMatched == Spec => []TableMatchesColumns
<1>1. ColumnsInv => TableMatchesColumns
  BY TableColumns DEF ColumnsInv, PosInv, TableMatchesColumns
<1> QED
  BY <1>1, ColumnsInvariant, PTL

\* A workflow with data always has a key column.
THEOREM KeyAlwaysThere == Spec => []HasKey
<1>1. ColumnsInv => HasKey
  BY TableColumns DEF ColumnsInv, KeyInv, HasKey
<1> QED
  BY <1>1, ColumnsInvariant, PTL

-----------------------------------------------------------------------------
(* What mentions the columns. *)

\* Only a rename, a deletion and a flush make a column name disappear.
LEMMA NamesStay ==
  ASSUME ColumnsInv, [Next]_vars,
         ~Flush, ~\E c \in Cols : ColumnDelete(c),
         ~\E c \in Cols, n \in Name, i \in 1..ncols, k \in BOOLEAN : ColumnEdit(c, n, i, k)
  PROVE Cols \subseteq Cols'
<1>1. CASE UNCHANGED vars \/ MentionStep
  BY <1>1 DEF vars, MentionStep, SaveCondition, DeleteCondition, CloneCondition,
     SaveView, DeleteView, CloneView, Cols
<1>2. CASE DataStep
  BY <1>2 DEF DataStep, Upload, MergeAccepted, MergeRejected, RowCreate, RowUpdate,
     RowDelete, StoreTable, Extend, Cols
<1>3. CASE ColumnStep
  <2>1. ASSUME NEW c \in Name, NEW i, NEW u, Insert(c, i, u) PROVE Cols \subseteq Cols'
    BY <2>1 DEF Insert, StoreTable, Place, Shift, Cols
  <2>2. ASSUME NEW c \in Name, NEW u, TrackColumnAdd(c, u) PROVE Cols \subseteq Cols'
    BY <2>2 DEF TrackColumnAdd, StoreTable, Place, Cols
  <2>3. ASSUME NEW c \in Cols, NEW d \in Name, ColumnClone(c, d) PROVE Cols \subseteq Cols'
    BY <2>3 DEF ColumnClone, StoreTable, Place, Shift, Cols
  <2>4. ASSUME NEW c \in Cols, NEW i, MoveTo(c, i) PROVE Cols \subseteq Cols'
    BY <2>4 DEF MoveTo, StoreTable, Place, Shift, Cols
  <2> QED
    BY <1>3, <2>1, <2>2, <2>3, <2>4
       DEF ColumnStep, ColumnAdd, FormulaColumnAdd, ColumnMovePrev, ColumnMoveNext,
           ColumnMoveTop, ColumnMoveBottom
<1> QED
  BY <1>1, <1>2, <1>3 DEF Next

\* No condition mentions a column name that has just disappeared.
THEOREM NoMentionOfTheDeparted == Spec => NoMentionLeft
<1> DEFINE Clean == \A c \in Cols \ Cols', f \in Cond :
                       conds'[f] # None => c \notin conds'[f].vars
<1>1. ASSUME ColumnsInv, [Next]_vars PROVE Clean
  <2> USE <1>1
  <2>1. CASE Flush
    BY <2>1 DEF Flush
  <2>2. CASE \E c \in Cols : ColumnDelete(c)
    <3>1. PICK c \in Cols : ColumnDelete(c)
      BY <2>2
    <3>2. Cols \ Cols' \subseteq {c}
      BY <3>1 DEF ColumnDelete, Drop, Shift, Cols
    <3>3. ASSUME NEW f \in Cond, conds'[f] # None PROVE c \notin conds'[f].vars
      <4>1. f \notin Doomed(c) /\ conds'[f] = Unlink(conds[f], c)
        BY <3>1, <3>3 DEF ColumnDelete
      <4>2. conds[f] # None /\ conds[f] \in Mention /\ conds'[f].vars = conds[f].vars
        BY <3>3, <4>1 DEF Unlink, ColumnsInv, MentionInv, Mention
      <4> QED
        BY <4>1, <4>2 DEF Doomed
    <3> QED
      BY <3>2, <3>3
  <2>3. CASE \E c \in Cols, n \in Name, i \in 1..ncols, k \in BOOLEAN : ColumnEdit(c, n, i, k)
    <3>1. PICK c \in Cols, n \in Name, i \in 1..ncols, k \in BOOLEAN : ColumnEdit(c, n, i, k)
      BY <2>3
    <3>2. Cols \ Cols' \subseteq {c} \ {n}
      BY <3>1 DEF ColumnEdit, StoreTable, RenamedTo, Place, Shift, Cols
    <3>3. ASSUME NEW f \in Cond, conds'[f] # None, c # n PROVE c \notin conds'[f].vars
      <4>1. conds'[f] = RenameMention(conds[f], c, n)
        BY <3>1 DEF ColumnEdit
      <4>2. conds'[f].vars = Rename(conds[f].vars, c, n)
        BY <3>3, <4>1 DEF RenameMention
      <4> QED
        BY <3>3, <4>2 DEF Rename
    <3> QED
      BY <3>2, <3>3
  <2> QED
    BY <2>1, <2>2, <2>3, NamesStay
<1>2. ColumnsInv /\ [Next]_vars => [Clean]_vars
  BY <1>1
<1>3. Spec => [][Clean]_vars
  BY <1>2, ColumnsInvariant, PTL DEF Spec
<1> QED
  BY <1>3, PTL DEF NoMentionLeft

\* Every view shows at least one column.
THEOREM ViewsNeverEmpty == Spec => []ViewsShowColumns
<1>1. Init => ViewsShowColumns
  BY DEF Init, ViewsShowColumns
<1>2. ASSUME ColumnsInv, ViewsShowColumns, [Next]_vars PROVE ViewsShowColumns'
  <2> USE <1>2
  <2>1. CASE UNCHANGED views
    BY <2>1 DEF ViewsShowColumns
  <2>2. CASE Flush
    BY <2>2 DEF Flush, ViewsShowColumns
  <2>3. CASE \E c \in Cols : ColumnDelete(c)
    <3>1. PICK c \in Cols : ColumnDelete(c)
      BY <2>3
    <3>2. ASSUME NEW v \in View, views'[v] # None PROVE views'[v].cols # {}
      <4>1. views'[v] = UnlinkOrDrop(views[v], c)
        BY <3>1 DEF ColumnDelete
      <4>2. views[v] # None /\ ~(views[v].cols \subseteq {c}) /\ views'[v] = Unlink(views[v], c)
        BY <3>2, <4>1 DEF UnlinkOrDrop
      <4>3. views'[v].cols = views[v].cols \ {c}
        BY <4>2 DEF Unlink, ColumnsInv, MentionInv, Mention
      <4> QED
        BY <4>2, <4>3
    <3> QED
      BY <3>2 DEF ViewsShowColumns
  <2>4. CASE \E c \in Cols, n \in Name, i \in 1..ncols, k \in BOOLEAN : ColumnEdit(c, n, i, k)
    <3>1. PICK c \in Cols, n \in Name : views' = [v \in View |-> RenameMention(views[v], c, n)]
      BY <2>4 DEF ColumnEdit
    <3>2. ASSUME NEW v \in View, views'[v] # None PROVE views'[v].cols # {}
      <4>1. views[v] # None /\ views'[v].cols = Rename(views[v].cols, c, n)
        BY <3>1, <3>2 DEF RenameMention
      <4> QED
        BY <4>1 DEF Rename, ViewsShowColumns
    <3> QED
      BY <3>2 DEF ViewsShowColumns
  <2>5. CASE MentionStep
    <3>1. ASSUME NEW v \in View, NEW formula, NEW shown, SaveView(v, formula, shown)
          PROVE ViewsShowColumns'
      BY <3>1 DEF SaveView, ViewsShowColumns, ColumnsInv, MentionInv
    <3>2. ASSUME NEW v \in View, NEW w \in View, DeleteView(v) \/ CloneView(v, w)
          PROVE ViewsShowColumns'
      BY <3>2 DEF DeleteView, CloneView, ViewsShowColumns, ColumnsInv, MentionInv
    <3> QED
      BY <2>1, <2>5, <3>1, <3>2
         DEF MentionStep, SaveCondition, DeleteCondition, CloneCondition
  <2>6. CASE UNCHANGED vars
    BY <2>1, <2>6 DEF vars
  <2>7. CASE DataStep
    BY <2>1, <2>2, <2>7 DEF DataStep, Upload, MergeAccepted, MergeRejected, RowCreate,
       RowUpdate, RowDelete, others
  <2>8. CASE ColumnStep
    BY <2>1, <2>3, <2>4, <2>8
       DEF ColumnStep, ColumnAdd, FormulaColumnAdd, Insert, TrackColumnAdd, ColumnClone,
           ColumnMovePrev, ColumnMoveNext, ColumnMoveTop, ColumnMoveBottom, MoveTo, others
  <2> QED
    BY <2>5, <2>6, <2>7, <2>8 DEF Next
<1>3. ColumnsInv /\ ViewsShowColumns /\ [Next]_vars => ViewsShowColumns'
  BY <1>2
<1> QED
  BY <1>1, <1>3, ColumnsInvariant, PTL DEF Spec

-----------------------------------------------------------------------------
(* Lists of columns. *)

\* A list that has each column at its position is the one ORDER BY gives.
LEMMA ListedOnce ==
  ASSUME NEW q, NEW m, Numbered(q, m), NEW t \in [1..m -> DOMAIN q],
         \A k \in 1..m : q[t[k]] = k
  PROVE  t = ByPosition(q)
<1> DEFINE b == ByPosition(q)
<1>1. /\ b \in [1..m -> DOMAIN q]
      /\ \A k \in 1..m : q[b[k]] = k
  BY ByPositionNumbered
<1> HIDE DEF b
<1>2. \A k \in 1..m : t[k] = b[k]
  BY <1>1 DEF Numbered
<1>3. t = [k \in 1..m |-> t[k]] /\ b = [k \in 1..m |-> b[k]]
  BY <1>1
<1>4. t = b
  BY <1>2, <1>3
<1> QED
  BY <1>4 DEF b

\* InsertAt and RemoveAt by elements.
LEMMA InsertAtElements ==
  ASSUME NEW S, NEW s \in Seq(S), NEW n, n = Len(s), NEW i \in 1..n + 1, NEW c \in S
  PROVE  /\ Ordered!InsertAt(s, i, c) \in Seq(S)
         /\ Len(Ordered!InsertAt(s, i, c)) = n + 1
         /\ \A k \in 1..n + 1 : Ordered!InsertAt(s, i, c)[k] =
               IF k < i THEN s[k] ELSE IF k = i THEN c ELSE s[k - 1]
<1>1. n \in Nat /\ s \in [1..n -> S]
  OBVIOUS
<1> DEFINE a == SubSeq(s, 1, i - 1)
           b == SubSeq(s, i, n)
           d == a \o <<c>>
           t == d \o b
<1>2. /\ a \in Seq(S) /\ Len(a) = i - 1
      /\ \A k \in 1..i - 1 : a[k] = s[k]
  BY <1>1, SubSeqProperties
<1>3. /\ b \in Seq(S) /\ Len(b) = n - i + 1
      /\ \A k \in 1..n - i + 1 : b[k] = s[i + k - 1]
  BY <1>1, SubSeqProperties
<1>4. Ordered!InsertAt(s, i, c) = t
  BY <1>1 DEF Ordered!InsertAt
<1> HIDE DEF a, b
<1>5. <<c>> \in Seq(S) /\ Len(<<c>>) = 1 /\ <<c>>[1] = c
  OBVIOUS
<1>6. /\ d \in Seq(S) /\ Len(d) = i
      /\ \A k \in 1..i : d[k] = IF k < i THEN a[k] ELSE c
  BY <1>2, <1>5, ConcatProperties
<1> HIDE DEF d
<1>7. /\ t \in Seq(S) /\ Len(t) = n + 1
      /\ \A k \in 1..n + 1 : t[k] = IF k <= i THEN d[k] ELSE b[k - i]
  <2>1. /\ t \in Seq(S) /\ Len(t) = Len(d) + Len(b)
        /\ \A k \in 1..Len(d) + Len(b) : t[k] = IF k <= Len(d) THEN d[k] ELSE b[k - Len(d)]
    BY <1>3, <1>6, ConcatProperties
  <2> HIDE DEF t
  <2>2. Len(d) + Len(b) = n + 1 /\ Len(d) = i
    BY <1>3, <1>6
  <2> QED
    BY <2>1, <2>2
<1> HIDE DEF t
<1>8. ASSUME NEW k \in 1..n + 1
      PROVE t[k] = IF k < i THEN s[k] ELSE IF k = i THEN c ELSE s[k - 1]
  <2>1. CASE k <= i
    BY <1>2, <1>6, <1>7, <2>1
  <2>2. CASE k > i
    <3> DEFINE j == k - i
    <3>1. j \in 1..n - i + 1 /\ i + j - 1 = k - 1 /\ t[k] = b[j]
      BY <1>7, <2>2
    <3> HIDE DEF j
    <3>2. t[k] = s[k - 1]
      BY <1>3, <3>1
    <3> QED
      BY <2>2, <3>2
  <2> QED
    BY <2>1, <2>2
<1> QED
  BY <1>4, <1>7, <1>8

LEMMA RemoveAtElements ==
  ASSUME NEW S, NEW s \in Seq(S), NEW i \in 1..Len(s)
  PROVE  /\ Ordered!RemoveAt(s, i) \in Seq(S)
         /\ Len(Ordered!RemoveAt(s, i)) = Len(s) - 1
         /\ \A k \in 1..Len(s) - 1 : Ordered!RemoveAt(s, i)[k] =
               IF k < i THEN s[k] ELSE s[k + 1]
<1> DEFINE n == Len(s)
<1>1. n \in Nat /\ n = Len(s) /\ i \in 1..n /\ s \in [1..n -> S]
  OBVIOUS
<1> HIDE DEF n
<1> DEFINE a == SubSeq(s, 1, i - 1)
           b == SubSeq(s, i + 1, n)
           t == a \o b
<1>2. /\ a \in Seq(S) /\ Len(a) = i - 1
      /\ \A k \in 1..i - 1 : a[k] = s[k]
  BY <1>1, SubSeqProperties
<1>3. /\ b \in Seq(S) /\ Len(b) = n - i
      /\ \A k \in 1..n - i : b[k] = s[i + k]
  <2> DEFINE l == i + 1
  <2>1. l \in Int /\ n \in Int /\ \A k \in l..n : s[k] \in S
    BY <1>1
  <2> HIDE DEF l
  <2>2. /\ SubSeq(s, l, n) \in Seq(S)
        /\ Len(SubSeq(s, l, n)) = IF l <= n THEN n - l + 1 ELSE 0
        /\ \A k \in 1..n - l + 1 : SubSeq(s, l, n)[k] = s[l + k - 1]
    BY <2>1, SubSeqProperties
  <2>3. /\ l = i + 1 /\ b = SubSeq(s, l, n)
        /\ n - l + 1 = n - i /\ \A k \in 1..n - i : l + k - 1 = i + k
    BY <1>1 DEF l
  <2> HIDE DEF b
  <2>4. b \in Seq(S) /\ Len(b) = n - i
    <3>1. l <= n \/ n - i = 0
      <4>1. n \in Nat /\ i \in 1..n /\ l = i + 1
        BY <1>1, <2>3
      <4> HIDE DEF l
      <4> QED
        BY ONLY <4>1
    <3>2. l <= n \/ Len(b) = 0
      BY <2>1, <2>2, <2>3
    <3> QED
      BY <2>2, <2>3, <3>1, <3>2
  <2>5. ASSUME NEW k \in 1..n - i PROVE b[k] = s[i + k]
    BY <2>2, <2>3
  <2> QED
    BY <2>4, <2>5
<1>4. Ordered!RemoveAt(s, i) = t
  BY <1>1 DEF Ordered!RemoveAt
<1> HIDE DEF a, b
<1>5. /\ t \in Seq(S) /\ Len(t) = n - 1
      /\ \A k \in 1..n - 1 : t[k] = IF k <= i - 1 THEN a[k] ELSE b[k - (i - 1)]
  <2>1. /\ t \in Seq(S) /\ Len(t) = Len(a) + Len(b)
        /\ \A k \in 1..Len(a) + Len(b) : t[k] = IF k <= Len(a) THEN a[k] ELSE b[k - Len(a)]
    BY <1>1, <1>2, <1>3, ConcatProperties
  <2> HIDE DEF t
  <2>2. Len(a) + Len(b) = n - 1 /\ Len(a) = i - 1
    BY <1>1, <1>2, <1>3
  <2> QED
    BY <2>1, <2>2
<1> HIDE DEF t
<1>6. ASSUME NEW k \in 1..n - 1 PROVE t[k] = IF k < i THEN s[k] ELSE s[k + 1]
  <2>1. CASE k < i
    BY <1>1, <1>2, <1>5, <2>1
  <2>2. CASE k >= i
    <3> DEFINE j == k - (i - 1)
    <3>1. t[k] = b[j]
      BY <1>1, <1>5, <2>2
    <3>2. j \in 1..n - i /\ i + j = k + 1
      BY <1>1, <2>2
    <3> HIDE DEF j
    <3>3. t[k] = s[k + 1]
      BY <1>3, <3>1, <3>2
    <3> QED
      BY <2>2, <3>3
  <2> QED
    BY <2>1, <2>2
<1> QED
  BY <1>1, <1>4, <1>5, <1>6

-----------------------------------------------------------------------------
(* Positions after an insertion, a deletion, a move and an extension. *)

LEMMA InsertOrder ==
  ASSUME NEW p, NEW n, Numbered(p, n), NEW c, c \notin DOMAIN p,
         NEW m, m = n + 1, NEW i \in 1..m, NEW q, Numbered(q, m), DOMAIN q = DOMAIN p \cup {c}, q[c] = i,
         \A d \in DOMAIN p : q[d] = IF p[d] >= i THEN p[d] + 1 ELSE p[d]
  PROVE  ByPosition(q) = Ordered!InsertAt(ByPosition(p), i, c)
<1> DEFINE s == ByPosition(p)
           D == DOMAIN q
           t == Ordered!InsertAt(s, i, c)
<1>1. /\ n \in Nat /\ s \in [1..n -> DOMAIN p]
      /\ \A k \in 1..n : p[s[k]] = k
  BY ByPositionNumbered DEF Numbered
<1> HIDE DEF s
<1>2. /\ \A k \in 1..n : s[k] \in DOMAIN p /\ p[s[k]] = k
      /\ s \in Seq(D) /\ Len(s) = n /\ c \in D
  BY <1>1
<1> HIDE DEF D
<1>3. /\ t \in [1..m -> D]
      /\ \A k \in 1..m : t[k] = IF k < i THEN s[k] ELSE IF k = i THEN c ELSE s[k - 1]
  <2>1. /\ t \in Seq(D) /\ Len(t) = n + 1
        /\ \A k \in 1..n + 1 : t[k] = IF k < i THEN s[k] ELSE IF k = i THEN c ELSE s[k - 1]
    BY <1>2, InsertAtElements
  <2> HIDE DEF t
  <2> QED
    BY <2>1
<1> HIDE DEF t
<1>4. ASSUME NEW k \in 1..m PROVE q[t[k]] = k
  <2>1. CASE k < i
    BY <1>1, <1>2, <1>3, <2>1
  <2>2. CASE k = i
    BY <1>3, <2>2
  <2>3. CASE k > i
    <3> DEFINE j == k - 1
    <3>1. j \in 1..n /\ j >= i /\ j + 1 = k /\ t[k] = s[j]
      BY <1>1, <1>3, <2>3
    <3> HIDE DEF j
    <3> QED
      BY <1>2, <3>1
  <2> QED
    BY <1>1, <2>1, <2>2, <2>3
<1>5. t = ByPosition(q)
  BY <1>3, <1>4, ListedOnce DEF D
<1> QED
  BY <1>5 DEF t, s

LEMMA DeleteOrder ==
  ASSUME NEW p, NEW n, Numbered(p, n), NEW c \in DOMAIN p,
         NEW m, m = n - 1, NEW q, Numbered(q, m), DOMAIN q = DOMAIN p \ {c},
         \A d \in DOMAIN q : q[d] = IF p[d] > p[c] THEN p[d] - 1 ELSE p[d]
  PROVE  ByPosition(q) = Ordered!RemoveAt(ByPosition(p), p[c])
<1> DEFINE s == ByPosition(p)
           D == DOMAIN p
           i == p[c]
           t == Ordered!RemoveAt(s, i)
<1>1. /\ n \in Nat /\ s \in [1..n -> DOMAIN p] /\ i \in 1..n
      /\ \A k \in 1..n : p[s[k]] = k
  BY ByPositionNumbered DEF Numbered
<1> HIDE DEF s
<1>2. /\ \A k \in 1..n : s[k] \in DOMAIN p /\ p[s[k]] = k
      /\ s \in Seq(D) /\ Len(s) = n
  BY <1>1
<1> HIDE DEF D, i
<1>3. /\ t \in [1..m -> D]
      /\ \A k \in 1..m : t[k] = IF k < i THEN s[k] ELSE s[k + 1]
  <2>1. /\ t \in Seq(D) /\ Len(t) = n - 1
        /\ \A k \in 1..n - 1 : t[k] = IF k < i THEN s[k] ELSE s[k + 1]
    BY <1>1, <1>2, RemoveAtElements
  <2> HIDE DEF t
  <2> QED
    BY <2>1
<1> HIDE DEF t
<1>4. ASSUME NEW k \in 1..m PROVE t[k] \in DOMAIN q /\ q[t[k]] = k
  <2> USE DEF D, i
  <2>1. CASE k < i
    <3>1. t[k] \in D /\ p[t[k]] = k
      BY <1>1, <1>2, <1>3, <2>1
    <3> QED
      BY <1>1, <2>1, <3>1
  <2>2. CASE k >= i
    <3> DEFINE j == k + 1
    <3>1. j \in 1..n /\ j > i /\ j - 1 = k /\ t[k] = s[j]
      BY <1>1, <1>3, <2>2
    <3> HIDE DEF j
    <3>2. t[k] \in D /\ p[t[k]] = j
      BY <1>2, <3>1
    <3> QED
      BY <1>1, <3>1, <3>2
  <2> QED
    BY <1>1, <2>1, <2>2
<1>5. t \in [1..m -> DOMAIN q]
  BY <1>3, <1>4
<1>6. t = ByPosition(q)
  BY <1>4, <1>5, ListedOnce
<1> QED
  BY <1>6 DEF t, s, i

\* A move is a deletion and an insertion, under the same name or another.
LEMMA RelocateOrder ==
  ASSUME NEW p, NEW n, Numbered(p, n), NEW c \in DOMAIN p, NEW i \in 1..n,
         NEW e, e \notin DOMAIN p \ {c},
         NEW q, Numbered(q, n), DOMAIN q = (DOMAIN p \ {c}) \cup {e}, q[e] = i,
         \A d \in DOMAIN p \ {c} : q[d] = Shift(p, p[c], i)[d]
  PROVE  ByPosition(q) = Ordered!InsertAt(Ordered!RemoveAt(ByPosition(p), p[c]), i, e)
<1> DEFINE r == Drop(Shift(p, p[c], n + 1), c)
<1>1. /\ n \in Nat /\ n - 1 + 1 = n
      /\ \A d \in DOMAIN p : p[d] \in 1..n /\ (d # c => p[d] # p[c])
  BY DEF Numbered
<1>2. Numbered(r, n - 1) /\ DOMAIN r = DOMAIN p \ {c}
  BY DeleteNumbered
<1>3. \A d \in DOMAIN p \ {c} : r[d] = IF p[d] > p[c] THEN p[d] - 1 ELSE p[d]
  BY <1>1 DEF Drop, Shift
<1>4. \A d \in DOMAIN p \ {c} :
        q[d] = IF p[c] < p[d] /\ p[d] <= i THEN p[d] - 1
               ELSE IF i <= p[d] /\ p[d] < p[c] THEN p[d] + 1 ELSE p[d]
  BY DEF Shift
<1> HIDE DEF r
<1>5. \A d \in DOMAIN r : q[d] = IF r[d] >= i THEN r[d] + 1 ELSE r[d]
  BY <1>1, <1>2, <1>3, <1>4
<1>6. ByPosition(r) = Ordered!RemoveAt(ByPosition(p), p[c])
  BY <1>2, <1>3, DeleteOrder
<1>7. ByPosition(q) = Ordered!InsertAt(ByPosition(r), i, e)
  <2> DEFINE m == n - 1
  <2>1. Numbered(r, m) /\ n = m + 1
    BY <1>1, <1>2
  <2> HIDE DEF m
  <2> QED
    BY <1>2, <1>5, <2>1, InsertOrder
<1> QED
  BY <1>6, <1>7

-----------------------------------------------------------------------------
(* Each operation, as a step of the list. *)

\* A column at the end, and what the list is made of.
LEMMA ListOf ==
  ASSUME NEW p, NEW n, Numbered(p, n)
  PROVE  /\ ByPosition(p) \in Seq(Name) /\ Len(ByPosition(p)) = n
         /\ DOMAIN ByPosition(p) = 1..n
         /\ Ordered!Range(ByPosition(p)) = DOMAIN p
         /\ Ordered!IsInjective(ByPosition(p))
<1> DEFINE s == ByPosition(p)
<1>1. /\ n \in Nat /\ DOMAIN p \subseteq Name /\ s \in [1..n -> DOMAIN p]
      /\ \A k \in 1..n : p[s[k]] = k
      /\ \A c \in DOMAIN p : p[c] \in 1..n /\ s[p[c]] = c
  BY ByPositionNumbered DEF Numbered
<1> HIDE DEF s
<1>2. s \in Seq(Name) /\ Len(s) = n /\ DOMAIN s = 1..n
  BY <1>1
<1>3. Ordered!Range(s) = DOMAIN p
  <2>1. \A k \in 1..n : s[k] \in DOMAIN p
    BY <1>1
  <2>2. \A c \in DOMAIN p : \E k \in 1..n : s[k] = c
    BY <1>1
  <2>3. Ordered!Range(s) = {s[k] : k \in 1..n}
    BY <1>2 DEF Ordered!Range
  <2> QED
    BY ONLY <2>1, <2>2, <2>3
<1>4. Ordered!IsInjective(s)
  BY <1>1 DEF Ordered!IsInjective
<1> QED
  BY <1>2, <1>3, <1>4 DEF s

\* The first step of every argument below.
LEMMA Listed ==
  ASSUME ColumnsInv
  PROVE  /\ Numbered(pos, ncols) /\ ncols \in Nat
         /\ Len(ByPosition(pos)) = ncols /\ DOMAIN ByPosition(pos) = 1..ncols
         /\ Ordered!Unused = Name \ Cols
         /\ \A c \in Cols : pos[c] \in 1..ncols /\ ByPosition(pos)[pos[c]] = c
<1>1. Numbered(pos, ncols)
  BY DEF ColumnsInv, PosInv
<1> QED
  BY <1>1, ListOf, ByPositionNumbered DEF Numbered, Ordered!Unused, Cols

LEMMA InsertAdds ==
  ASSUME ColumnsInv, NEW c \in Name, NEW i \in 1..ncols + 1, NEW u \in BOOLEAN,
         Insert(c, i, u)
  PROVE  Ordered!Add(c, i)
<1> DEFINE q == Place(Shift(pos, ncols + 1, i), c, i)
<1>1. c \in Name \ DOMAIN pos /\ pos' = q
  BY DEF Insert, StoreTable, Cols
<1>2. Numbered(pos, ncols) /\ ncols \in Nat /\ \A d \in DOMAIN pos : pos[d] \in 1..ncols
  BY Listed DEF Cols
<1>3. Numbered(q, ncols + 1) /\ DOMAIN q = DOMAIN pos \cup {c}
  BY <1>1, <1>2, InsertNumbered
<1>4. /\ q[c] = i
      /\ \A d \in DOMAIN pos : q[d] = IF pos[d] >= i THEN pos[d] + 1 ELSE pos[d]
  BY <1>1, <1>2 DEF Place, Shift
<1> HIDE DEF q
<1>5. ByPosition(q) = Ordered!InsertAt(ByPosition(pos), i, c)
  <2> DEFINE m == ncols + 1
  <2>1. m = ncols + 1 /\ i \in 1..m /\ Numbered(q, m) /\ c \notin DOMAIN pos
    BY <1>1, <1>3
  <2> HIDE DEF m
  <2> QED
    BY <1>2, <1>3, <1>4, <2>1, InsertOrder
<1>6. c \in Ordered!Unused
  BY <1>1, Listed DEF Cols
<1> QED
  BY <1>1, <1>5, <1>6 DEF Ordered!Add

LEMMA TrackAdds ==
  ASSUME ColumnsInv, NEW c \in Name, NEW u \in BOOLEAN, TrackColumnAdd(c, u)
  PROVE  Ordered!Add(c, ncols + 1)
<1> DEFINE q == Place(pos, c, ncols + 1)
<1>1. c \in Name \ DOMAIN pos /\ pos' = q
  BY DEF TrackColumnAdd, StoreTable, Cols
<1>2. Numbered(pos, ncols) /\ ncols \in Nat /\ \A d \in DOMAIN pos : pos[d] \in 1..ncols
  BY Listed DEF Cols
<1>3. Numbered(q, ncols + 1) /\ DOMAIN q = DOMAIN pos \cup {c}
  BY <1>1, <1>2, AppendNumbered
<1>4. /\ q[c] = ncols + 1 /\ ncols + 1 \in 1..ncols + 1
      /\ \A d \in DOMAIN pos : q[d] = IF pos[d] >= ncols + 1 THEN pos[d] + 1 ELSE pos[d]
  BY <1>1, <1>2 DEF Place
<1> HIDE DEF q
<1>5. ByPosition(q) = Ordered!InsertAt(ByPosition(pos), ncols + 1, c)
  BY <1>1, <1>2, <1>3, <1>4, InsertOrder
<1>6. c \in Ordered!Unused
  BY <1>1, Listed DEF Cols
<1> QED
  BY <1>1, <1>5, <1>6 DEF Ordered!Add

LEMMA CloneAdds ==
  ASSUME ColumnsInv, NEW c \in Cols, NEW d \in Name, ColumnClone(c, d)
  PROVE  pos[c] + 1 \in 1..ncols + 1 /\ Ordered!Add(d, pos[c] + 1)
<1> DEFINE i == pos[c] + 1
           q == Place(Shift(Place(pos, d, ncols + 1), ncols + 1, i), d, i)
<1>1. d \in Name \ DOMAIN pos /\ pos' = q
  BY DEF ColumnClone, StoreTable, Cols
<1>2. /\ Numbered(pos, ncols) /\ ncols \in Nat /\ \A e \in DOMAIN pos : pos[e] \in 1..ncols
      /\ i \in 1..ncols + 1
  BY Listed DEF Cols
<1> HIDE DEF i
<1>3. Numbered(q, ncols + 1) /\ DOMAIN q = DOMAIN pos \cup {d}
  <2>1. ASSUME NEW n, n = ncols
        PROVE  /\ Numbered(Place(Shift(Place(pos, d, n + 1), n + 1, i), d, i), n + 1)
               /\ DOMAIN Place(Shift(Place(pos, d, n + 1), n + 1, i), d, i) = DOMAIN pos \cup {d}
    BY <1>1, <1>2, <2>1, CloneNumbered
  <2> QED
    BY <2>1
<1>4. /\ q[d] = i
      /\ \A e \in DOMAIN pos : q[e] = IF pos[e] >= i THEN pos[e] + 1 ELSE pos[e]
  BY <1>1, <1>2 DEF Place, Shift
<1> HIDE DEF q
<1>5. ByPosition(q) = Ordered!InsertAt(ByPosition(pos), i, d)
  BY <1>1, <1>2, <1>3, <1>4, InsertOrder
<1>6. d \in Ordered!Unused
  BY <1>1, Listed DEF Cols
<1> QED
  BY <1>1, <1>2, <1>5, <1>6 DEF Ordered!Add, i

LEMMA EditRelocates ==
  ASSUME ColumnsInv, NEW c \in Cols, NEW n \in Name, NEW i \in 1..ncols, NEW k \in BOOLEAN,
         ColumnEdit(c, n, i, k)
  PROVE  Ordered!Relocate(pos[c], i, n)
<1> DEFINE m == Place(Shift(pos, pos[c], i), c, i)
           q == RenamedTo(m, c, n)
<1>1. n \in (Name \ Cols) \cup {c} /\ pos' = q
  BY DEF ColumnEdit, StoreTable
<1>2. /\ Numbered(pos, ncols) /\ ncols \in Nat
      /\ ByPosition(pos)[pos[c]] = c
  BY Listed
<1>3. Numbered(m, ncols) /\ DOMAIN m = Cols
  BY <1>2, MoveNumbered DEF Cols
<1>4. m[c] = i /\ \A d \in Cols \ {c} : m[d] = Shift(pos, pos[c], i)[d]
  BY DEF Place, Shift, Cols
<1> HIDE DEF m
<1>5. Numbered(q, ncols) /\ DOMAIN q = (Cols \ {c}) \cup {n}
  BY <1>1, <1>3, RenameNumbered
<1>6. q[n] = i /\ \A d \in Cols \ {c} : q[d] = Shift(pos, pos[c], i)[d]
  BY <1>1, <1>3, <1>4 DEF RenamedTo
<1> HIDE DEF q
<1>7. ByPosition(q) = Ordered!InsertAt(Ordered!RemoveAt(ByPosition(pos), pos[c]), i, n)
  BY <1>1, <1>2, <1>5, <1>6, RelocateOrder DEF Cols
<1>8. n \in Ordered!Unused \cup {ByPosition(pos)[pos[c]]}
  BY <1>1, <1>2, Listed
<1> QED
  BY <1>1, <1>7, <1>8 DEF Ordered!Relocate

LEMMA MoveRelocates ==
  ASSUME ColumnsInv, NEW c \in Cols, NEW i \in 1..ncols, MoveTo(c, i)
  PROVE  Ordered!Relocate(pos[c], i, c)
<1> DEFINE q == Place(Shift(pos, pos[c], i), c, i)
<1>1. pos' = q
  BY DEF MoveTo, StoreTable
<1>2. /\ Numbered(pos, ncols) /\ ncols \in Nat
      /\ ByPosition(pos)[pos[c]] = c
  BY Listed
<1>3. Numbered(q, ncols) /\ DOMAIN q = Cols
  BY <1>2, MoveNumbered DEF Cols
<1>4. q[c] = i /\ \A d \in Cols \ {c} : q[d] = Shift(pos, pos[c], i)[d]
  BY DEF Place, Shift, Cols
<1> HIDE DEF q
<1>5. DOMAIN q = (Cols \ {c}) \cup {c}
  BY <1>3
<1>6. ByPosition(q) = Ordered!InsertAt(Ordered!RemoveAt(ByPosition(pos), pos[c]), i, c)
  <2>1. /\ c \in DOMAIN pos /\ c \notin DOMAIN pos \ {c}
        /\ DOMAIN q = (DOMAIN pos \ {c}) \cup {c}
        /\ \A d \in DOMAIN pos \ {c} : q[d] = Shift(pos, pos[c], i)[d]
    BY <1>4, <1>5 DEF Cols
  <2> QED
    BY <1>2, <1>3, <1>4, <2>1, RelocateOrder
<1> QED
  BY <1>1, <1>2, <1>6 DEF Ordered!Relocate

LEMMA DeleteDeletes ==
  ASSUME ColumnsInv, NEW c \in Cols, ColumnDelete(c)
  PROVE  Ordered!Delete(pos[c])
<1> DEFINE q == Drop(Shift(pos, pos[c], ncols + 1), c)
<1>1. pos' = q
  BY DEF ColumnDelete
<1>2. /\ Numbered(pos, ncols) /\ ncols \in Nat
      /\ \A d \in Cols : pos[d] \in 1..ncols
  BY Listed
<1>3. Numbered(q, ncols - 1) /\ DOMAIN q = Cols \ {c}
  BY <1>2, DeleteNumbered DEF Cols
<1>4. \A d \in DOMAIN q : q[d] = IF pos[d] > pos[c] THEN pos[d] - 1 ELSE pos[d]
  BY <1>2, <1>3 DEF Drop, Shift, Cols
<1> HIDE DEF q
<1>5. ByPosition(q) = Ordered!RemoveAt(ByPosition(pos), pos[c])
  BY <1>2, <1>3, <1>4, DeleteOrder DEF Cols
<1> QED
  BY <1>1, <1>5 DEF Ordered!Delete

\* The columns of a frame go after those that are there.
LEMMA FrameGrows ==
  ASSUME ColumnsInv, NEW s \in FreshSeqs, StoreTable(Extend(pos, s))
  PROVE  Ordered!Grow \/ UNCHANGED ByPosition(pos)
<1> DEFINE o == ByPosition(pos)
           r == ByPosition(pos')
<1>1. PICK S \in SUBSET (Name \ Cols) : s \in Injection(1..Cardinality(S), S)
  BY DEF FreshSeqs
<1> DEFINE m == Cardinality(S)
<1>2. m \in Nat
  BY NameAssumption, FS_Subset, FS_CardinalityType
<1>3. Numbered(pos, ncols) /\ ncols \in Nat /\ pos' = Extend(pos, s)
  BY Listed DEF StoreTable
<1>4. Numbered(pos', ncols + m)
  BY <1>1, <1>2, <1>3, ExtendNumbered DEF Cols
<1>5. \A c \in DOMAIN pos : c \in DOMAIN pos' /\ pos'[c] = pos[c]
  BY <1>3 DEF Extend
<1>6. /\ o \in [1..ncols -> DOMAIN pos] /\ \A k \in 1..ncols : pos[o[k]] = k
      /\ \A c \in DOMAIN pos' : r[pos'[c]] = c
  BY <1>3, <1>4, ByPositionNumbered
<1>7. /\ o \in Seq(Name) /\ Len(o) = ncols
      /\ r \in Seq(Name) /\ Len(r) = ncols + m /\ Ordered!IsInjective(r)
  BY <1>3, <1>4, ListOf
<1> HIDE DEF o, r, m
<1>8. \A k \in 1..ncols : r[k] = o[k]
  BY <1>5, <1>6
<1>9. Ordered!IsPrefix(o, r)
  <2>1. SubSeq(o, 1, ncols) = SubSeq(r, 1, ncols)
    <3>1. /\ SubSeq(o, 1, ncols) \in Seq(Name) /\ Len(SubSeq(o, 1, ncols)) = ncols
          /\ \A k \in 1..ncols : SubSeq(o, 1, ncols)[k] = o[k]
      BY <1>3, <1>7
    <3>2. /\ SubSeq(r, 1, ncols) \in Seq(Name) /\ Len(SubSeq(r, 1, ncols)) = ncols
          /\ \A k \in 1..ncols : SubSeq(r, 1, ncols)[k] = r[k]
      BY <1>2, <1>3, <1>7
    <3> QED
      BY <1>8, <3>1, <3>2, SeqEqual
  <2> QED
    BY <1>2, <1>3, <1>7, <2>1 DEF Ordered!IsPrefix
<1>10. r # o => Ordered!Grow
  BY <1>7, <1>9 DEF Ordered!Grow, Ordered!IsStrictPrefix, o, r
<1> QED
  BY <1>10 DEF o, r

LEMMA DataListed ==
  ASSUME ColumnsInv, DataStep
  PROVE  Ordered!Next \/ UNCHANGED ByPosition(pos)
<1>1. ASSUME NEW s \in FreshSeqs, NEW u, Upload(s, u) \/ MergeAccepted(s, u)
      PROVE  Ordered!Next \/ UNCHANGED ByPosition(pos)
  BY <1>1, FrameGrows DEF Upload, MergeAccepted, Ordered!Next
<1>2. CASE Flush
  <2>1. DOMAIN pos' = {} /\ Cardinality({}) = 0
    BY <1>2, FS_EmptySet DEF Flush
  <2>2. ByPosition(pos') = <<>>
    BY <2>1 DEF ByPosition
  <2> QED
    BY <2>2 DEF Ordered!Next, Ordered!Clear
<1>3. ASSUME NEW u, \/ \E i \in 1..ncols : MergeRejected(u, i)
                    \/ RowCreate(u) \/ RowUpdate(u) \/ RowDelete(u)
      PROVE  UNCHANGED ByPosition(pos)
  BY <1>3 DEF MergeRejected, RowCreate, StoreTable, RowUpdate, RowDelete
<1> QED
  BY <1>1, <1>2, <1>3 DEF DataStep

LEMMA ColumnListed ==
  ASSUME ColumnsInv, ColumnStep
  PROVE  Ordered!Next
<1>1. /\ ncols \in Nat /\ Len(ByPosition(pos)) = ncols /\ DOMAIN ByPosition(pos) = 1..ncols
      /\ \A c \in Cols : c \in Name /\ pos[c] \in 1..ncols
  BY Listed DEF Numbered, Cols
<1>2. ASSUME NEW c \in Name, NEW i \in 1..ncols + 1, Ordered!Add(c, i) PROVE Ordered!Next
  BY <1>1, <1>2 DEF Ordered!Next
<1>3. ASSUME NEW c \in Name, NEW i \in 1..ncols, NEW j \in 1..ncols, Ordered!Relocate(i, j, c)
      PROVE  Ordered!Next
  BY <1>1, <1>3 DEF Ordered!Next
<1>4. ASSUME NEW c \in Name, NEW i \in 1..ncols + 1, NEW u \in BOOLEAN,
             ColumnAdd(c, i, u) \/ FormulaColumnAdd(c, i, u)
      PROVE  Ordered!Next
  BY <1>2, <1>4, InsertAdds DEF ColumnAdd, FormulaColumnAdd
<1>5. ASSUME NEW c \in Name, NEW u \in BOOLEAN, TrackColumnAdd(c, u) PROVE Ordered!Next
  <2>1. ncols + 1 \in 1..ncols + 1
    BY <1>1
  <2> QED
    BY <1>2, <1>5, <2>1, TrackAdds
<1>6. ASSUME NEW c \in Cols, NEW d \in Name, ColumnClone(c, d) PROVE Ordered!Next
  BY <1>2, <1>6, CloneAdds
<1>7. ASSUME NEW c \in Cols, NEW n \in Name, NEW i \in 1..ncols, NEW k \in BOOLEAN,
             ColumnEdit(c, n, i, k)
      PROVE  Ordered!Next
  BY <1>1, <1>3, <1>7, EditRelocates
<1>8. ASSUME NEW c \in Cols, ColumnDelete(c) PROVE Ordered!Next
  BY <1>1, <1>8, DeleteDeletes DEF Ordered!Next
<1>9. ASSUME NEW c \in Cols, NEW i \in 1..ncols, MoveTo(c, i) PROVE Ordered!Next
  BY <1>1, <1>3, <1>9, MoveRelocates
<1>10. ASSUME NEW c \in Cols,
              \/ ColumnMovePrev(c) \/ ColumnMoveNext(c)
              \/ ColumnMoveTop(c) \/ ColumnMoveBottom(c)
       PROVE  \E i \in 1..ncols : MoveTo(c, i)
  <2>1. /\ pos[c] > 1 => pos[c] - 1 \in 1..ncols /\ 1 \in 1..ncols
        /\ pos[c] < ncols => pos[c] + 1 \in 1..ncols /\ ncols \in 1..ncols
    BY <1>1
  <2> QED
    BY <1>10, <2>1 DEF ColumnMovePrev, ColumnMoveNext, ColumnMoveTop, ColumnMoveBottom
<1> QED
  BY <1>4, <1>5, <1>6, <1>7, <1>8, <1>9, <1>10 DEF ColumnStep

\* The positions of the columns implement an ordered list, for any sequence of
\* operations: each of them inserts, removes, renames, moves or appends as its
\* name says, and the other columns keep their order (reposition_columns,
\* store_table_in_db, workflow_delete_column, clone_column).
THEOREM OrderIsImplemented == Spec => ImplementsOrder
<1>1. Init => Ordered!Init
  <2> SUFFICES ASSUME Init PROVE ByPosition(pos) = <<>>
    BY DEF Ordered!Init
  <2>1. DOMAIN pos = {} /\ Cardinality({}) = 0
    BY FS_EmptySet DEF Init
  <2> QED
    BY <2>1 DEF ByPosition
<1>2. ColumnsInv /\ [Next]_vars => [Ordered!Next]_(ByPosition(pos))
  <2> SUFFICES ASSUME ColumnsInv, [Next]_vars
               PROVE  Ordered!Next \/ UNCHANGED ByPosition(pos)
    OBVIOUS
  <2>1. CASE UNCHANGED vars
    BY <2>1 DEF vars
  <2>2. CASE MentionStep
    BY <2>2 DEF MentionStep, SaveCondition, DeleteCondition, CloneCondition,
                SaveView, DeleteView, CloneView
  <2> QED
    BY <2>1, <2>2, DataListed, ColumnListed DEF Next
<1> QED
  BY <1>1, <1>2, ColumnsInvariant, PTL DEF Spec, ImplementsOrder, Ordered!Spec
=============================================================================
