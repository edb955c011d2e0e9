--------------------------- MODULE TransferProofs ---------------------------
(***************************************************************************)
(* Proofs about Transfer, for any number of processes, workflows, columns, *)
(* actions and files.                                                      *)
(*                                                                         *)
(* The invariant IInv says of every workflow that nobody is working on and *)
(* that is not in doubt that it is Good: row and table agree, its actions  *)
(* use columns it has, its keys are among the columns that tell rows apart *)
(* (Settled).  It has to say as much of a workflow that somebody is        *)
(* working on: for every pc, how much of the clone, of the import or of    *)
(* the action has been done (CloneOK, ImportOK, ActionOK, gathered in      *)
(* JobOK), unless the workflow is in doubt (Reached).  That survives the   *)
(* steps of the other processes because two requests with a workflow in    *)
(* common have both marked what they make (Alone): a step that writes a    *)
(* workflow marks what the others have in hand, and no workflow that is    *)
(* being made can be what a second request began from in good faith.       *)
(*                                                                         *)
(* WriteStep is that argument, once, for a process that writes workflow i  *)
(* and goes on as jb; WriteAtOnce, WriteFirst, MakeFirst, OwnStep and      *)
(* RaiseStep are its five uses; every action is one of them, and what is   *)
(* left to prove of it is what its row and table become.                   *)
(***************************************************************************)
EXTENDS Transfer, FiniteSetTheorems, FunctionTheorems, SequenceTheorems,
        WellFoundedInduction, TLAPS

-----------------------------------------------------------------------------
(* Numbers and lists.                                                      *)

LEMMA Least ==
  ASSUME NEW S \in SUBSET Nat, S # {}
  PROVE  \E n \in S : \A m \in S : n <= m
<1> DEFINE R == OpToRel(<, Nat)
<1>1. IsWellFoundedOn(R, Nat)
  BY NatLessThanWellFounded
<1>2. \A m, n \in Nat : m < n => <<m, n>> \in R
  BY DEF OpToRel
<1> HIDE DEF R
<1>3. PICK n \in S : \A m \in S : ~(<<m, n>> \in R)
  BY <1>1, WFMin
<1>4. \A m \in S : ~(m < n)
  BY <1>2, <1>3
<1> QED
  BY <1>4

\* The place of an index among those of I.
Upto(I, p) == {q \in I : q <= p}
At(I, k) == CHOOSE p \in I : Cardinality(Upto(I, p)) = k

\* Places tell indices apart, and take every value up to the number of them.
LEMMA Places ==
  ASSUME NEW I, NEW n \in Nat, I \subseteq 1..n
  PROVE  /\ Cardinality(I) \in Nat
         /\ \A p \in I : /\ Cardinality(Upto(I, p)) \in 1..Cardinality(I)
                         /\ At(I, Cardinality(Upto(I, p))) = p
         /\ \A k \in 1..Cardinality(I) :
              At(I, k) \in I /\ Cardinality(Upto(I, At(I, k))) = k
<1> DEFINE c == Cardinality(I)
           rank == [p \in I |-> Cardinality(Upto(I, p))]
<1>1. IsFiniteSet(I) /\ c \in Nat /\ \A p \in I : p \in Int
  <2>1. IsFiniteSet(1..n)
    BY FS_Interval
  <2>2. IsFiniteSet(I) /\ c \in Nat
    BY <2>1, FS_Subset, FS_CardinalityType
  <2> QED
    BY <2>2
<1>2. ASSUME NEW p \in I
      PROVE  IsFiniteSet(Upto(I, p)) /\ rank[p] = Cardinality(Upto(I, p)) /\ rank[p] \in 1..c
  <2>1. Upto(I, p) \subseteq I /\ p \in Upto(I, p)
    BY <1>1 DEF Upto
  <2>2. IsFiniteSet(Upto(I, p)) /\ Cardinality(Upto(I, p)) <= c
    BY <1>1, <2>1, FS_Subset
  <2>3. Cardinality(Upto(I, p)) \in Nat /\ Cardinality(Upto(I, p)) # 0
    BY <2>1, <2>2, FS_CardinalityType, FS_EmptySet
  <2> HIDE DEF c
  <2> QED
    BY <1>1, <2>2, <2>3
<1>3. ASSUME NEW p \in I, NEW q \in I, p < q PROVE rank[p] # rank[q]
  <2>1. p \in Int /\ q \in Int /\ p < q /\ \A j \in I : j \in Int
    BY <1>1, <1>3
  <2>2. \A j \in I : j <= p => j <= q
    BY <2>1
  <2>3. Upto(I, p) \subseteq Upto(I, q)
    BY <2>2 DEF Upto
  <2>4. q \in Upto(I, q) /\ q \notin Upto(I, p)
    BY <2>1 DEF Upto
  <2> QED
    BY <1>2, <2>3, <2>4, FS_Subset
<1>4. rank \in [I -> 1..c]
  BY <1>2
<1> HIDE DEF rank, c
<1>5. \A p, q \in I : rank[p] = rank[q] => p = q
  BY <1>1, <1>3
<1>6. rank \in Injection(I, 1..c)
  BY <1>4, <1>5, Fun_IsInj
<1>7. IsFiniteSet(1..c) /\ Cardinality(1..c) = c
  BY <1>1, FS_Interval
<1>8. rank \in Surjection(I, 1..c)
  BY <1>6, <1>7, FS_Injection DEF c
<1>9. \A p \in I : At(I, Cardinality(Upto(I, p))) = p
  <2> SUFFICES ASSUME NEW p \in I PROVE At(I, Cardinality(Upto(I, p))) = p
    OBVIOUS
  <2>1. /\ At(I, Cardinality(Upto(I, p))) \in I
        /\ Cardinality(Upto(I, At(I, Cardinality(Upto(I, p))))) = Cardinality(Upto(I, p))
    BY DEF At
  <2> QED
    BY <1>2, <1>5, <2>1
<1>10. ASSUME NEW k \in 1..c
       PROVE  At(I, k) \in I /\ Cardinality(Upto(I, At(I, k))) = k
  <2>1. PICK p \in I : rank[p] = k
    BY <1>8 DEF Surjection
  <2>2. Cardinality(Upto(I, p)) = k
    BY <1>2, <2>1
  <2> QED
    BY <2>2 DEF At
<1> QED
  BY <1>1, <1>2, <1>9, <1>10 DEF c

LEMMA PlacesOfAll ==
  ASSUME NEW n \in Nat, NEW k \in 1..n
  PROVE  At(1..n, k) = k
<1>1. Upto(1..n, k) = 1..k
  BY DEF Upto
<1>2. Cardinality(Upto(1..n, k)) = k
  BY <1>1, FS_Interval
<1> QED
  BY <1>2, Places

\* Those are the entries of a list that are in S, in their order.
LEMMA ThoseAre ==
  ASSUME NEW T, NEW seq \in Seq(T), NEW S
  PROVE  LET I == {p \in DOMAIN seq : seq[p] \in S}
             t == Those(seq, S) IN
         /\ t = [k \in 1..Cardinality(I) |-> seq[At(I, k)]]
         /\ Cardinality(I) \in Nat
         /\ t \in Seq(T) /\ Len(t) = Cardinality(I) /\ DOMAIN t = 1..Cardinality(I)
         /\ Range(t) = Range(seq) \cap S
         /\ IsInjective(seq) => IsInjective(t)
         /\ Range(seq) \subseteq S => t = seq
         /\ Range(seq) \cap S = {} => t = <<>>
<1> DEFINE I == {p \in DOMAIN seq : seq[p] \in S}
           n == Cardinality(I)
           t == Those(seq, S)
<1>1. Len(seq) \in Nat /\ DOMAIN seq = 1..Len(seq) /\ \A p \in DOMAIN seq : seq[p] \in T
  BY LenProperties
<1>2. I \subseteq 1..Len(seq)
  BY <1>1
<1>3. t = [k \in 1..n |-> seq[At(I, k)]]
  BY DEF Those, At, Upto
<1> HIDE DEF t
<1>4. \A p \in I : p \in DOMAIN seq /\ seq[p] \in S
  OBVIOUS
<1>5. \A p \in DOMAIN seq : seq[p] \in S => p \in I
  OBVIOUS
<1> HIDE DEF I
<1>6. /\ n \in Nat
      /\ \A p \in I : Cardinality(Upto(I, p)) \in 1..n /\ At(I, Cardinality(Upto(I, p))) = p
      /\ \A k \in 1..n : At(I, k) \in I /\ Cardinality(Upto(I, At(I, k))) = k
  BY <1>1, <1>2, Places
<1> HIDE DEF n
<1>7. t \in [1..n -> T]
  BY <1>1, <1>3, <1>4, <1>6
<1>8. t \in Seq(T) /\ Len(t) = n /\ DOMAIN t = 1..n
  BY <1>6, <1>7, SeqDef
<1>9. Range(t) = Range(seq) \cap S
  <2>1. ASSUME NEW k \in 1..n PROVE t[k] \in Range(seq) \cap S
    BY <1>3, <1>4, <1>6 DEF Range
  <2>2. ASSUME NEW p \in DOMAIN seq, seq[p] \in S PROVE seq[p] \in Range(t)
    <3>1. p \in I /\ Cardinality(Upto(I, p)) \in 1..n /\ At(I, Cardinality(Upto(I, p))) = p
      BY <1>5, <1>6, <2>2
    <3>2. t[Cardinality(Upto(I, p))] = seq[p]
      BY <1>3, <3>1
    <3> QED
      BY <1>8, <3>1, <3>2 DEF Range
  <2> QED
    BY <1>8, <2>1, <2>2 DEF Range
<1>10. IsInjective(seq) => IsInjective(t)
  <2> SUFFICES ASSUME IsInjective(seq), NEW k \in 1..n, NEW l \in 1..n, t[k] = t[l]
               PROVE  k = l
    BY <1>8 DEF IsInjective
  <2>1. At(I, k) \in DOMAIN seq /\ At(I, l) \in DOMAIN seq /\ seq[At(I, k)] = seq[At(I, l)]
    BY <1>3, <1>4, <1>6
  <2>2. At(I, k) = At(I, l)
    BY <2>1 DEF IsInjective
  <2> QED
    BY <1>6, <2>2
<1>11. Range(seq) \subseteq S => t = seq
  <2> SUFFICES ASSUME Range(seq) \subseteq S PROVE t = seq
    OBVIOUS
  <2>1. I = 1..Len(seq)
    BY <1>1, <1>2, <1>5 DEF Range
  <2>2. Cardinality(1..Len(seq)) = Len(seq)
    BY <1>1, FS_Interval
  <2>3. n = Len(seq)
    BY <2>1, <2>2 DEF n
  <2>4. \A k \in 1..Len(seq) : t[k] = seq[k]
    BY <1>1, <1>3, <2>1, <2>3, PlacesOfAll
  <2> QED
    BY <1>8, <2>3, <2>4, SeqEqual
<1>12. Range(seq) \cap S = {} => t = <<>>
  <2> SUFFICES ASSUME Range(seq) \cap S = {} PROVE t = <<>>
    OBVIOUS
  <2>1. I = {}
    BY <1>4 DEF Range
  <2>2. n = 0
    BY <2>1, FS_EmptySet DEF n
  <2> QED
    BY <1>8, <2>2, EmptySeq
<1> QED
  BY <1>3, <1>6, <1>8, <1>9, <1>10, <1>11, <1>12 DEF I, n, t

\* The same with the set of indices given.
LEMMA ThoseAt ==
  ASSUME NEW T, NEW seq \in Seq(T), NEW S, NEW I, I = {p \in DOMAIN seq : seq[p] \in S}
  PROVE  /\ \A k \in 1..Cardinality(I) : Those(seq, S)[k] = seq[At(I, k)]
         /\ Cardinality(I) \in Nat
         /\ Those(seq, S) \in Seq(T)
         /\ Len(Those(seq, S)) = Cardinality(I)
BY ThoseAre

LEMMA RemoveOne ==
  ASSUME NEW T, NEW seq \in Seq(T), IsInjective(seq), NEW p \in DOMAIN seq
  PROVE  /\ Len(Without(seq, seq[p])) = Len(seq) - 1
         /\ {q \in DOMAIN seq : seq[q] \in Range(seq) \ {seq[p]}} = (DOMAIN seq) \ {p}
<1> DEFINE S == Range(seq) \ {seq[p]}
           I == {q \in DOMAIN seq : seq[q] \in S}
<1>1. Len(seq) \in Nat /\ DOMAIN seq = 1..Len(seq)
  BY LenProperties
<1>2. I = (1..Len(seq)) \ {p}
  <2>1. \A q \in DOMAIN seq : seq[q] \in S <=> q # p
    BY DEF IsInjective, Range
  <2> HIDE DEF S
  <2> QED
    BY <1>1, <2>1
<1>3. Len(Without(seq, seq[p])) = Cardinality(I)
  <2>1. Without(seq, seq[p]) = Those(seq, S)
    BY DEF Without
  <2>2. I = {q \in DOMAIN seq : seq[q] \in S}
    OBVIOUS
  <2> HIDE DEF S, I
  <2> QED
    BY <2>1, <2>2, ThoseAt
<1>4. IsFiniteSet(1..Len(seq)) /\ Cardinality(1..Len(seq)) = Len(seq)
  <2> DEFINE n == Len(seq)
  <2> HIDE DEF n
  <2>1. n \in Nat
    BY <1>1 DEF n
  <2>2. IsFiniteSet(1..n) /\ Cardinality(1..n) = n
    BY <2>1, FS_Interval
  <2> QED
    BY <2>2 DEF n
<1>5. Cardinality((1..Len(seq)) \ {p}) = Len(seq) - 1
  <2>1. p \in 1..Len(seq)
    BY <1>1
  <2>2. Cardinality((1..Len(seq)) \ {p}) = Cardinality(1..Len(seq)) - 1
    BY <1>4, <2>1, FS_RemoveElement
  <2> QED
    BY <1>4, <2>2
<1> QED
  BY <1>1, <1>2, <1>3, <1>5 DEF Without

-----------------------------------------------------------------------------
(* Lists of columns.                                                       *)

LEMMA NamesAre ==
  ASSUME NEW cols \in Seq(ColumnRow)
  PROVE  /\ Len(cols) \in Nat /\ DOMAIN cols = 1..Len(cols)
         /\ Names(cols) \in Seq(Column) /\ Len(Names(cols)) = Len(cols)
         /\ DOMAIN Names(cols) = DOMAIN cols
         /\ \A p \in DOMAIN cols : /\ Names(cols)[p] = cols[p].name
                                   /\ cols[p] \in ColumnRow /\ cols[p].name \in Column
                                   /\ cols[p].name \in Has(cols)
         /\ Has(cols) = {cols[p].name : p \in DOMAIN cols}
         /\ cols = <<>> <=> Names(cols) = <<>>
<1>1. Len(cols) \in Nat /\ DOMAIN cols = 1..Len(cols)
      /\ \A p \in DOMAIN cols : cols[p] \in ColumnRow
  BY LenProperties
<1>2. \A p \in DOMAIN cols : cols[p].name \in Column
  BY <1>1 DEF ColumnRow
<1>3. Names(cols) \in [1..Len(cols) -> Column]
      /\ \A p \in DOMAIN cols : Names(cols)[p] = cols[p].name
  BY <1>1, <1>2 DEF Names
<1>4. Names(cols) \in Seq(Column) /\ Len(Names(cols)) = Len(cols)
  BY <1>1, <1>3, SeqDef
<1>5. DOMAIN Names(cols) = DOMAIN cols
  BY <1>1, <1>3
<1>6. Has(cols) = {cols[p].name : p \in DOMAIN cols}
  BY <1>3, <1>5 DEF Has, Range
<1>7. cols = <<>> <=> Len(cols) = 0
  BY EmptySeq
<1>8. Names(cols) = <<>> <=> Len(Names(cols)) = 0
  BY <1>4, EmptySeq
<1> QED
  BY <1>1, <1>2, <1>3, <1>4, <1>5, <1>6, <1>7, <1>8

\* The names of two lists, one after the other.
LEMMA NamesConcat ==
  ASSUME NEW a \in Seq(ColumnRow), NEW b \in Seq(ColumnRow)
  PROVE  /\ a \o b \in Seq(ColumnRow)
         /\ Names(a \o b) = Names(a) \o Names(b)
         /\ Has(a \o b) = Has(a) \cup Has(b)
         /\ \A p \in DOMAIN (a \o b) : \/ p \in DOMAIN a /\ (a \o b)[p] = a[p]
                                       \/ \E q \in DOMAIN b : (a \o b)[p] = b[q]
<1> DEFINE c == a \o b
<1>1. /\ c \in Seq(ColumnRow) /\ Len(c) = Len(a) + Len(b)
      /\ \A i \in 1..Len(a) + Len(b) : c[i] = IF i <= Len(a) THEN a[i] ELSE b[i - Len(a)]
  BY ConcatProperties
<1> HIDE DEF c
<1>2. /\ Names(a) \o Names(b) \in Seq(Column)
      /\ Len(Names(a) \o Names(b)) = Len(a) + Len(b)
      /\ \A i \in 1..Len(a) + Len(b) :
           (Names(a) \o Names(b))[i] = IF i <= Len(a) THEN Names(a)[i] ELSE Names(b)[i - Len(a)]
  <2> DEFINE na == Names(a)
             nb == Names(b)
  <2> HIDE DEF na, nb
  <2>1. /\ na \in Seq(Column) /\ Len(na) = Len(a)
        /\ nb \in Seq(Column) /\ Len(nb) = Len(b)
    BY NamesAre DEF na, nb
  <2>2. /\ na \o nb \in Seq(Column)
        /\ Len(na \o nb) = Len(na) + Len(nb)
        /\ \A i \in 1..Len(na) + Len(nb) :
             (na \o nb)[i] = IF i <= Len(na) THEN na[i] ELSE nb[i - Len(na)]
    BY <2>1, ConcatProperties
  <2> QED
    BY <2>1, <2>2 DEF na, nb
<1>3. Len(a) \in Nat /\ Len(b) \in Nat /\ DOMAIN a = 1..Len(a) /\ DOMAIN b = 1..Len(b)
      /\ DOMAIN c = 1..Len(a) + Len(b)
  BY <1>1, NamesAre
<1>4. ASSUME NEW i \in 1..Len(a) + Len(b)
      PROVE  \/ i \in DOMAIN a /\ c[i] = a[i]
             \/ i - Len(a) \in DOMAIN b /\ c[i] = b[i - Len(a)]
  BY <1>1, <1>3
<1>5. ASSUME NEW i \in 1..Len(a) + Len(b)
      PROVE  Names(c)[i] = (Names(a) \o Names(b))[i]
  <2>1. Names(c)[i] = c[i].name
    BY <1>1, <1>3, NamesAre
  <2>2. CASE i <= Len(a)
    <3>1. i \in DOMAIN a /\ c[i] = a[i] /\ (Names(a) \o Names(b))[i] = Names(a)[i]
      BY <1>1, <1>2, <1>3, <2>2
    <3> QED
      BY <2>1, <3>1, NamesAre
  <2>3. CASE ~(i <= Len(a))
    <3>1. i - Len(a) \in DOMAIN b /\ c[i] = b[i - Len(a)]
          /\ (Names(a) \o Names(b))[i] = Names(b)[i - Len(a)]
      BY <1>1, <1>2, <1>3, <2>3
    <3> QED
      BY <2>1, <3>1, NamesAre
  <2> QED
    BY <2>2, <2>3
<1>6. Names(c) = Names(a) \o Names(b)
  <2>1. Names(c) \in Seq(Column) /\ Len(Names(c)) = Len(a) + Len(b)
    BY <1>1, NamesAre
  <2> QED
    BY <1>2, <1>5, <2>1, SeqEqual
<1>7. Has(c) = Has(a) \cup Has(b)
  <2>1. ASSUME NEW x \in Has(c) PROVE x \in Has(a) \cup Has(b)
    <3>1. PICK p \in DOMAIN c : x = c[p].name
      BY <1>1, NamesAre
    <3> QED
      BY <1>3, <1>4, <3>1, NamesAre
  <2>2. ASSUME NEW x \in Has(a) PROVE x \in Has(c)
    <3>1. PICK p \in DOMAIN a : x = a[p].name
      BY NamesAre
    <3>2. p \in DOMAIN c /\ c[p] = a[p]
      BY <1>1, <1>3
    <3> QED
      BY <1>1, <3>1, <3>2, NamesAre
  <2>3. ASSUME NEW x \in Has(b) PROVE x \in Has(c)
    <3>1. PICK q \in DOMAIN b : x = b[q].name
      BY NamesAre
    <3>2. q + Len(a) \in DOMAIN c /\ c[q + Len(a)] = b[q]
      BY <1>1, <1>3
    <3> QED
      BY <1>1, <3>1, <3>2, NamesAre
  <2> QED
    BY <2>1, <2>2, <2>3
<1> QED
  BY <1>1, <1>3, <1>4, <1>6, <1>7 DEF c

\* Two lists without repetition and nothing in common.
LEMMA ConcatInjective ==
  ASSUME NEW T, NEW a \in Seq(T), NEW b \in Seq(T), IsInjective(a), IsInjective(b),
         Range(a) \cap Range(b) = {}
  PROVE  a \o b \in Seq(T) /\ IsInjective(a \o b) /\ Range(a \o b) = Range(a) \cup Range(b)
<1> DEFINE c == a \o b
<1>1. /\ c \in Seq(T) /\ Len(c) = Len(a) + Len(b)
      /\ \A i \in 1..Len(a) + Len(b) : c[i] = IF i <= Len(a) THEN a[i] ELSE b[i - Len(a)]
  BY ConcatProperties
<1> HIDE DEF c
<1>2. Len(a) \in Nat /\ Len(b) \in Nat /\ DOMAIN a = 1..Len(a) /\ DOMAIN b = 1..Len(b)
      /\ DOMAIN c = 1..Len(a) + Len(b)
  BY <1>1, LenProperties
<1>3. ASSUME NEW i \in DOMAIN c
      PROVE  \/ i \in DOMAIN a /\ c[i] = a[i]
             \/ /\ i > Len(a) /\ i \in Int
                /\ i - Len(a) \in DOMAIN b /\ c[i] = b[i - Len(a)]
  BY <1>1, <1>2
<1>4. \A i \in DOMAIN a : i \in DOMAIN c /\ c[i] = a[i]
  BY <1>1, <1>2
<1>5. \A j \in DOMAIN b : j + Len(a) \in DOMAIN c /\ c[j + Len(a)] = b[j]
  BY <1>1, <1>2
<1>6. Range(c) = Range(a) \cup Range(b)
  <2>1. Range(c) \subseteq Range(a) \cup Range(b)
    BY <1>3 DEF Range
  <2>2. Range(a) \subseteq Range(c)
    BY <1>4 DEF Range
  <2>3. Range(b) \subseteq Range(c)
    BY <1>5 DEF Range
  <2> QED
    BY <2>1, <2>2, <2>3
<1>7. IsInjective(c)
  <2> SUFFICES ASSUME NEW i \in DOMAIN c, NEW j \in DOMAIN c, c[i] = c[j]
               PROVE  i = j
    BY DEF IsInjective
  <2>1. CASE i \in DOMAIN a /\ c[i] = a[i] /\ j \in DOMAIN a /\ c[j] = a[j]
    BY <2>1 DEF IsInjective
  <2>2. CASE i \in DOMAIN a /\ c[i] = a[i] /\ j - Len(a) \in DOMAIN b /\ c[j] = b[j - Len(a)]
    BY <2>2 DEF Range
  <2>3. CASE j \in DOMAIN a /\ c[j] = a[j] /\ i - Len(a) \in DOMAIN b /\ c[i] = b[i - Len(a)]
    BY <2>3 DEF Range
  <2>4. CASE /\ i \in Int /\ j \in Int
             /\ i - Len(a) \in DOMAIN b /\ c[i] = b[i - Len(a)]
             /\ j - Len(a) \in DOMAIN b /\ c[j] = b[j - Len(a)]
    <3>1. i - Len(a) = j - Len(a)
      BY <2>4 DEF IsInjective
    <3> QED
      BY <1>2, <2>4, <3>1
  <2> QED
    BY <1>3, <2>1, <2>2, <2>3, <2>4
<1> QED
  BY <1>1, <1>6, <1>7 DEF c

\* Names that do not repeat are enough for rows that do not repeat.
LEMMA NamesInjective ==
  ASSUME NEW cols \in Seq(ColumnRow), IsInjective(Names(cols))
  PROVE  /\ IsInjective(cols)
         /\ \A p, q \in DOMAIN cols : cols[p].name = cols[q].name => p = q
BY NamesAre DEF IsInjective

\* Taking the row of a column out of the list takes its name out.
LEMMA NamesWithout ==
  ASSUME NEW cols \in Seq(ColumnRow), IsInjective(Names(cols)), NEW p \in DOMAIN cols
  PROVE  LET new == Without(cols, cols[p]) IN
         /\ new \in Seq(ColumnRow)
         /\ Names(new) = Without(Names(cols), cols[p].name)
         /\ IsInjective(Names(new))
         /\ Len(new) = Len(cols) - 1
         /\ Has(new) = Has(cols) \ {cols[p].name}
         /\ Range(new) \subseteq Range(cols)
<1> DEFINE c == cols[p].name
           new == Without(cols, cols[p])
           names == Names(cols)
           I == (DOMAIN cols) \ {p}
           n == Cardinality(I)
<1>1. IsInjective(cols) /\ names \in Seq(Column) /\ DOMAIN names = DOMAIN cols /\ names[p] = c
  BY NamesAre, NamesInjective
<1> HIDE DEF names, c
<1>2. {q \in DOMAIN cols : cols[q] \in Range(cols) \ {cols[p]}} = I
  BY <1>1, RemoveOne
<1>3. {q \in DOMAIN names : names[q] \in Range(names) \ {c}} = I
  <2>1. IsInjective(names) /\ p \in DOMAIN names
    BY <1>1 DEF names
  <2>2. {q \in DOMAIN names : names[q] \in Range(names) \ {names[p]}} = (DOMAIN names) \ {p}
    BY <1>1, <2>1, RemoveOne
  <2> QED
    BY <1>1, <2>2
<1>4. /\ \A k \in 1..n : new[k] = cols[At(I, k)]
      /\ n \in Nat
      /\ new \in Seq(ColumnRow) /\ Len(new) = n
  <2> DEFINE S == Range(cols) \ {cols[p]}
  <2>1. new = Those(cols, S)
    BY DEF Without
  <2>2. I = {q \in DOMAIN cols : cols[q] \in S}
    BY <1>2
  <2> HIDE DEF S, I, new
  <2> QED
    BY <2>1, <2>2, ThoseAt
<1>5. /\ \A k \in 1..n : Without(names, c)[k] = names[At(I, k)]
      /\ Without(names, c) \in Seq(Column) /\ Len(Without(names, c)) = n
      /\ Range(Without(names, c)) = Range(names) \ {c}
      /\ IsInjective(Without(names, c))
  <2> DEFINE S == Range(names) \ {c}
  <2>1. IsInjective(names) /\ Without(names, c) = Those(names, S) /\ names \in Seq(Column)
    BY <1>1 DEF names, Without
  <2>2. I = {q \in DOMAIN names : names[q] \in S}
    BY <1>3
  <2>3. /\ Range(Those(names, S)) = Range(names) \cap S
        /\ IsInjective(Those(names, S))
    BY <2>1, ThoseAre
  <2>4. Range(names) \cap S = Range(names) \ {c}
    OBVIOUS
  <2> HIDE DEF S, I
  <2> QED
    BY <2>1, <2>2, <2>3, <2>4, ThoseAt
<1>6. I \subseteq 1..Len(cols) /\ Len(cols) \in Nat
  BY NamesAre
<1>7. \A k \in 1..n : At(I, k) \in DOMAIN cols
  BY <1>6, Places
<1> HIDE DEF I, n
<1>8. Names(new) = Without(names, c)
  <2>1. /\ Names(new) \in Seq(Column) /\ Len(Names(new)) = n
        /\ \A k \in 1..n : Names(new)[k] = new[k].name
    BY <1>4, NamesAre
  <2>2. \A k \in 1..n : new[k].name = names[At(I, k)]
    BY <1>4, <1>7, NamesAre DEF names
  <2> HIDE DEF new
  <2> QED
    BY <1>5, <2>1, <2>2, SeqEqual
<1>9. Len(new) = Len(cols) - 1
  BY <1>1, RemoveOne
<1>10. Has(new) = Has(cols) \ {c}
  BY <1>5, <1>8 DEF Has, names
<1>11. Range(new) \subseteq Range(cols)
  BY <1>4, <1>7, NamesAre DEF Range
<1> QED
  BY <1>4, <1>5, <1>8, <1>9, <1>10, <1>11 DEF names, c

Rows == {r \in Workflow : IsInjective(Names(r.cols))}
Frames == {df \in Frame : IsInjective(df.cols)}

\* The rows that a column without one gets.
RowsFor(new, df) == [p \in DOMAIN new |-> [name |-> new[p], key |-> new[p] \in df.uniq, cats |-> "none"]]

LEMMA RowsForAre ==
  ASSUME NEW new \in Seq(Column), NEW df
  PROVE  /\ RowsFor(new, df) \in Seq(ColumnRow) /\ Names(RowsFor(new, df)) = new
         /\ \A p \in DOMAIN RowsFor(new, df) :
              RowsFor(new, df)[p].key => RowsFor(new, df)[p].name \in df.uniq
         /\ new = <<>> => RowsFor(new, df) = <<>>
<1> DEFINE r == RowsFor(new, df)
<1>1. Len(new) \in Nat /\ DOMAIN new = 1..Len(new) /\ \A p \in DOMAIN new : new[p] \in Column
  BY LenProperties
<1>2. \A p \in DOMAIN new : /\ r[p].name = new[p]
                            /\ r[p].key = (new[p] \in df.uniq)
                            /\ r[p] \in ColumnRow
  BY <1>1 DEF RowsFor, ColumnRow, Kind
<1>3. r \in [1..Len(new) -> ColumnRow] /\ DOMAIN r = DOMAIN new
  BY <1>1, <1>2 DEF RowsFor
<1> HIDE DEF r
<1>4. r \in Seq(ColumnRow) /\ Len(r) = Len(new)
  BY <1>1, <1>3, SeqDef
<1>5. Names(r) = new
  <2>1. /\ Names(r) \in Seq(Column) /\ Len(Names(r)) = Len(new)
        /\ \A p \in 1..Len(new) : Names(r)[p] = new[p]
    BY <1>1, <1>2, <1>3, <1>4, NamesAre
  <2> QED
    BY <2>1, SeqEqual
<1>6. \A p \in DOMAIN r : r[p].key => r[p].name \in df.uniq
  BY <1>2, <1>3
<1>7. new = <<>> => r = <<>>
  BY <1>4, EmptySeq
<1> QED
  BY <1>4, <1>5, <1>6, <1>7 DEF r

\* The Column rows after a frame has been stored (store_table_in_db).
LEMMA ReconciledAre ==
  ASSUME NEW cols \in Seq(ColumnRow), IsInjective(Names(cols)), NEW df \in Frames
  PROVE  LET all == Reconciled(cols, df) IN
         /\ all \in Seq(ColumnRow) /\ IsInjective(Names(all))
         /\ Has(all) = Has(cols) \cup Range(df.cols)
         /\ \A p \in DOMAIN all :
              all[p].key => \/ p \in DOMAIN cols /\ all[p] = cols[p]
                            \/ all[p].name \in df.uniq
         /\ Range(df.cols) \subseteq Has(cols) => all = cols
         /\ cols = <<>> => Names(all) = df.cols
<1> DEFINE all == Reconciled(cols, df)
           S == Range(df.cols) \ Has(cols)
           new == Those(df.cols, S)
           tail == RowsFor(new, df)
<1>1. df.cols \in Seq(Column) /\ IsInjective(df.cols)
  BY DEF Frames, Frame
<1>2. all = cols \o tail
  BY DEF Reconciled, RowsFor
<1>3. Range(df.cols) \cap S = S
  OBVIOUS
<1>4. /\ Range(df.cols) \subseteq Has(cols) => Range(df.cols) \cap S = {}
      /\ Has(cols) = {} => Range(df.cols) \subseteq S
  OBVIOUS
<1>5. S \cap Has(cols) = {} /\ S \cup Has(cols) = Has(cols) \cup Range(df.cols)
  OBVIOUS
<1> HIDE DEF S, all
<1>6. /\ new \in Seq(Column) /\ Range(new) = S /\ IsInjective(new)
      /\ Range(df.cols) \subseteq Has(cols) => new = <<>>
      /\ Has(cols) = {} => new = df.cols
  BY <1>1, <1>3, <1>4, ThoseAre
<1> HIDE DEF new
<1>7. /\ tail \in Seq(ColumnRow) /\ Names(tail) = new /\ Has(tail) = S
      /\ \A p \in DOMAIN tail : tail[p].key => tail[p].name \in df.uniq
      /\ new = <<>> => tail = <<>>
  BY <1>6, RowsForAre DEF Has
<1> HIDE DEF tail
<1>8. /\ all \in Seq(ColumnRow) /\ Names(all) = Names(cols) \o new
      /\ Has(all) = Has(cols) \cup S
      /\ \A p \in DOMAIN all : \/ p \in DOMAIN cols /\ all[p] = cols[p]
                               \/ \E q \in DOMAIN tail : all[p] = tail[q]
  BY <1>2, <1>7, NamesConcat
<1>9. IsInjective(Names(all))
  <2> DEFINE n == Names(cols)
  <2>1. n \in Seq(Column) /\ IsInjective(n) /\ Range(n) = Has(cols)
    BY NamesAre DEF Has
  <2> HIDE DEF n
  <2>2. IsInjective(n \o new)
    BY <1>5, <1>6, <2>1, ConcatInjective
  <2> QED
    BY <1>8, <2>2 DEF n
<1>10. \A p \in DOMAIN all :
              all[p].key => \/ p \in DOMAIN cols /\ all[p] = cols[p]
                            \/ all[p].name \in df.uniq
  BY <1>7, <1>8
<1>11. Range(df.cols) \subseteq Has(cols) => all = cols
  BY <1>2, <1>6, <1>7, ConcatEmptySeq
<1>12. cols = <<>> => Names(all) = df.cols
  <2> SUFFICES ASSUME cols = <<>> PROVE Names(all) = df.cols
    OBVIOUS
  <2>1. Names(cols) = <<>> /\ Has(cols) = {}
    <3>1. Names(cols) = <<>>
      BY NamesAre
    <3>2. Len(cols) = 0
      BY EmptySeq
    <3>3. DOMAIN cols = {}
      BY <3>2, NamesAre
    <3>4. Has(cols) = {cols[p].name : p \in DOMAIN cols}
      BY NamesAre
    <3> QED
      BY <3>1, <3>3, <3>4
  <2> QED
    BY <1>6, <1>8, <2>1, ConcatEmptySeq
<1> QED
  BY <1>5, <1>8, <1>9, <1>10, <1>11, <1>12 DEF all

\* The row and the table as store_table_in_db leaves them.
LEMMA StoredAre ==
  ASSUME NEW row \in Rows, NEW df \in Frames, Has(row.cols) \subseteq Range(df.cols)
  PROVE  /\ StoreRow(row, df) \in Rows /\ StoreTable(row, df) \in Frames
         /\ StoreRow(row, df).cols = Reconciled(row.cols, df)
         /\ StoreRow(row, df).acts = row.acts /\ StoreRow(row, df).views = row.views
         /\ StoreRow(row, df).sure = row.sure /\ StoreRow(row, df).name = row.name
         /\ StoreTable(row, df).uniq = df.uniq /\ StoreTable(row, df).rows = df.rows
         /\ StoreTable(row, df).cols = Names(Reconciled(row.cols, df))
         /\ StoreRow(row, df).size
              = [nrows |-> df.rows, ncols |-> Len(Reconciled(row.cols, df))]
<1> DEFINE all == Reconciled(row.cols, df)
<1>1. row \in Workflow /\ row.cols \in Seq(ColumnRow) /\ IsInjective(Names(row.cols))
  BY DEF Rows, Workflow
<1>2. all \in Seq(ColumnRow) /\ IsInjective(Names(all))
  BY <1>1, ReconciledAre
<1>3. StoreRow(row, df) = [row EXCEPT !.cols = all, !.stored = TRUE,
                             !.size = [nrows |-> df.rows, ncols |-> Len(all)]]
      /\ StoreTable(row, df) = [df EXCEPT !.cols = Names(all)]
  BY DEF StoreRow, StoreTable
<1> HIDE DEF all
<1>4. Len(all) \in Int /\ df.rows \in Int /\ df \in Frame /\ Names(all) \in Seq(Column)
  BY <1>2, NamesAre DEF Frames, Frame
<1>5. [nrows |-> df.rows, ncols |-> Len(all)] \in Size
  BY <1>4 DEF Size
<1> DEFINE sr == StoreRow(row, df)
           st == StoreTable(row, df)
<1>6. /\ sr \in Workflow /\ sr.cols = all /\ sr.acts = row.acts /\ sr.views = row.views
      /\ sr.sure = row.sure /\ sr.name = row.name
      /\ sr.size = [nrows |-> df.rows, ncols |-> Len(all)]
  BY <1>1, <1>2, <1>3, <1>5 DEF Workflow
<1>7. st \in Frame /\ st.cols = Names(all) /\ st.uniq = df.uniq /\ st.rows = df.rows
  BY <1>3, <1>4 DEF Frame
<1> HIDE DEF sr, st
<1>8. sr \in Rows /\ st \in Frames
  BY <1>2, <1>6, <1>7 DEF Rows, Frames
<1> QED
  BY <1>6, <1>7, <1>8 DEF sr, st, all

\* Up to the first column whose categories raise.
LEMMA CreatedAre ==
  ASSUME NEW cols \in Seq(ColumnRow), IsInjective(Names(cols))
  PROVE  /\ Created(cols) \in Seq(ColumnRow) /\ IsInjective(Names(Created(cols)))
         /\ Has(Created(cols)) \subseteq Has(cols)
         /\ cols = <<>> => Created(cols) = cols
<1>0. Len(cols) \in Nat /\ DOMAIN cols = 1..Len(cols) /\ \A p \in DOMAIN cols : cols[p] \in ColumnRow
  BY NamesAre
<1>1. CASE \A p \in DOMAIN cols : Strips(cols[p])
  BY <1>1 DEF Created
<1>2. CASE ~\A p \in DOMAIN cols : Strips(cols[p])
  <2> DEFINE P(p) == ~Strips(cols[p]) /\ \A q \in 1..(p - 1) : Strips(cols[q])
             p0 == CHOOSE p \in DOMAIN cols : P(p)
             S == {p \in DOMAIN cols : ~Strips(cols[p])}
  <2>1. \E p \in DOMAIN cols : P(p)
    <3>1. S # {} /\ S \in SUBSET Nat
      BY <1>0, <1>2
    <3>2. PICK p \in S : \A m \in S : p <= m
      BY <3>1, Least
    <3>3. p \in DOMAIN cols /\ ~Strips(cols[p])
      OBVIOUS
    <3>4. ASSUME NEW q \in 1..(p - 1) PROVE Strips(cols[q])
      <4>1. q \in DOMAIN cols /\ ~(p <= q)
        BY <1>0, <3>3
      <4> QED
        BY <3>2, <4>1
    <3> QED
      BY <3>3, <3>4
  <2>2. p0 \in DOMAIN cols /\ Created(cols) = SubSeq(cols, 1, p0 - 1)
    BY <1>2, <2>1 DEF Created
  <2> HIDE DEF p0
  <2> DEFINE new == SubSeq(cols, 1, p0 - 1)
             n == p0 - 1
  <2>3. n \in Int /\ n + 1 = p0 /\ n >= 0
    BY <1>0, <2>2
  <2>4. \A i \in 1..n : i \in DOMAIN cols /\ cols[i] \in ColumnRow
    BY <1>0, <2>2
  <2> HIDE DEF n
  <2>5. /\ SubSeq(cols, 1, n) \in Seq(ColumnRow)
        /\ Len(SubSeq(cols, 1, n)) = IF 1 <= n THEN n - 1 + 1 ELSE 0
        /\ \A i \in 1..n - 1 + 1 : SubSeq(cols, 1, n)[i] = cols[1 + i - 1]
    BY <2>3, <2>4, SubSeqProperties
  <2>6. /\ Len(SubSeq(cols, 1, n)) = n
        /\ \A i \in 1..n : SubSeq(cols, 1, n)[i] = cols[i]
    BY <2>3, <2>5
  <2>7. new = SubSeq(cols, 1, n)
    BY DEF n
  <2> HIDE DEF new
  <2>8. new \in Seq(ColumnRow) /\ \A i \in DOMAIN new : i \in DOMAIN cols /\ new[i] = cols[i]
    BY <2>4, <2>5, <2>6, <2>7, NamesAre
  <2>9. IsInjective(Names(new))
    BY <2>8, NamesAre, NamesInjective DEF IsInjective
  <2>10. cols # <<>>
    BY <1>0, <2>2, EmptySeq
  <2>11. Has(new) \subseteq Has(cols)
    BY <2>8, NamesAre
  <2> QED
    BY <2>2, <2>8, <2>9, <2>10, <2>11 DEF new
<1> QED
  BY <1>1, <1>2

\* Some of the rows of columns, in their order.
LEMMA ThoseRows ==
  ASSUME NEW cols \in Seq(ColumnRow), IsInjective(Names(cols)), NEW S
  PROVE  /\ Those(cols, S) \in Seq(ColumnRow) /\ IsInjective(Names(Those(cols, S)))
         /\ Range(Those(cols, S)) = Range(cols) \cap S
<1> DEFINE left == Those(cols, S)
<1>1. IsInjective(cols)
  BY NamesInjective
<1>2. left \in Seq(ColumnRow) /\ IsInjective(left) /\ Range(left) = Range(cols) \cap S
  BY <1>1, ThoseAre
<1> HIDE DEF left
<1>3. \A p \in DOMAIN left : \E q \in DOMAIN cols : left[p] = cols[q]
  BY <1>2 DEF Range
<1>4. IsInjective(Names(left))
  <2> SUFFICES ASSUME NEW p \in DOMAIN left, NEW q \in DOMAIN left, left[p].name = left[q].name
               PROVE  p = q
    BY <1>2, NamesAre DEF IsInjective
  <2>1. PICK i \in DOMAIN cols : left[p] = cols[i]
    BY <1>3
  <2>2. PICK j \in DOMAIN cols : left[q] = cols[j]
    BY <1>3
  <2>3. i = j
    BY <2>1, <2>2, NamesInjective
  <2>4. left[p] = left[q]
    BY <2>1, <2>2, <2>3
  <2> QED
    BY <1>2, <2>4 DEF IsInjective
<1> QED
  BY <1>2, <1>4 DEF left

\* New columns of an action that is imported.
LEMMA FreshAre ==
  ASSUME NEW cols \in Seq(ColumnRow), NEW used \in Seq(ColumnRow), IsInjective(Names(used))
  PROVE  LET new == Fresh(cols, used) IN
         /\ new \in Seq(ColumnRow) /\ IsInjective(Names(new))
         /\ Range(new) \subseteq Range(used)
         /\ Has(new) \cap Has(cols) = {}
<1> DEFINE S == {c \in Range(used) : c.name \notin Has(cols)}
           new == Fresh(cols, used)
<1>1. new = Those(used, S)
  BY DEF Fresh
<1>2. \A c \in S : c.name \notin Has(cols)
  OBVIOUS
<1> HIDE DEF S, new
<1>3. new \in Seq(ColumnRow) /\ Range(new) = Range(used) \cap S /\ IsInjective(Names(new))
  BY <1>1, ThoseRows
<1>4. Has(new) \cap Has(cols) = {}
  <2> SUFFICES ASSUME NEW x \in Has(new) PROVE x \notin Has(cols)
    OBVIOUS
  <2>1. PICK p \in DOMAIN new : x = new[p].name
    BY <1>3, NamesAre
  <2>2. new[p] \in S
    BY <1>3 DEF Range
  <2> QED
    BY <1>2, <2>1, <2>2
<1> QED
  BY <1>3, <1>4 DEF new

\* A frame with the columns that an action brought.
LEMMA WidenedAre ==
  ASSUME NEW df \in Frames, NEW new \in Seq(Column), IsInjective(new)
  PROVE  /\ Widened(df, new) \in Frames /\ Widened(df, new).rows = df.rows
         /\ Range(df.cols) \cap Range(new) = {} => Widened(df, new).cols = df.cols \o new
         /\ \A c \in df.uniq \ Range(new) : c \in Widened(df, new).uniq
<1> DEFINE S == Range(new) \ Range(df.cols)
           more == Those(new, S)
           u == IF df.rows < 2 THEN df.uniq \cup Range(more) ELSE df.uniq \ Range(new)
<1>1. df \in Frame /\ df.cols \in Seq(Column) /\ IsInjective(df.cols) /\ df.uniq \subseteq Column
  BY DEF Frames, Frame
<1>2. Widened(df, new) = [df EXCEPT !.cols = df.cols \o more, !.uniq = u]
  BY <1>1 DEF Widened, Frame
<1>3. S \cap Range(df.cols) = {} /\ Range(new) \cap S = S
      /\ (Range(df.cols) \cap Range(new) = {} => Range(new) \subseteq S)
  OBVIOUS
<1> HIDE DEF S
<1>4. /\ more \in Seq(Column) /\ Range(more) = S /\ IsInjective(more)
      /\ Range(df.cols) \cap Range(new) = {} => more = new
  BY <1>3, ThoseAre
<1> HIDE DEF more
<1>5. df.cols \o more \in Seq(Column) /\ IsInjective(df.cols \o more)
  BY <1>1, <1>3, <1>4, ConcatInjective
<1>6. Range(more) \subseteq Column
  BY <1>4, LenProperties DEF Range
<1>7. u \subseteq Column /\ \A c \in df.uniq \ Range(new) : c \in u
  BY <1>1, <1>6
<1> HIDE DEF u
<1> DEFINE r == Widened(df, new)
           all == df.cols \o more
<1>8. r = [df EXCEPT !.cols = all, !.uniq = u] /\ all \in Seq(Column) /\ IsInjective(all)
  BY <1>2, <1>5
<1> HIDE DEF all, r
<1>9. r \in Frame /\ r.cols = all /\ r.uniq = u /\ r.rows = df.rows
  BY <1>1, <1>7, <1>8 DEF Frame
<1>10. r \in Frames
  BY <1>8, <1>9 DEF Frames
<1> QED
  BY <1>4, <1>7, <1>9, <1>10 DEF r, all

\* The row after the import of an action was undone.
LEMMA UndoneAre ==
  ASSUME NEW row \in Rows, NEW new, NEW a \in Action
  PROVE  Undone(row, new, a) \in Rows
<1> DEFINE S == {c \in Range(row.cols) : c.name \notin Range(new)}
           left == Those(row.cols, S)
           acts == [row.acts EXCEPT ![a] = None]
<1>1. row \in Workflow /\ row.cols \in Seq(ColumnRow) /\ IsInjective(Names(row.cols))
      /\ row.acts \in [Action -> ActionRow \cup {None}]
  BY DEF Rows, Workflow
<1>2. Undone(row, new, a) = [row EXCEPT !.cols = left, !.acts = acts]
  BY <1>1 DEF Undone, Workflow
<1> HIDE DEF S
<1>4. left \in Seq(ColumnRow) /\ IsInjective(Names(left))
  BY <1>1, ThoseRows
<1> HIDE DEF left
<1>7. acts \in [Action -> ActionRow \cup {None}]
  BY <1>1
<1> HIDE DEF acts
<1> DEFINE r == [row EXCEPT !.cols = left, !.acts = acts]
<1>8. r \in Workflow /\ r.cols = left
  BY <1>1, <1>4, <1>7 DEF Workflow
<1> HIDE DEF r
<1>9. r \in Rows
  BY <1>4, <1>8 DEF Rows
<1> QED
  BY <1>2, <1>9 DEF r

-----------------------------------------------------------------------------
(* The inductive invariant.                                                *)

\* The keys of a table are among its unique columns.
Fit(cols, df) == \A p \in DOMAIN cols : cols[p].key => cols[p].name \in df.uniq

ActsFit(row) ==
    \A a \in Action : row.acts[a] # None => row.acts[a].columns \subseteq Has(row.cols)

\* What holds of a workflow that nobody has disturbed.
Good(row, df) ==
    /\ Sound(row, df)
    /\ ActsFit(row)
    /\ row.sure /\ df # None => Fit(row.cols, df)

WFiles == {f \in WorkflowFile : /\ IsInjective(Names(f.cols))
                                /\ f.frame \in Frames \cup {None}
                                /\ f.sure /\ f.frame # None => Fit(f.cols, f.frame)}
AFiles == {f \in ActionFile : IsInjective(Names(f.used))}

CloneJobs == [pc: {"clone", "cloneactions", "clonesave"}, src: Id, dst: Id, held: Rows]
ImportJobs == [pc: {"columns", "frame", "actions", "check"}, src: {None}, dst: Id,
               held: {f \in WFiles : f.frame # None}]
ActionJobs == [pc: {"addcolumns", "conditions"}, src: Action, dst: Id,
               held: [act: ActionRow, fresh: {s \in Seq(Column) : IsInjective(s)}]]
Jobs == CloneJobs \cup ImportJobs \cup ActionJobs

\* What a clone has reached.
CloneOK(j, row, df, srow, sdf) ==
    /\ srow # None /\ Good(srow, sdf)
    /\ row # None /\ row.sure = srow.sure
    /\ j.held.size = srow.size
    /\ j.pc = "clone" => row.cols = <<>>
    /\ j.pc # "clone" => /\ sdf # None /\ df = sdf
                         /\ Names(row.cols) = sdf.cols /\ Fit(row.cols, df)
    /\ j.pc # "clonesave" => row.acts = NoActions
    /\ j.pc = "clonesave" => \A a \in Action : SameAction(srow.acts[a], row.acts[a])

\* What an import has reached.
Imported(f) == Reconciled(f.cols, f.frame)
LinkedActs(f) == [a \in Action |-> IF f.acts[a] = None THEN None
                                   ELSE Link(f.acts[a], Imported(f))]
ImportOK(j, row, df) ==
    /\ row # None /\ row.sure = j.held.sure
    /\ j.pc = "columns" => row.cols = <<>>
    /\ j.pc = "frame" => row.cols = j.held.cols
    /\ j.pc \in {"actions", "check"} =>
         /\ row.cols = Imported(j.held) /\ row.size = j.held.size
         /\ df = [j.held.frame EXCEPT !.cols = Names(Imported(j.held))]
    /\ j.pc # "check" => row.acts = NoActions /\ row.views = {}
    /\ j.pc = "check" =>
         row.views = j.held.views /\ row.acts = LinkedActs(j.held) /\ ActsFit(row)

\* What the import of an action has reached.
ActionOK(j, row, df) ==
    /\ row # None
    /\ j.pc = "addcolumns" =>
         /\ df # None /\ Names(row.cols) = df.cols \o j.held.fresh
         /\ Range(df.cols) \cap Range(j.held.fresh) = {}
         /\ ActsFit(row)
         /\ \A p \in DOMAIN row.cols : row.cols[p].key =>
              /\ row.cols[p].name \notin Range(j.held.fresh)
              /\ row.sure => row.cols[p].name \in df.uniq
    /\ j.pc = "conditions" => Good(row, df)

JobOK(j, W, T) ==
    /\ j \in CloneJobs => CloneOK(j, W[j.dst], T[j.dst], W[j.src], T[j.src])
    /\ j \in ImportJobs => ImportOK(j, W[j.dst], T[j.dst])
    /\ j \in ActionJobs => ActionOK(j, W[j.dst], T[j.dst])

Types(W, T, l, J, D) ==
    /\ W \in [Id -> Rows \cup {None}] /\ T \in [Id -> Frames \cup {None}]
    /\ l \in Id /\ D \subseteq Id
    /\ J \in [Web -> Jobs \cup {Idle}]
    /\ \A i \in Id : i > l => W[i] = None /\ T[i] = None
    /\ \A w \in Web : J[w] \in Jobs => J[w].dst <= l
    /\ \A w \in Web : J[w] \in CloneJobs => J[w].src < J[w].dst

Reached(W, T, J, D) ==
    \A w \in Web : J[w] \in Jobs /\ J[w].dst \notin D => JobOK(J[w], W, T)

\* Whatever two requests have in hand, both or neither know of the other.
Apart(J, w, i, D) ==
    \A o \in Web \ {w} :
        J[o] \in Jobs /\ (J[o].dst = i \/ (J[o] \in CloneJobs /\ J[o].src = i)) => J[o].dst \in D
Alone(J, D) == \A w \in Web : J[w] \in Jobs => Apart(J, w, J[w].dst, D)

Settled(W, T, J, D) ==
    \A i \in Id : W[i] # None /\ i \notin D /\ (\A w \in Web : J[w].dst # i) =>
        Good(W[i], T[i])

SInv(W, T, l, J, D) ==
    /\ Types(W, T, l, J, D)
    /\ Reached(W, T, J, D)
    /\ Alone(J, D)
    /\ Settled(W, T, J, D)

IInv == SInv(wf, table, last, job, doubt) /\ files \subseteq WFiles \cup AFiles

\* There is a name for a copy: the names tried are more than the workflows.
LEMMA CopyNameIs ==
  ASSUME last \in Id, last < MaxId, \A i \in Id : i > last => wf[i] = None,
         NEW name \in Title \X Nat
  PROVE  CopyName(name) \in Title \X Nat
<1> DEFINE N(n) == <<name[1], name[2] + n>>
           Free(n) == ~Taken(N(n)) /\ \A m \in 1..(n - 1) : Taken(N(m))
           n0 == CHOOSE n \in 1..MaxId : Free(n)
<1>0. MaxId \in Nat /\ last \in Nat /\ name[1] \in Title /\ name[2] \in Nat
  BY TransferAssumption DEF Id
<1>1. \E n \in 1..MaxId : ~Taken(N(n))
  <2> SUFFICES ASSUME \A n \in 1..MaxId : Taken(N(n)) PROVE FALSE
    OBVIOUS
  <2> DEFINE F == [n \in 1..MaxId |-> CHOOSE i \in Id : wf[i] # None /\ wf[i].name = N(n)]
  <2>1. ASSUME NEW n \in 1..MaxId
        PROVE  F[n] \in 1..last /\ wf[F[n]].name = N(n)
    <3>1. F[n] \in Id /\ wf[F[n]] # None /\ wf[F[n]].name = N(n)
      BY DEF Taken
    <3> HIDE DEF F, N
    <3>2. ~(F[n] > last)
      BY <3>1
    <3> QED
      BY <1>0, <3>1, <3>2 DEF Id
  <2>2. F \in [1..MaxId -> 1..last]
    BY <2>1
  <2>3. ASSUME NEW n \in Nat PROVE IsFiniteSet(1..n) /\ Cardinality(1..n) = n
    BY FS_Interval
  <2> HIDE DEF F
  <2>4. PICK m \in 1..MaxId, n \in 1..MaxId : m # n /\ F[m] = F[n]
    <3> DEFINE A == 1..MaxId
               B == 1..last
    <3>1. IsFiniteSet(A) /\ IsFiniteSet(B) /\ Cardinality(B) < Cardinality(A) /\ F \in [A -> B]
      BY <1>0, <2>2, <2>3
    <3> HIDE DEF A, B
    <3>2. \E x, y \in A : x # y /\ F[x] = F[y]
      BY <3>1, FS_PigeonHole
    <3> QED
      BY <3>2 DEF A
  <2>5. N(m) = N(n)
    <3> HIDE DEF N
    <3> QED
      BY <2>1, <2>4
  <2>6. name[2] + m = name[2] + n
    BY <2>5
  <2>7. \A x, y, z \in Nat : x + y = x + z => y = z
    OBVIOUS
  <2>8. m \in Nat /\ n \in Nat
    OBVIOUS
  <2> QED
    BY <1>0, <2>4, <2>6, <2>7, <2>8
<1>2. \E n \in 1..MaxId : Free(n)
  <2> DEFINE S == {n \in 1..MaxId : ~Taken(N(n))}
  <2>1. S # {} /\ S \in SUBSET Nat
    BY <1>1
  <2>2. PICK n \in S : \A m \in S : n <= m
    BY <2>1, Least
  <2>3. ASSUME NEW m \in 1..(n - 1) PROVE Taken(N(m))
    <3>1. n \in 1..MaxId /\ m \in 1..MaxId /\ ~(n <= m)
      BY <1>0
    <3> QED
      BY <2>2, <3>1
  <2> QED
    BY <2>2, <2>3
<1>3. n0 \in 1..MaxId
  BY <1>2
<1>4. CopyName(name) = N(n0)
  BY DEF CopyName
<1> HIDE DEF n0
<1> QED
  BY <1>0, <1>3, <1>4

-----------------------------------------------------------------------------
(* What one step writes, and what it leaves of the rest.                   *)

LEMMA KindsOfJob ==
  /\ Idle \notin Jobs /\ Idle.dst = None /\ Idle.pc = "idle"
  /\ \A j \in Jobs : j.dst \in Id /\ j.dst # None /\ j.pc # "idle"
  /\ \A j \in CloneJobs : j \in Jobs /\ j.src \in Id /\ j.pc \in {"clone", "cloneactions", "clonesave"}
  /\ \A j \in ImportJobs : j \in Jobs /\ j.pc \in {"columns", "frame", "actions", "check"}
  /\ \A j \in ActionJobs : j \in Jobs /\ j.pc \in {"addcolumns", "conditions"}
  /\ \A j \in Jobs : j \in CloneJobs \/ j \in ImportJobs \/ j \in ActionJobs
<1>1. None \notin Id
  BY TransferAssumption
<1>2. Idle.dst = None /\ Idle.pc = "idle"
  BY DEF Idle
<1>3. \A j \in CloneJobs : j.dst \in Id /\ j.src \in Id /\ j.pc \in {"clone", "cloneactions", "clonesave"}
  BY DEF CloneJobs
<1>4. \A j \in ImportJobs : j.dst \in Id /\ j.pc \in {"columns", "frame", "actions", "check"}
  BY DEF ImportJobs
<1>5. \A j \in ActionJobs : j.dst \in Id /\ j.pc \in {"addcolumns", "conditions"}
  BY DEF ActionJobs
<1> QED
  BY <1>1, <1>2, <1>3, <1>4, <1>5 DEF Jobs

\* The obligation of a process that writes a workflow and goes on as j.
Reaches(j, row, df, W, T) ==
    /\ j \in CloneJobs => CloneOK(j, row, df, W[j.src], T[j.src])
    /\ j \in ImportJobs => ImportOK(j, row, df)
    /\ j \in ActionJobs => ActionOK(j, row, df)
    /\ j = Idle /\ row # None => Good(row, df)

\* The workflow that a clone reads is older, and nobody else's.
Reads(j, J, w, i, E) ==
    j \in CloneJobs =>
        /\ j.src < i
        /\ \A o \in Web \ {w} : J[o] \in Jobs /\ J[o].dst = j.src => i \in E

LEMMA WriteStep ==
  ASSUME NEW W, NEW T, NEW l, NEW J, NEW D, SInv(W, T, l, J, D),
         NEW w \in Web, NEW i \in Id, NEW row \in Rows \cup {None}, NEW df \in Frames \cup {None},
         NEW jb \in Jobs \cup {Idle}, NEW m \in Id, NEW E,
         l <= m, i <= m, D \subseteq E, E \subseteq Id,
         J[w] \in Jobs => J[w].dst = i,
         jb \in Jobs => jb.dst = i,
         Reads(jb, J, w, i, E),
         Apart(J, w, i, E),
         i \notin E => Reaches(jb, row, df, W, T)
  PROVE  SInv([W EXCEPT ![i] = row], [T EXCEPT ![i] = df], m, [J EXCEPT ![w] = jb], E)
<1> DEFINE W2 == [W EXCEPT ![i] = row]
           T2 == [T EXCEPT ![i] = df]
           J2 == [J EXCEPT ![w] = jb]
<1>1. /\ W \in [Id -> Rows \cup {None}] /\ T \in [Id -> Frames \cup {None}]
      /\ l \in Id /\ D \subseteq Id
      /\ J \in [Web -> Jobs \cup {Idle}]
      /\ \A k \in Id : k > l => W[k] = None /\ T[k] = None
      /\ \A o \in Web : J[o] \in Jobs => J[o].dst <= l
      /\ \A o \in Web : J[o] \in CloneJobs => J[o].src < J[o].dst
  BY DEF SInv, Types
<1>2. Reached(W, T, J, D) /\ Alone(J, D) /\ Settled(W, T, J, D)
  BY DEF SInv
<1>3. /\ W2 \in [Id -> Rows \cup {None}] /\ T2 \in [Id -> Frames \cup {None}]
      /\ J2 \in [Web -> Jobs \cup {Idle}]
      /\ W2[i] = row /\ T2[i] = df /\ J2[w] = jb
      /\ \A k \in Id : k # i => W2[k] = W[k] /\ T2[k] = T[k]
      /\ \A o \in Web : o # w => J2[o] = J[o]
  BY <1>1
<1> HIDE DEF W2, T2, J2
<1>4. Id \subseteq Int
  BY DEF Id
<1>5. ASSUME NEW o \in Web, o # w, J[o] \in Jobs, J[o].dst \notin E
      PROVE  J[o].dst # i /\ (J[o] \in CloneJobs => J[o].src # i)
  BY <1>5 DEF Apart
<1>6. Types(W2, T2, m, J2, E)
  <2>1. \A k \in Id : k > m => W2[k] = None /\ T2[k] = None
    <3> SUFFICES ASSUME NEW k \in Id, k > m PROVE W2[k] = None /\ T2[k] = None
      OBVIOUS
    <3>1. k > l /\ k # i
      BY <1>1, <1>4
    <3> QED
      BY <1>1, <1>3, <3>1
  <2>2. \A o \in Web : J2[o] \in Jobs => J2[o].dst <= m
    <3> SUFFICES ASSUME NEW o \in Web, J2[o] \in Jobs PROVE J2[o].dst <= m
      OBVIOUS
    <3>1. CASE o = w
      BY <1>3, <3>1
    <3>2. CASE o # w
      <4>1. J[o] \in Jobs /\ J2[o] = J[o]
        BY <1>3, <3>2
      <4>2. J[o].dst \in Id /\ J[o].dst <= l
        BY <1>1, <4>1, KindsOfJob
      <4>3. l \in Int /\ m \in Int /\ J[o].dst \in Int
        BY <1>1, <1>4, <4>2
      <4> QED
        BY <4>1, <4>2, <4>3
    <3> QED
      BY <3>1, <3>2
  <2>3. \A o \in Web : J2[o] \in CloneJobs => J2[o].src < J2[o].dst
    BY <1>1, <1>3, KindsOfJob DEF Reads
  <2> QED
    BY <1>3, <2>1, <2>2, <2>3 DEF Types
<1>7. Reached(W2, T2, J2, E)
  <2> SUFFICES ASSUME NEW o \in Web, J2[o] \in Jobs, J2[o].dst \notin E
               PROVE  JobOK(J2[o], W2, T2)
    BY DEF Reached
  <2>1. CASE o = w
    <3>1. J2[o] = jb /\ jb.dst = i /\ i \notin E /\ W2[i] = row /\ T2[i] = df
      BY <1>3, <2>1
    <3>2. jb \in CloneJobs => W2[jb.src] = W[jb.src] /\ T2[jb.src] = T[jb.src]
      <4> SUFFICES ASSUME jb \in CloneJobs PROVE W2[jb.src] = W[jb.src] /\ T2[jb.src] = T[jb.src]
        OBVIOUS
      <4>1. jb.src \in Id /\ jb.src < i
        BY KindsOfJob DEF Reads
      <4>2. jb.src # i
        BY <1>4, <4>1
      <4> QED
        BY <1>3, <4>1, <4>2
    <3> QED
      BY <3>1, <3>2 DEF JobOK, Reaches
  <2>2. CASE o # w
    <3>1. J2[o] = J[o] /\ J[o] \in Jobs /\ J[o].dst \notin E /\ J[o].dst \in Id
      BY <1>3, <2>2, KindsOfJob
    <3>2. JobOK(J[o], W, T)
      BY <1>2, <3>1 DEF Reached
    <3>3. /\ W2[J[o].dst] = W[J[o].dst] /\ T2[J[o].dst] = T[J[o].dst]
          /\ J[o] \in CloneJobs => W2[J[o].src] = W[J[o].src] /\ T2[J[o].src] = T[J[o].src]
      BY <1>3, <1>5, <2>2, <3>1, KindsOfJob
    <3> QED
      BY <3>1, <3>2, <3>3 DEF JobOK
  <2> QED
    BY <2>1, <2>2
<1>8. Alone(J2, E)
  <2> SUFFICES ASSUME NEW v \in Web, J2[v] \in Jobs, NEW o \in Web \ {v}, J2[o] \in Jobs,
                      J2[o].dst = J2[v].dst \/ (J2[o] \in CloneJobs /\ J2[o].src = J2[v].dst)
               PROVE  J2[o].dst \in E
    BY DEF Alone, Apart
  <2>1. CASE v = w
    BY <1>3, <2>1 DEF Apart
  <2>2. CASE v # w /\ o = w
    <3>1. J2[o] = jb /\ jb.dst = i /\ J2[v] = J[v]
      BY <1>3, <2>2
    <3> QED
      BY <2>2, <3>1 DEF Apart, Reads
  <2>3. CASE v # w /\ o # w
    <3>1. J2[o] = J[o] /\ J2[v] = J[v]
      BY <1>3, <2>3
    <3> QED
      BY <1>2, <3>1 DEF Alone, Apart
  <2> QED
    BY <2>1, <2>2, <2>3
<1>9. Settled(W2, T2, J2, E)
  <2> SUFFICES ASSUME NEW k \in Id, W2[k] # None, k \notin E, \A o \in Web : J2[o].dst # k
               PROVE  Good(W2[k], T2[k])
    BY DEF Settled
  <2>1. CASE k = i
    <3>1. jb = Idle
      BY <1>3, <2>1
    <3> QED
      BY <1>3, <2>1, <3>1 DEF Reaches
  <2>2. CASE k # i
    <3>1. \A o \in Web : J[o].dst # k
      <4> SUFFICES ASSUME NEW o \in Web PROVE J[o].dst # k
        OBVIOUS
      <4>1. CASE o = w
        <5>1. J[o] \in Jobs \/ J[o] = Idle
          BY <1>1
        <5> QED
          BY <2>2, <4>1, <5>1, KindsOfJob, TransferAssumption
      <4>2. CASE o # w
        BY <1>3, <4>2
      <4> QED
        BY <4>1, <4>2
    <3>2. W2[k] = W[k] /\ T2[k] = T[k]
      BY <1>3, <2>2
    <3> QED
      BY <1>2, <3>1, <3>2 DEF Settled
  <2> QED
    BY <2>1, <2>2
<1> QED
  BY <1>6, <1>7, <1>8, <1>9 DEF SInv, W2, T2, J2

LEMMA Typed ==
  ASSUME IInv
  PROVE  /\ wf \in [Id -> Rows \cup {None}] /\ table \in [Id -> Frames \cup {None}]
         /\ last \in Id /\ doubt \subseteq Id
         /\ job \in [Web -> Jobs \cup {Idle}]
         /\ \A k \in Id : k > last => wf[k] = None /\ table[k] = None
         /\ \A o \in Web : job[o] \in Jobs => job[o].dst <= last
         /\ \A o \in Web : job[o] \in CloneJobs => job[o].src < job[o].dst
         /\ files \subseteq WFiles \cup AFiles
         /\ SInv(wf, table, last, job, doubt)
BY DEF IInv, SInv, Types

\* The workflow of a process at work is in nobody else's hands.
LEMMA OwnedApart ==
  ASSUME IInv, NEW w \in Web, job[w] \in Jobs, NEW E, doubt \subseteq E
  PROVE  Apart(job, w, job[w].dst, E)
BY DEF IInv, SInv, Alone, Apart

\* A request marks what the others have in hand.
LEMMA Disturbed ==
  ASSUME IInv, NEW w \in Web, NEW i \in Id
  PROVE  /\ Disturbs(w, i) \subseteq Id
         /\ \A E : Disturbs(w, i) \subseteq E => Apart(job, w, i, E)
<1>1. ASSUME NEW o \in Web, job[o].pc # "idle" PROVE job[o].dst \in Id
  BY <1>1, Typed, KindsOfJob
<1>2. Disturbs(w, i) \subseteq Id
  BY <1>1 DEF Disturbs
<1>3. ASSUME NEW o \in Web \ {w}, job[o] \in Jobs,
             job[o].dst = i \/ (job[o] \in CloneJobs /\ job[o].src = i)
      PROVE  job[o].dst \in Disturbs(w, i)
  <2>1. job[o].pc # "idle" /\ i \in {job[o].src, job[o].dst}
    BY <1>3, KindsOfJob
  <2> QED
    BY <2>1 DEF Disturbs
<1>4. \A E : Disturbs(w, i) \subseteq E => Apart(job, w, i, E)
  BY <1>3 DEF Apart
<1> QED
  BY <1>2, <1>4

\* The job that a process goes on with is about the same workflows.
Follows(jb, j) ==
    /\ jb \in Jobs => jb.dst = j.dst
    /\ jb \in CloneJobs => j \in CloneJobs /\ jb.src = j.src

\* A step of a process at work.
LEMMA OwnStep ==
  ASSUME IInv, NEW w \in Web, job[w] \in Jobs,
         NEW row \in Rows \cup {None}, NEW df \in Frames \cup {None}, NEW jb \in Jobs \cup {Idle},
         Write(w, job[w].dst, row, df), job' = [job EXCEPT ![w] = jb], doubt \subseteq doubt', doubt' \subseteq Id,
         last' = last, files' = files,
         Follows(jb, job[w]),
         job[w].dst \notin doubt' /\ JobOK(job[w], wf, table) => Reaches(jb, row, df, wf, table)
  PROVE  IInv'
<1> DEFINE i == job[w].dst
           W == wf
           T == table
           J == job
           D == doubt
           E == doubt'
           l == last
<1>1. i \in Id /\ i <= l /\ l \in Id /\ SInv(W, T, l, J, D)
  BY Typed, KindsOfJob
<1>2. D \subseteq E /\ E \subseteq Id /\ l <= l
  BY <1>1 DEF Id
<1>3. Apart(J, w, i, E)
  BY OwnedApart
<1>4. Reads(jb, J, w, i, E)
  <2> SUFFICES ASSUME jb \in CloneJobs
               PROVE  /\ jb.src < i
                      /\ \A o \in Web \ {w} : J[o] \in Jobs /\ J[o].dst = jb.src => i \in E
    BY DEF Reads
  <2>1. J[w] \in CloneJobs /\ jb.src = J[w].src
    BY DEF Follows
  <2>2. jb.src < i
    BY <2>1, Typed
  <2>3. ASSUME NEW o \in Web \ {w}, J[o] \in Jobs, J[o].dst = jb.src PROVE i \in E
    <3>1. Apart(J, o, J[o].dst, E)
      BY <1>2, <2>3, OwnedApart
    <3> QED
      BY <2>1, <2>3, <3>1 DEF Apart
  <2> QED
    BY <2>2, <2>3
<1>5. i \notin E => Reaches(jb, row, df, W, T)
  <2> SUFFICES ASSUME i \notin E PROVE JobOK(job[w], wf, table)
    OBVIOUS
  <2> QED
    BY <1>1, <1>2 DEF SInv, Reached
<1>6. wf' = [W EXCEPT ![i] = row] /\ table' = [T EXCEPT ![i] = df] /\ job' = [J EXCEPT ![w] = jb]
      /\ last' = l
  BY DEF Write
<1>10. (J[w] \in Jobs => J[w].dst = i) /\ (jb \in Jobs => jb.dst = i)
  BY DEF Follows
<1>7. files' \subseteq WFiles \cup AFiles
  BY Typed
<1> HIDE DEF i, W, T, J, D, l
<1>8. SInv([W EXCEPT ![i] = row], [T EXCEPT ![i] = df], l, [J EXCEPT ![w] = jb], E)
  <2> HIDE DEF E
  <2> QED
    BY <1>1, <1>2, <1>3, <1>4, <1>5, <1>10, WriteStep
<1>9. SInv(wf', table', last', job', doubt')
  BY <1>6, <1>8
<1> QED
  BY <1>7, <1>9 DEF IInv

\* A request that fails or dies.
LEMMA RaiseStep ==
  ASSUME IInv, NEW w \in Web, job[w] \in Jobs, Raise(w), last' = last, files' = files
  PROVE  IInv'
<1>1. job[w].dst \in Id
  BY KindsOfJob
<1>2. /\ wf' = [wf EXCEPT ![job[w].dst] = wf[job[w].dst]]
      /\ table' = [table EXCEPT ![job[w].dst] = table[job[w].dst]]
      /\ job' = [job EXCEPT ![w] = Idle]
      /\ doubt' = doubt \cup {job[w].dst}
  BY <1>1, Typed DEF Raise, End
<1>3. /\ wf[job[w].dst] \in Rows \cup {None} /\ table[job[w].dst] \in Frames \cup {None}
      /\ doubt \subseteq doubt' /\ doubt' \subseteq Id /\ job[w].dst \in doubt'
  BY <1>1, <1>2, Typed
<1>4. Idle \in Jobs \cup {Idle} /\ Follows(Idle, job[w])
  BY KindsOfJob DEF Follows
<1>5. Write(w, job[w].dst, wf[job[w].dst], table[job[w].dst])
  BY <1>2 DEF Write
<1> QED
  BY <1>1, <1>2, <1>3, <1>4, <1>5, OwnStep

\* A request that writes one workflow, and may go on with it.
LEMMA WriteFirst ==
  ASSUME IInv, NEW w \in Web, job[w].pc = "idle", NEW i \in Id, wf[i] # None,
         NEW row \in Rows \cup {None}, NEW df \in Frames \cup {None},
         NEW jb \in ActionJobs \cup {Idle}, jb \in Jobs => jb.dst = i,
         Write(w, i, row, df), job' = [job EXCEPT ![w] = jb], last' = last, files' = files,
         doubt \cup Disturbs(w, i) \subseteq doubt', doubt' \subseteq Id,
         i \notin doubt' /\ Good(wf[i], table[i]) => Reaches(jb, row, df, wf, table)
  PROVE  IInv'
<1> DEFINE W == wf
           T == table
           J == job
           D == doubt
           E == doubt'
           l == last
<1>1. job[w] = Idle
  BY Typed, KindsOfJob
<1>2. ~(i > l) /\ l \in Id /\ SInv(W, T, l, J, D)
  BY Typed
<1>3. E \subseteq Id /\ D \subseteq E /\ Apart(J, w, i, E)
  BY Disturbed
<1>4. i \notin E => Reaches(jb, row, df, W, T)
  <2> SUFFICES ASSUME i \notin E PROVE Good(wf[i], table[i])
    OBVIOUS
  <2>1. \A o \in Web : J[o].dst # i
    <3> SUFFICES ASSUME NEW o \in Web, J[o].dst = i PROVE FALSE
      OBVIOUS
    <3>1. J[o] \in Jobs
      BY Typed, KindsOfJob, TransferAssumption
    <3>2. o # w
      BY <1>1, <3>1, KindsOfJob
    <3> QED
      BY <1>3, <3>1, <3>2 DEF Apart
  <2> QED
    BY <1>2, <1>3, <2>1 DEF SInv, Settled
<1>5. /\ wf' = [W EXCEPT ![i] = row] /\ table' = [T EXCEPT ![i] = df]
      /\ job' = [J EXCEPT ![w] = jb] /\ last' = l
  BY DEF Write
<1>6. jb \in Jobs \cup {Idle} /\ jb \notin CloneJobs /\ (J[w] \in Jobs => J[w].dst = i)
  BY <1>1, KindsOfJob
<1>7. files' \subseteq WFiles \cup AFiles
  BY Typed
<1>8. i <= l /\ l <= l
  BY <1>2 DEF Id
<1>9. Reads(jb, J, w, i, E)
  BY <1>6 DEF Reads
<1> HIDE DEF W, T, J, D, l
<1>10. SInv([W EXCEPT ![i] = row], [T EXCEPT ![i] = df], l, [J EXCEPT ![w] = jb], E)
  <2> HIDE DEF E
  <2> QED
    BY <1>2, <1>3, <1>4, <1>6, <1>8, <1>9, WriteStep
<1>11. SInv(wf', table', last', job', doubt')
  BY <1>5, <1>10
<1> QED
  BY <1>7, <1>11 DEF IInv

\* One request that begins and ends with a write.
LEMMA WriteAtOnce ==
  ASSUME IInv, NEW w \in Web, job[w].pc = "idle", NEW i \in Id, wf[i] # None,
         NEW row \in Rows \cup {None}, NEW df \in Frames \cup {None},
         Write(w, i, row, df), Disturb(w, i), UNCHANGED <<last, files, job>>,
         Good(wf[i], table[i]) => row = None \/ Good(row, df)
  PROVE  IInv'
<1>1. job' = [job EXCEPT ![w] = Idle]
  BY Typed, KindsOfJob
<1>2. doubt \cup Disturbs(w, i) \subseteq doubt' /\ doubt' \subseteq Id
  BY Typed, Disturbed DEF Disturb
<1>3. /\ Idle \notin Jobs /\ Idle \notin CloneJobs /\ Idle \notin ImportJobs
      /\ Idle \notin ActionJobs
  BY KindsOfJob
<1>4. Good(wf[i], table[i]) => Reaches(Idle, row, df, wf, table)
  BY <1>3 DEF Reaches
<1> QED
  BY <1>1, <1>2, <1>3, <1>4, WriteFirst

\* A request that makes a workflow.
LEMMA MakeFirst ==
  ASSUME IInv, NEW w \in Web, job[w].pc = "idle", last < MaxId, last' = last + 1,
         NEW row \in Rows, NEW jb \in Jobs \cup {Idle}, jb \in Jobs => jb.dst = last + 1,
         wf' = [wf EXCEPT ![last + 1] = row], job' = [job EXCEPT ![w] = jb],
         UNCHANGED <<table, files>>, doubt \subseteq doubt', doubt' \subseteq Id,
         Reads(jb, job, w, last + 1, doubt'),
         last + 1 \notin doubt' => Reaches(jb, row, None, wf, table)
  PROVE  IInv'
<1> DEFINE W == wf
           T == table
           J == job
           D == doubt
           E == doubt'
           l == last
           i == last + 1
<1>1. job[w] = Idle
  BY Typed, KindsOfJob
<1>2. l \in Id /\ SInv(W, T, l, J, D)
  BY Typed
<1>3. i \in Id /\ i > l /\ l <= i /\ i <= i
  BY <1>2, TransferAssumption DEF Id
<1>4. T[i] = None /\ T = [T EXCEPT ![i] = None]
  BY <1>3, Typed
<1>5. Apart(J, w, i, E)
  <2> SUFFICES ASSUME NEW o \in Web, J[o] \in Jobs
               PROVE  J[o].dst # i /\ (J[o] \in CloneJobs => J[o].src # i)
    BY DEF Apart
  <2>1. J[o].dst \in Id /\ J[o].dst <= l
    BY Typed, KindsOfJob
  <2>2. J[o] \in CloneJobs => J[o].src \in Id /\ J[o].src < J[o].dst
    BY Typed, KindsOfJob
  <2> QED
    BY <1>2, <1>3, <2>1, <2>2 DEF Id
<1>6. /\ wf' = [W EXCEPT ![i] = row] /\ table' = [T EXCEPT ![i] = None]
      /\ job' = [J EXCEPT ![w] = jb] /\ last' = i
  BY <1>4
<1>7. (J[w] \in Jobs => J[w].dst = i) /\ row \in Rows \cup {None} /\ None \in Frames \cup {None}
  BY <1>1, KindsOfJob
<1>8. files' \subseteq WFiles \cup AFiles
  BY Typed
<1>9. Reads(jb, J, w, i, E) /\ (i \notin E => Reaches(jb, row, None, W, T)) /\ D \subseteq E
      /\ (jb \in Jobs => jb.dst = i) /\ E \subseteq Id
  OBVIOUS
<1> HIDE DEF W, T, J, D, l, i
<1>10. SInv([W EXCEPT ![i] = row], [T EXCEPT ![i] = None], i, [J EXCEPT ![w] = jb], E)
  <2> HIDE DEF E
  <2> QED
    BY <1>2, <1>3, <1>5, <1>7, <1>9, WriteStep
<1>11. SInv(wf', table', last', job', doubt')
  BY <1>6, <1>10
<1> QED
  BY <1>8, <1>11 DEF IInv

-----------------------------------------------------------------------------
(* Rows and tables that the requests make.                                 *)

LEMMA NoneIsNone == None \notin Id /\ None \notin Rows /\ None \notin Frames /\ None \notin ActionRow
BY TransferAssumption DEF Rows, Frames

LEMMA RowTyped ==
  ASSUME NEW row \in Rows
  PROVE  /\ row \in Workflow /\ row.cols \in Seq(ColumnRow) /\ IsInjective(Names(row.cols))
         /\ row.acts \in [Action -> ActionRow \cup {None}]
         /\ row.views \in SUBSET ((SUBSET Column) \ {{}})
         /\ row.name \in Title \X Nat /\ row.size \in Size
         /\ row.stored \in BOOLEAN /\ row.sure \in BOOLEAN
BY DEF Rows, Workflow

LEMMA NoNames == /\ <<>> \in Seq(ColumnRow) /\ Names(<<>>) = <<>> /\ Has(<<>>) = {}
                 /\ IsInjective(Names(<<>>)) /\ DOMAIN <<>> = {} /\ Len(<<>>) = 0
<1>1. <<>> \in Seq(ColumnRow) /\ Len(<<>>) = 0
  BY EmptySeq
<1>2. Names(<<>>) = <<>>
  BY <1>1, NamesAre
<1>3. DOMAIN <<>> = {}
  <2>1. \A p \in 1..0 : FALSE
    OBVIOUS
  <2> QED
    BY <1>1, <2>1, NamesAre
<1> QED
  BY <1>1, <1>2, <1>3 DEF Has, Range, IsInjective

LEMMA NoActionsAre ==
  /\ NoActions \in [Action -> ActionRow \cup {None}]
  /\ \A a \in Action : NoActions[a] = None
BY DEF NoActions

LEMMA EmptyIs ==
  ASSUME NEW name \in Title \X Nat
  PROVE  /\ Empty(name) \in Rows /\ Empty(name).cols = <<>>
         /\ Empty(name).acts = NoActions /\ Empty(name).views = {}
         /\ Empty(name).size = [nrows |-> 0, ncols |-> 0]
         /\ \A s \in BOOLEAN : [Empty(name) EXCEPT !.sure = s] \in Rows
<1> DEFINE z == [nrows |-> 0, ncols |-> 0]
           e == Empty(name)
<1>1. z \in Size
  BY DEF Size
<1>2. e = [name |-> name, size |-> z, stored |-> FALSE,
           cols |-> <<>>, acts |-> NoActions, views |-> {}, sure |-> TRUE]
  BY DEF Empty
<1> HIDE DEF z, e
<1>3. {} \in SUBSET ((SUBSET Column) \ {{}})
  OBVIOUS
<1>4. e \in Workflow
  BY <1>1, <1>2, <1>3, NoNames, NoActionsAre DEF Workflow
<1>5. e.cols = <<>> /\ e.acts = NoActions /\ e.views = {} /\ e.size = z
  BY <1>2
<1>6. e \in Rows
  BY <1>4, <1>5, NoNames DEF Rows
<1>7. ASSUME NEW s \in BOOLEAN PROVE [e EXCEPT !.sure = s] \in Rows
  <2> DEFINE r == [e EXCEPT !.sure = s]
  <2>1. r \in Workflow /\ r.cols = e.cols
    BY <1>4 DEF Workflow
  <2> HIDE DEF r
  <2>2. r \in Rows
    BY <1>5, <2>1, NoNames DEF Rows
  <2> QED
    BY <2>2 DEF r
<1> QED
  BY <1>5, <1>6, <1>7 DEF e, z

\* What a row that agrees with its table is.
LEMMA SoundIs ==
  ASSUME NEW row, NEW df, df # None
  PROVE  Sound(row, df) <=> /\ row.size = [nrows |-> df.rows, ncols |-> Len(df.cols)]
                            /\ Names(row.cols) = df.cols
BY DEF Sound

\* Nothing but these fields matters.
LEMMA GoodSame ==
  ASSUME NEW a, NEW b, NEW df, Good(a, df),
         b.cols = a.cols, b.size = a.size, b.acts = a.acts, b.sure = a.sure
  PROVE  Good(b, df)
BY DEF Good, Sound, ActsFit, Fit

\* Without actions or columns.
LEMMA EmptyGood ==
  ASSUME NEW row, row.cols = <<>>, row.size = [nrows |-> 0, ncols |-> 0],
         \A a \in Action : row.acts[a] = None \/ row.acts[a].columns = {}
  PROVE  Good(row, None)
<1>1. Sound(row, None)
  BY NoNames DEF Sound
<1>2. ActsFit(row)
  BY DEF ActsFit
<1> QED
  BY <1>1, <1>2 DEF Good

\* A row and a table that were stored agree.
LEMMA StoredSound ==
  ASSUME NEW row \in Rows, NEW df \in Frames, Has(row.cols) \subseteq Range(df.cols)
  PROVE  Sound(StoreRow(row, df), StoreTable(row, df))
<1> DEFINE all == Reconciled(row.cols, df)
<1>1. all \in Seq(ColumnRow) /\ IsInjective(Names(all))
  BY RowTyped, ReconciledAre
<1>2. Len(Names(all)) = Len(all)
  BY <1>1, NamesAre
<1>3. /\ StoreRow(row, df).cols = all /\ StoreTable(row, df).cols = Names(all)
      /\ StoreTable(row, df).rows = df.rows
      /\ StoreRow(row, df).size = [nrows |-> df.rows, ncols |-> Len(all)]
      /\ StoreTable(row, df) # None
  BY StoredAre, NoneIsNone
<1> HIDE DEF all
<1> QED
  BY <1>2, <1>3, SoundIs

-----------------------------------------------------------------------------
(* The requests on one workflow.                                           *)

LEMMA CreateStep ==
  ASSUME IInv, NEW w \in Web, NEW t \in Title, Create(w, t)
  PROVE  IInv'
<1> DEFINE row == Empty(<<t, 0>>)
<1>1. <<t, 0>> \in Title \X Nat
  OBVIOUS
<1>2. row \in Rows /\ Good(row, None)
  BY <1>1, EmptyIs, EmptyGood, NoActionsAre
<1>3. job[w].pc = "idle" /\ last < MaxId /\ last' = last + 1 /\ wf' = [wf EXCEPT ![last + 1] = row]
      /\ table' = table /\ files' = files /\ doubt' = doubt /\ job' = job
  BY DEF Create, Serve
<1> HIDE DEF row
<1>4. job' = [job EXCEPT ![w] = Idle]
  BY <1>3, Typed, KindsOfJob
<1>5. Idle \notin Jobs /\ Idle \notin CloneJobs /\ Idle \notin ImportJobs /\ Idle \notin ActionJobs
  BY KindsOfJob
<1>6. Reads(Idle, job, w, last + 1, doubt') /\ Reaches(Idle, row, None, wf, table)
  BY <1>2, <1>5 DEF Reads, Reaches
<1>7. doubt \subseteq doubt' /\ doubt' \subseteq Id
  BY <1>3, Typed
<1> QED
  BY <1>2, <1>3, <1>4, <1>5, <1>6, <1>7, MakeFirst

LEMMA RenameStep ==
  ASSUME IInv, NEW w \in Web, NEW i \in Id, NEW t \in Title, Rename(w, i, t)
  PROVE  IInv'
<1> DEFINE row == [wf[i] EXCEPT !.name = <<t, 0>>]
<1>1. /\ job[w].pc = "idle" /\ wf[i] # None /\ Write(w, i, row, table[i]) /\ Disturb(w, i)
      /\ UNCHANGED <<last, files, job>>
  BY DEF Rename, Serve
<1>2. wf[i] \in Rows /\ table[i] \in Frames \cup {None}
  BY <1>1, Typed
<1>3. row \in Workflow /\ row.cols = wf[i].cols /\ row.size = wf[i].size
      /\ row.acts = wf[i].acts /\ row.sure = wf[i].sure
  BY <1>2, RowTyped DEF Workflow
<1> HIDE DEF row
<1>4. row \in Rows
  BY <1>2, <1>3, RowTyped DEF Rows
<1>5. Good(wf[i], table[i]) => Good(row, table[i])
  BY <1>3, GoodSame
<1> QED
  BY <1>1, <1>2, <1>4, <1>5, WriteAtOnce

LEMMA FirstUploadStep ==
  ASSUME IInv, NEW w \in Web, NEW i \in Id, NEW df \in Upload, FirstUpload(w, i, df)
  PROVE  IInv'
<1> DEFINE row == StoreRow(wf[i], df)
           st == StoreTable(wf[i], df)
<1>1. /\ job[w].pc = "idle" /\ wf[i] # None /\ Write(w, i, row, st) /\ Disturb(w, i)
      /\ UNCHANGED <<last, files, job>> /\ wf[i].cols = <<>>
  BY DEF FirstUpload, Serve
<1>2. wf[i] \in Rows /\ df \in Frames
  BY <1>1, Typed, TransferAssumption DEF Frames
<1>3. Has(wf[i].cols) = {} /\ DOMAIN wf[i].cols = {} /\ wf[i].cols \in Seq(ColumnRow)
      /\ IsInjective(Names(wf[i].cols))
  BY <1>1, <1>2, NoNames, RowTyped
<1>4. /\ row \in Rows /\ st \in Frames /\ row.acts = wf[i].acts
      /\ row.cols = Reconciled(wf[i].cols, df) /\ st.uniq = df.uniq /\ Sound(row, st)
  BY <1>2, <1>3, StoredAre, StoredSound
<1>5. Fit(row.cols, st)
  BY <1>2, <1>3, <1>4, ReconciledAre DEF Fit
<1> HIDE DEF row, st
<1>6. Good(wf[i], table[i]) => Good(row, st)
  <2> SUFFICES ASSUME ActsFit(wf[i]) PROVE ActsFit(row)
    BY <1>4, <1>5 DEF Good
  <2>1. \A a \in Action : wf[i].acts[a] # None => wf[i].acts[a].columns \subseteq {}
    BY <1>3 DEF ActsFit
  <2> QED
    BY <1>4, <2>1 DEF ActsFit
<1> QED
  BY <1>1, <1>4, <1>6, WriteAtOnce

LEMMA FlushStep ==
  ASSUME IInv, NEW w \in Web, NEW i \in Id, Flush(w, i)
  PROVE  IInv'
<1> DEFINE acts == [a \in Action |-> IF wf[i].acts[a] = None THEN None ELSE Bare]
           e == Empty(wf[i].name)
           row == [e EXCEPT !.acts = acts]
<1>1. /\ job[w].pc = "idle" /\ wf[i] # None /\ Write(w, i, row, None) /\ Disturb(w, i)
      /\ UNCHANGED <<last, files, job>>
  BY DEF Flush, Serve
<1>2. wf[i] \in Rows /\ wf[i].name \in Title \X Nat
  BY <1>1, Typed, RowTyped
<1>3. e \in Rows /\ e \in Workflow /\ e.cols = <<>> /\ e.size = [nrows |-> 0, ncols |-> 0]
  BY <1>2, EmptyIs, RowTyped
<1>4. Bare \in ActionRow /\ Bare.columns = {}
  BY DEF Bare, ActionRow
<1>5. acts \in [Action -> ActionRow \cup {None}]
      /\ \A a \in Action : acts[a] = None \/ acts[a].columns = {}
  BY <1>4
<1> HIDE DEF acts, e
<1>6. row \in Workflow /\ row.cols = <<>> /\ row.size = [nrows |-> 0, ncols |-> 0]
      /\ row.acts = acts
  BY <1>3, <1>5 DEF Workflow
<1> HIDE DEF row
<1>7. row \in Rows /\ Good(row, None)
  BY <1>5, <1>6, NoNames, EmptyGood DEF Rows
<1> QED
  BY <1>1, <1>7, WriteAtOnce

LEMMA DeleteStep ==
  ASSUME IInv, NEW w \in Web, NEW i \in Id, Delete(w, i)
  PROVE  IInv'
<1>1. /\ job[w].pc = "idle" /\ wf[i] # None /\ Write(w, i, None, None) /\ Disturb(w, i)
      /\ UNCHANGED <<last, files, job>>
  BY DEF Delete, Serve
<1> QED
  BY <1>1, WriteAtOnce

\* An action that a column leaves.
LeftAct(a, c) ==
    IF a = None THEN None
    ELSE [a EXCEPT !.columns = @ \ {c},
                   !.names = IF c \in @ THEN {} ELSE @,
                   !.links = IF c \in a.names THEN {} ELSE @ \ {c}]

LEMMA LeftActIs ==
  ASSUME NEW a \in ActionRow \cup {None}, NEW c
  PROVE  /\ LeftAct(a, c) \in ActionRow \cup {None}
         /\ LeftAct(a, c) # None => a # None /\ LeftAct(a, c).columns = a.columns \ {c}
<1>1. CASE a = None
  BY <1>1 DEF LeftAct
<1>2. CASE a # None
  <2> DEFINE n == IF c \in a.names THEN {} ELSE a.names
             k == IF c \in a.names THEN {} ELSE a.links \ {c}
             b == [a EXCEPT !.columns = a.columns \ {c}, !.names = n, !.links = k]
  <2>1. a \in ActionRow /\ a.columns \subseteq Column /\ a.names \subseteq Column /\ a.links \subseteq Column
    BY <1>2 DEF ActionRow
  <2>2. n \subseteq Column /\ k \subseteq Column /\ a.columns \ {c} \subseteq Column
    BY <2>1
  <2>3. LeftAct(a, c) = b
    BY <1>2 DEF LeftAct
  <2> HIDE DEF n, k
  <2>4. b \in ActionRow /\ b.columns = a.columns \ {c}
    BY <2>1, <2>2 DEF ActionRow
  <2> QED
    BY <1>2, <2>3, <2>4
<1> QED
  BY <1>1, <1>2

LEMMA ColumnDeleteStep ==
  ASSUME IInv, NEW w \in Web, NEW i \in Id, NEW c \in Column, ColumnDelete(w, i, c)
  PROVE  IInv'
<1> DEFINE old == wf[i]
           df == table[i]
<1>1. PICK p \in DOMAIN old.cols :
        /\ old.cols[p].name = c
        /\ Write(w, i, [old EXCEPT !.cols = Without(old.cols, old.cols[p]),
                                   !.size.ncols = old.size.ncols - 1,
                                   !.acts = [a \in Action |-> LeftAct(old.acts[a], c)],
                                   !.views = ViewsWithout(old.views, c)],
                       [df EXCEPT !.cols = Without(df.cols, c), !.uniq = df.uniq \ {c}])
  BY DEF ColumnDelete, LeftAct
<1>2. /\ job[w].pc = "idle" /\ wf[i] # None /\ table[i] # None /\ Disturb(w, i)
      /\ UNCHANGED <<last, files, job>>
  BY DEF ColumnDelete, Serve
<1>3. old \in Rows /\ df \in Frames
  BY <1>2, Typed
<1> HIDE DEF old, df
<1> DEFINE cols == Without(old.cols, old.cols[p])
           size == [old.size EXCEPT !.ncols = old.size.ncols - 1]
           acts == [a \in Action |-> LeftAct(old.acts[a], c)]
           views == ViewsWithout(old.views, c)
           dcols == Without(df.cols, c)
           row == [old EXCEPT !.cols = cols, !.size = size, !.acts = acts, !.views = views]
           st == [df EXCEPT !.cols = dcols, !.uniq = df.uniq \ {c}]
<1>4. old \in Workflow /\ old.cols \in Seq(ColumnRow) /\ IsInjective(Names(old.cols))
      /\ old.acts \in [Action -> ActionRow \cup {None}]
      /\ old.views \in SUBSET ((SUBSET Column) \ {{}}) /\ old.size \in Size
  BY <1>3, RowTyped
<1>5. df \in Frame /\ df.cols \in Seq(Column) /\ IsInjective(df.cols) /\ df.uniq \subseteq Column
  BY <1>3 DEF Frames, Frame
<1>6. /\ cols \in Seq(ColumnRow)
      /\ Names(cols) = Without(Names(old.cols), c)
      /\ IsInjective(Names(cols))
      /\ Len(cols) = Len(old.cols) - 1
      /\ Has(cols) = Has(old.cols) \ {c}
      /\ Range(cols) \subseteq Range(old.cols)
  BY <1>1, <1>4, NamesWithout
<1>7. size \in Size /\ size = [nrows |-> old.size.nrows, ncols |-> old.size.ncols - 1]
  BY <1>4 DEF Size
<1>8. acts \in [Action -> ActionRow \cup {None}]
      /\ \A a \in Action : acts[a] # None => /\ old.acts[a] # None
                                             /\ acts[a].columns = old.acts[a].columns \ {c}
  BY <1>4, LeftActIs
<1>9. views \in SUBSET ((SUBSET Column) \ {{}})
  BY <1>4 DEF ViewsWithout
<1>10. dcols \in Seq(Column) /\ IsInjective(dcols)
  BY <1>5, ThoseAre DEF Without
<1>11. Write(w, i, row, st)
  <2>1. [old EXCEPT !.cols = cols, !.size.ncols = old.size.ncols - 1,
                    !.acts = acts, !.views = views] = row
    BY <1>4 DEF Workflow
  <2> QED
    BY <1>1, <2>1
<1> HIDE DEF cols, size, acts, views, dcols
<1>12. /\ row \in Workflow /\ row.cols = cols /\ row.size = size /\ row.acts = acts
       /\ row.sure = old.sure
  BY <1>4, <1>6, <1>7, <1>8, <1>9 DEF Workflow
<1>13. st \in Frame /\ st.cols = dcols /\ st.uniq = df.uniq \ {c} /\ st.rows = df.rows
  BY <1>5, <1>10 DEF Frame
<1> HIDE DEF row, st
<1>14. row \in Rows /\ st \in Frames
  BY <1>6, <1>10, <1>12, <1>13 DEF Rows, Frames
<1>15. ASSUME Good(old, df) PROVE Good(row, st)
  <2>1. df # None /\ st # None
    BY <1>3, <1>14, NoneIsNone
  <2>2. old.size = [nrows |-> df.rows, ncols |-> Len(df.cols)] /\ Names(old.cols) = df.cols
    BY <1>15, <2>1, SoundIs DEF Good
  <2>3. Names(cols) = dcols
    BY <1>6, <2>2 DEF dcols
  <2>4. Len(df.cols) = Len(old.cols) /\ Len(dcols) = Len(cols)
    BY <1>4, <1>6, <2>2, <2>3, NamesAre
  <2>5. size = [nrows |-> st.rows, ncols |-> Len(st.cols)]
    BY <1>6, <1>7, <1>13, <2>2, <2>4
  <2>6. Sound(row, st)
    BY <1>12, <1>13, <2>1, <2>3, <2>5, SoundIs
  <2>7. ActsFit(row)
    BY <1>6, <1>8, <1>12, <1>15 DEF Good, ActsFit
  <2>8. ASSUME row.sure PROVE Fit(row.cols, st)
    <3> SUFFICES ASSUME NEW q \in DOMAIN cols, cols[q].key
                 PROVE  cols[q].name \in df.uniq \ {c}
      BY <1>12, <1>13 DEF Fit
    <3>1. cols[q].name # c
      BY <1>6, NamesAre
    <3>2. cols[q] \in Range(old.cols)
      BY <1>6 DEF Range
    <3>3. PICK r \in DOMAIN old.cols : cols[q] = old.cols[r]
      BY <3>2 DEF Range
    <3>4. Fit(old.cols, df)
      BY <1>12, <1>15, <2>1, <2>8 DEF Good
    <3> QED
      BY <3>1, <3>3, <3>4 DEF Fit
  <2> QED
    BY <2>6, <2>7, <2>8 DEF Good
<1> QED
  BY <1>2, <1>11, <1>14, <1>15, WriteAtOnce DEF old, df

-----------------------------------------------------------------------------
(* The steps of a clone.                                                   *)

\* Which request a process is serving, from where it is.
LEMMA JobAt ==
  ASSUME IInv, NEW w \in Web
  PROVE  /\ job[w].pc \in {"clone", "cloneactions", "clonesave"} => job[w] \in CloneJobs
         /\ job[w].pc \in {"columns", "frame", "actions", "check"} => job[w] \in ImportJobs
         /\ job[w].pc \in {"addcolumns", "conditions"} => job[w] \in ActionJobs
         /\ job[w].pc # "idle" => job[w] \in Jobs
BY Typed, KindsOfJob

LEMMA GoOn ==
  ASSUME IInv, NEW w \in Web, NEW pc, Continue(w, pc), job[w] \in Jobs
  PROVE  LET jb == [job[w] EXCEPT !.pc = pc] IN
         /\ job' = [job EXCEPT ![w] = jb]
         /\ job[w] \in CloneJobs /\ pc \in {"clone", "cloneactions", "clonesave"}
              => jb \in CloneJobs /\ jb.pc = pc /\ jb.held = job[w].held /\ Follows(jb, job[w])
                 /\ jb.src = job[w].src /\ jb.dst = job[w].dst
         /\ job[w] \in ImportJobs /\ pc \in {"columns", "frame", "actions", "check"}
              => jb \in ImportJobs /\ jb.pc = pc /\ jb.held = job[w].held /\ Follows(jb, job[w])
         /\ job[w] \in ActionJobs /\ pc \in {"addcolumns", "conditions"}
              => jb \in ActionJobs /\ jb.pc = pc /\ jb.held = job[w].held /\ Follows(jb, job[w])
<1> DEFINE j == job[w]
           jb == [j EXCEPT !.pc = pc]
<1>1. job' = [job EXCEPT ![w] = jb]
  BY Typed DEF Continue
<1> HIDE DEF j
<1>2. ASSUME j \in CloneJobs, pc \in {"clone", "cloneactions", "clonesave"}
      PROVE  jb \in CloneJobs /\ jb.pc = pc /\ jb.held = j.held /\ jb.src = j.src /\ jb.dst = j.dst
  BY <1>2 DEF CloneJobs
<1>3. ASSUME j \in ImportJobs, pc \in {"columns", "frame", "actions", "check"}
      PROVE  jb \in ImportJobs /\ jb.pc = pc /\ jb.held = j.held /\ jb.dst = j.dst
  BY <1>3 DEF ImportJobs
<1>4. ASSUME j \in ActionJobs, pc \in {"addcolumns", "conditions"}
      PROVE  jb \in ActionJobs /\ jb.pc = pc /\ jb.held = j.held /\ jb.dst = j.dst
  BY <1>4 DEF ActionJobs
<1> HIDE DEF jb
<1>5. \A x : x \in ImportJobs \/ x \in ActionJobs => x \notin CloneJobs
  BY KindsOfJob
<1> QED
  BY <1>1, <1>2, <1>3, <1>4, <1>5 DEF Follows, j, jb

LEMMA CloneBegins ==
  ASSUME IInv, NEW w \in Web, NEW i \in Id, Clone(w, i)
  PROVE  IInv'
<1> DEFINE old == wf[i]
           name == CopyName(old.name)
           row == [old EXCEPT !.name = name, !.cols = <<>>, !.acts = NoActions, !.views = {}]
           n == last + 1
           jb == [pc |-> "clone", src |-> i, dst |-> n, held |-> row]
<1>1. /\ job[w].pc = "idle" /\ wf[i] # None /\ last < MaxId /\ last' = n
      /\ wf' = [wf EXCEPT ![n] = row] /\ job' = [job EXCEPT ![w] = jb]
      /\ doubt' = IF i \in doubt \/ Working(i) THEN doubt \cup {n} ELSE doubt
      /\ table' = table /\ files' = files
  BY DEF Clone, Serve, Begin
<1>2. old \in Rows /\ old.name \in Title \X Nat /\ last \in Id /\ ~(i > last)
      /\ \A k \in Id : k > last => wf[k] = None
  BY <1>1, Typed, RowTyped
<1>3. name \in Title \X Nat
  BY <1>1, <1>2, CopyNameIs
<1> HIDE DEF name
<1>4. {} \in SUBSET ((SUBSET Column) \ {{}})
  OBVIOUS
<1>5. /\ row \in Workflow /\ row.cols = <<>> /\ row.acts = NoActions
      /\ row.sure = old.sure /\ row.size = old.size
  <2> HIDE DEF old
  <2> QED
    BY <1>2, <1>3, <1>4, RowTyped, NoNames, NoActionsAre DEF Workflow
<1> HIDE DEF row
<1>6. row \in Rows
  BY <1>5, NoNames DEF Rows
<1>7. n \in Id /\ i < n
  BY <1>1, <1>2, TransferAssumption DEF Id
<1> HIDE DEF n
<1>8. jb \in CloneJobs /\ jb.pc = "clone" /\ jb.dst = n /\ jb.src = i /\ jb.held = row
  BY <1>6, <1>7 DEF CloneJobs
<1> HIDE DEF jb
<1>9. jb \in Jobs /\ jb # Idle /\ jb \notin ImportJobs /\ jb \notin ActionJobs
  BY <1>8, KindsOfJob
<1>10. doubt \subseteq doubt' /\ doubt' \subseteq Id
  BY <1>1, <1>7, Typed
<1>11. Reads(jb, job, w, n, doubt')
  BY <1>1, <1>7, <1>8 DEF Reads, Working
<1>12. n \notin doubt' => Reaches(jb, row, None, wf, table)
  <2> SUFFICES ASSUME n \notin doubt' PROVE CloneOK(jb, row, None, wf[i], table[i])
    BY <1>8, <1>9 DEF Reaches
  <2>1. i \notin doubt /\ \A o \in Web : job[o].dst # i
    BY <1>1 DEF Working
  <2>2. Good(wf[i], table[i])
    BY <1>1, <2>1, Typed DEF SInv, Settled
  <2>3. row # None
    BY <1>6, NoneIsNone
  <2> QED
    BY <1>1, <1>5, <1>8, <2>2, <2>3 DEF CloneOK
<1> QED
  BY <1>1, <1>6, <1>8, <1>9, <1>10, <1>11, <1>12, MakeFirst DEF n

LEMMA CloneTableStep ==
  ASSUME IInv, NEW w \in Web, CloneTable(w)
  PROVE  IInv'
<1> DEFINE j == job[w]
           i == j.src
           n == j.dst
           df == table[i]
           row == StoreRow(wf[n], df)
           st == StoreTable(wf[n], df)
           jb == [j EXCEPT !.pc = "cloneactions"]
<1>1. j \in CloneJobs /\ j \in Jobs /\ j.pc = "clone" /\ i \in Id /\ n \in Id
      /\ last' = last /\ files' = files
  BY JobAt, KindsOfJob DEF CloneTable
<1>2. CASE ~(wf[i] # None /\ wf[n] # None /\ CanStore(wf[n].cols, df))
  <2>1. Raise(w)
    BY <1>2 DEF CloneTable
  <2> QED
    BY <1>1, <2>1, RaiseStep
<1>3. CASE wf[i] # None /\ wf[n] # None /\ CanStore(wf[n].cols, df)
  <2>1. Write(w, n, row, st) /\ Disturb(w, n) /\ Continue(w, "cloneactions")
    BY <1>3 DEF CloneTable
  <2>2. job' = [job EXCEPT ![w] = jb] /\ jb \in CloneJobs /\ jb.pc = "cloneactions"
        /\ jb.held = j.held /\ Follows(jb, j) /\ jb.src = i
    BY <1>1, <2>1, GoOn
  <2>3. wf[n] \in Rows /\ df \in Frames /\ Has(wf[n].cols) \subseteq Range(df.cols)
    BY <1>1, <1>3, Typed DEF CanStore
  <2>4. /\ row \in Rows /\ st \in Frames
        /\ row.cols = Reconciled(wf[n].cols, df)
        /\ row.acts = wf[n].acts /\ row.sure = wf[n].sure
        /\ st = [df EXCEPT !.cols = Names(Reconciled(wf[n].cols, df))]
    BY <2>3, StoredAre DEF StoreTable
  <2>5. doubt \subseteq doubt' /\ doubt' \subseteq Id
    BY <1>1, <2>1, Typed, Disturbed DEF Disturb
  <2>6. jb \in Jobs /\ jb # Idle /\ jb \notin ImportJobs /\ jb \notin ActionJobs
    BY <2>2, KindsOfJob
  <2>7. JobOK(j, wf, table) => CloneOK(jb, row, st, wf[i], df)
    <3> SUFFICES ASSUME CloneOK(j, wf[n], table[n], wf[i], df)
                 PROVE  CloneOK(jb, row, st, wf[i], df)
      BY <1>1 DEF JobOK
    <3>1. /\ wf[i] # None /\ Good(wf[i], df) /\ wf[n].sure = wf[i].sure
          /\ j.held.size = wf[i].size /\ wf[n].cols = <<>> /\ wf[n].acts = NoActions
      BY <1>1 DEF CloneOK
    <3>2. /\ Names(row.cols) = df.cols
          /\ \A p \in DOMAIN row.cols : row.cols[p].key => row.cols[p].name \in df.uniq
      BY <2>3, <2>4, <3>1, NoNames, ReconciledAre
    <3>3. st = df
      BY <2>3, <2>4, <3>2 DEF Frames, Frame
    <3>4. row # None /\ df # None
      BY <2>3, <2>4, NoneIsNone
    <3> HIDE DEF jb, row, st, df
    <3> QED
      BY <2>2, <2>4, <3>1, <3>2, <3>3, <3>4 DEF CloneOK, Fit
  <2> HIDE DEF jb, row, st
  <2>8. JobOK(j, wf, table) => Reaches(jb, row, st, wf, table)
    BY <2>2, <2>6, <2>7 DEF Reaches
  <2>9. row \in Rows \cup {None} /\ st \in Frames \cup {None} /\ jb \in Jobs \cup {Idle}
    BY <2>4, <2>6
  <2> QED
    BY <1>1, <2>1, <2>2, <2>5, <2>8, <2>9, OwnStep
<1> QED
  BY <1>2, <1>3

LEMMA CopyActionIs ==
  ASSUME NEW a \in ActionRow \cup {None}, NEW cols
  PROVE  /\ CopyAction(a, cols) \in ActionRow \cup {None}
         /\ a # None => CopyAction(a, cols) = [columns |-> a.columns \cap Has(cols),
                                               names |-> a.names, links |-> {}]
         /\ a = None => CopyAction(a, cols) = None
         /\ a # None => CopyAction(a, cols) # None
<1>1. CASE a = None
  BY <1>1 DEF CopyAction
<1>2. CASE a # None
  <2> DEFINE c == a.columns \cap Has(cols)
             b == [columns |-> c, names |-> a.names, links |-> {}]
  <2>1. a.columns \subseteq Column /\ a.names \subseteq Column
    BY <1>2 DEF ActionRow
  <2>2. c \subseteq Column
    BY <2>1
  <2>3. CopyAction(a, cols) = b
    BY <1>2 DEF CopyAction
  <2>4. b \in ActionRow
    <3> HIDE DEF c
    <3> QED
      BY <2>1, <2>2 DEF ActionRow
  <2> HIDE DEF b
  <2>5. b # None
    BY <2>4, NoneIsNone
  <2> QED
    BY <1>2, <2>3, <2>4, <2>5 DEF b, c
<1> QED
  BY <1>1, <1>2

LEMMA CloneActionsStep ==
  ASSUME IInv, NEW w \in Web, CloneActions(w)
  PROVE  IInv'
<1> DEFINE j == job[w]
           i == j.src
           n == j.dst
           acts == IF wf[i] = None THEN NoActions ELSE wf[i].acts
           jb == [j EXCEPT !.pc = "clonesave"]
<1>1. j \in CloneJobs /\ j \in Jobs /\ j.pc = "cloneactions" /\ i \in Id /\ n \in Id
      /\ last' = last /\ files' = files
  BY JobAt, KindsOfJob DEF CloneActions
<1>2. ASSUME Continue(w, "clonesave")
      PROVE  /\ job' = [job EXCEPT ![w] = jb] /\ jb \in CloneJobs /\ jb.pc = "clonesave"
             /\ jb.held = j.held /\ Follows(jb, j) /\ jb.src = i
             /\ jb \in Jobs /\ jb # Idle /\ jb \notin ImportJobs /\ jb \notin ActionJobs
  <2>1. job' = [job EXCEPT ![w] = jb] /\ jb \in CloneJobs /\ jb.pc = "clonesave"
        /\ jb.held = j.held /\ Follows(jb, j) /\ jb.src = i
    BY <1>1, <1>2, GoOn
  <2> HIDE DEF jb
  <2> QED
    BY <2>1, KindsOfJob
<1>3. ASSUME NEW row, JobOK(j, wf, table), row # None, row.cols = wf[n].cols, row.sure = wf[n].sure,
             \A a \in Action : SameAction(wf[i].acts[a], row.acts[a]),
             Continue(w, "clonesave")
      PROVE  Reaches(jb, row, table[n], wf, table)
  <2>1. CloneOK(j, wf[n], table[n], wf[i], table[i])
    BY <1>1, <1>3 DEF JobOK
  <2>2. CloneOK(jb, row, table[n], wf[i], table[i])
    <3>1. jb.pc = "clonesave" /\ jb.held = j.held
      BY <1>2, <1>3
    <3> HIDE DEF jb
    <3> QED
      BY <1>1, <1>3, <2>1, <3>1 DEF CloneOK
  <2> HIDE DEF jb
  <2> QED
    BY <1>2, <1>3, <2>2 DEF Reaches
<1>4. CASE acts = NoActions
  <2>1. Continue(w, "clonesave") /\ UNCHANGED <<wf, table, doubt>>
    BY <1>4 DEF CloneActions
  <2>2. /\ wf[n] \in Rows \cup {None} /\ table[n] \in Frames \cup {None}
        /\ Write(w, n, wf[n], table[n])
        /\ doubt \subseteq doubt' /\ doubt' \subseteq Id
    BY <1>1, <2>1, Typed DEF Write
  <2>3. JobOK(j, wf, table) => Reaches(jb, wf[n], table[n], wf, table)
    <3> SUFFICES ASSUME JobOK(j, wf, table) PROVE Reaches(jb, wf[n], table[n], wf, table)
      OBVIOUS
    <3>1. wf[i] # None /\ wf[n] # None /\ wf[n].acts = NoActions
      BY <1>1 DEF JobOK, CloneOK
    <3>2. wf[i].acts = NoActions
      BY <1>4, <3>1
    <3>3. \A a \in Action : SameAction(wf[i].acts[a], wf[n].acts[a])
      BY <3>1, <3>2, NoActionsAre DEF SameAction
    <3> HIDE DEF jb
    <3> QED
      BY <1>3, <2>1, <3>1, <3>3
  <2> HIDE DEF jb
  <2> QED
    BY <1>1, <1>2, <2>1, <2>2, <2>3, OwnStep
<1>5. CASE acts # NoActions /\ wf[n] = None
  <2>1. Raise(w)
    BY <1>5 DEF CloneActions
  <2> QED
    BY <1>1, <2>1, RaiseStep
<1>6. CASE acts # NoActions /\ wf[n] # None
  <2> DEFINE new == [a \in Action |-> IF acts[a] = None THEN wf[n].acts[a]
                                      ELSE CopyAction(acts[a], wf[n].cols)]
             row == [wf[n] EXCEPT !.acts = new]
  <2>1. Write(w, n, row, table[n]) /\ Disturb(w, n) /\ Continue(w, "clonesave")
    BY <1>6 DEF CloneActions
  <2>2. wf[i] # None
    BY <1>6
  <2>3. wf[n] \in Rows /\ wf[i] \in Rows /\ table[n] \in Frames \cup {None} /\ acts = wf[i].acts
    BY <1>1, <1>6, <2>2, Typed
  <2>4. acts \in [Action -> ActionRow \cup {None}] /\ wf[n].acts \in [Action -> ActionRow \cup {None}]
    BY <2>3, RowTyped
  <2> HIDE DEF acts
  <2>5. \A a \in Action : /\ CopyAction(acts[a], wf[n].cols) \in ActionRow \cup {None}
                          /\ acts[a] \in ActionRow \cup {None}
    BY <2>4, CopyActionIs
  <2>6. new \in [Action -> ActionRow \cup {None}]
    BY <2>4, <2>5
  <2> HIDE DEF new
  <2>7. row \in Workflow /\ row.cols = wf[n].cols /\ row.sure = wf[n].sure /\ row.acts = new
    BY <2>3, <2>6, RowTyped DEF Workflow
  <2> HIDE DEF row
  <2>8. row \in Rows /\ row # None
    BY <2>3, <2>7, RowTyped, NoneIsNone DEF Rows
  <2>9. doubt \subseteq doubt' /\ doubt' \subseteq Id
    BY <1>1, <2>1, Typed, Disturbed DEF Disturb
  <2>10. ASSUME JobOK(j, wf, table) PROVE \A a \in Action : SameAction(wf[i].acts[a], row.acts[a])
    <3>1. CloneOK(j, wf[n], table[n], wf[i], table[i])
      BY <1>1, <2>10 DEF JobOK
    <3>2. /\ Good(wf[i], table[i]) /\ table[i] # None /\ table[n] = table[i]
          /\ Names(wf[n].cols) = table[i].cols /\ wf[n].acts = NoActions
      BY <1>1, <3>1 DEF CloneOK
    <3>3. Names(wf[i].cols) = table[i].cols /\ ActsFit(wf[i])
      BY <3>2, SoundIs DEF Good
    <3>4. Has(wf[i].cols) = Has(wf[n].cols)
      BY <3>2, <3>3 DEF Has
    <3> SUFFICES ASSUME NEW a \in Action PROVE SameAction(acts[a], new[a])
      BY <2>3, <2>7
    <3>5. CASE acts[a] = None
      BY <3>2, <3>5, NoActionsAre DEF new, SameAction
    <3>6. CASE acts[a] # None
      <4>1. acts[a].columns \subseteq Has(wf[n].cols)
        BY <2>3, <3>3, <3>4, <3>6 DEF ActsFit
      <4>2. new[a] = CopyAction(acts[a], wf[n].cols)
        BY <3>6 DEF new
      <4>3. new[a] = [columns |-> acts[a].columns \cap Has(wf[n].cols),
                      names |-> acts[a].names, links |-> {}] /\ new[a] # None
        BY <2>5, <3>6, <4>2, CopyActionIs
      <4>4. acts[a].columns \cap Has(wf[n].cols) = acts[a].columns
        BY <4>1
      <4> QED
        BY <3>6, <4>3, <4>4 DEF SameAction
    <3> QED
      BY <3>5, <3>6
  <2>11. JobOK(j, wf, table) => Reaches(jb, row, table[n], wf, table)
    <3> HIDE DEF jb
    <3> QED
      BY <1>3, <2>1, <2>7, <2>8, <2>10
  <2> HIDE DEF jb
  <2>12. row \in Rows \cup {None} /\ jb \in Jobs \cup {Idle}
    BY <1>2, <2>1, <2>8
  <2> QED
    BY <1>1, <1>2, <2>1, <2>3, <2>9, <2>11, <2>12, OwnStep
<1> QED
  BY <1>4, <1>5, <1>6

\* A process that is done.
LEMMA EndIs ==
  ASSUME NEW w \in Web, End(w)
  PROVE  /\ job' = [job EXCEPT ![w] = Idle] /\ Idle \in Jobs \cup {Idle}
         /\ \A j : Follows(Idle, j)
         /\ \A row, df, W, T : (row # None => Good(row, df)) => Reaches(Idle, row, df, W, T)
<1>1. Idle \notin Jobs /\ Idle \notin CloneJobs /\ Idle \notin ImportJobs /\ Idle \notin ActionJobs
  BY KindsOfJob
<1> QED
  BY <1>1 DEF End, Follows, Reaches

\* What a clone that nothing disturbed ends with.
LEMMA CloneDone ==
  ASSUME NEW j \in CloneJobs, j.pc = "clonesave", NEW row, NEW df, NEW srow, NEW sdf,
         CloneOK(j, row, df, srow, sdf), NEW new,
         new.cols = row.cols, new.size = j.held.size, new.acts = row.acts, new.sure = row.sure
  PROVE  Good(new, df)
<1>1. /\ srow # None /\ Good(srow, sdf) /\ row.sure = srow.sure /\ j.held.size = srow.size
      /\ sdf # None /\ df = sdf /\ Names(row.cols) = sdf.cols /\ Fit(row.cols, df)
      /\ \A a \in Action : SameAction(srow.acts[a], row.acts[a])
  BY DEF CloneOK
<1>2. /\ srow.size = [nrows |-> sdf.rows, ncols |-> Len(sdf.cols)] /\ Names(srow.cols) = sdf.cols
      /\ ActsFit(srow)
  BY <1>1, SoundIs DEF Good
<1>3. Sound(new, df)
  BY <1>1, <1>2, SoundIs
<1>4. ActsFit(new)
  <2> SUFFICES ASSUME NEW a \in Action, row.acts[a] # None
               PROVE  row.acts[a].columns \subseteq Has(row.cols)
    BY DEF ActsFit
  <2>1. Has(row.cols) = Has(srow.cols)
    BY <1>1, <1>2 DEF Has
  <2>2. srow.acts[a] # None /\ srow.acts[a].columns = row.acts[a].columns
    BY <1>1 DEF SameAction
  <2> QED
    BY <1>2, <2>1, <2>2 DEF ActsFit
<1>5. Fit(new.cols, df)
  BY <1>1 DEF Fit
<1> QED
  BY <1>3, <1>4, <1>5 DEF Good

LEMMA CloneSavedStep ==
  ASSUME IInv, NEW w \in Web, CloneSave(w), ~Raise(w)
  PROVE  IInv'
<1> DEFINE j == job[w]
           n == j.dst
           saved == [wf[n] EXCEPT !.name = j.held.name, !.size = j.held.size,
                                  !.stored = j.held.stored]
           row == IF wf[n] = None THEN j.held ELSE saved
<1>1. j \in CloneJobs /\ j \in Jobs /\ j.pc = "clonesave" /\ n \in Id /\ j.held \in Rows
      /\ last' = last /\ files' = files
  BY JobAt, KindsOfJob DEF CloneSave, CloneJobs
<1>2. Write(w, n, row, table[n]) /\ Disturb(w, n) /\ End(w)
  BY DEF CloneSave
<1>3. wf[n] \in Rows \cup {None} /\ table[n] \in Frames \cup {None}
  BY <1>1, Typed
<1>4. ASSUME wf[n] # None
      PROVE  saved \in Rows /\ saved.cols = wf[n].cols /\ saved.size = j.held.size
             /\ saved.acts = wf[n].acts /\ saved.sure = wf[n].sure
  <2> DEFINE held == j.held
             old == wf[n]
             new == [old EXCEPT !.name = held.name, !.size = held.size, !.stored = held.stored]
  <2>1. old \in Rows /\ held \in Rows
    BY <1>1, <1>3, <1>4
  <2> HIDE DEF held, old
  <2>2. new \in Workflow /\ new.cols = old.cols /\ new.size = held.size
        /\ new.acts = old.acts /\ new.sure = old.sure
    BY <2>1, RowTyped DEF Workflow
  <2> HIDE DEF new
  <2>3. new \in Rows
    BY <2>1, <2>2, RowTyped DEF Rows
  <2> QED
    BY <2>2, <2>3 DEF new, held, old
<1>5. row \in Rows \cup {None}
  BY <1>1, <1>4
<1>6. doubt \subseteq doubt' /\ doubt' \subseteq Id
  BY <1>1, <1>2, Typed, Disturbed DEF Disturb
<1>7. JobOK(j, wf, table) => Good(row, table[n])
  <2> SUFFICES ASSUME JobOK(j, wf, table) PROVE Good(row, table[n])
    OBVIOUS
  <2>1. CloneOK(j, wf[n], table[n], wf[j.src], table[j.src])
    BY <1>1 DEF JobOK
  <2>2. wf[n] # None
    BY <2>1 DEF CloneOK
  <2>3. row = saved
    BY <2>2
  <2> HIDE DEF saved, row
  <2>4. Good(saved, table[n])
    BY <1>1, <1>4, <2>1, <2>2, CloneDone
  <2> QED
    BY <2>3, <2>4
<1> HIDE DEF row
<1>8. JobOK(j, wf, table) => Reaches(Idle, row, table[n], wf, table)
  BY <1>2, <1>7, EndIs
<1> QED
  BY <1>1, <1>2, <1>3, <1>5, <1>6, <1>8, EndIs, OwnStep

LEMMA CloneSaveStep ==
  ASSUME IInv, NEW w \in Web, CloneSave(w)
  PROVE  IInv'
<1>1. job[w] \in Jobs /\ last' = last /\ files' = files
  BY JobAt DEF CloneSave
<1> QED
  BY <1>1, CloneSavedStep, RaiseStep

-----------------------------------------------------------------------------
(* The steps of an import.                                                 *)

\* A file is of a workflow or of an action.
LEMMA FileIs ==
  ASSUME IInv, NEW f \in files
  PROVE  /\ f \in WorkflowFile => f \in WFiles
         /\ f \in ActionFile => f \in AFiles
<1>1. \A x \in WorkflowFile : DOMAIN x = {"cols", "frame", "size", "acts", "views", "sure"}
  BY DEF WorkflowFile
<1>2. \A x \in ActionFile : DOMAIN x = {"act", "used"}
  BY DEF ActionFile
<1>3. "act" \notin {"cols", "frame", "size", "acts", "views", "sure"} /\ "act" \in {"act", "used"}
  OBVIOUS
<1>4. \A x \in WorkflowFile : x \notin ActionFile
  <2> SUFFICES ASSUME NEW x \in WorkflowFile, x \in ActionFile PROVE FALSE
    OBVIOUS
  <2>1. DOMAIN x = {"cols", "frame", "size", "acts", "views", "sure"} /\ DOMAIN x = {"act", "used"}
    BY <1>1, <1>2
  <2> QED
    BY <1>3, <2>1
<1>5. f \in WFiles \/ f \in AFiles
  BY Typed
<1> QED
  BY <1>4, <1>5 DEF WFiles, AFiles

LEMMA FileTyped ==
  ASSUME NEW f \in WFiles
  PROVE  /\ f \in WorkflowFile /\ f.cols \in Seq(ColumnRow) /\ IsInjective(Names(f.cols))
         /\ f.acts \in [Action -> ActionRow \cup {None}] /\ f.size \in Size
         /\ f.views \in SUBSET ((SUBSET Column) \ {{}}) /\ f.sure \in BOOLEAN
         /\ f.frame \in Frames \cup {None}
         /\ f.sure /\ f.frame # None => Fit(f.cols, f.frame)
BY DEF WFiles, WorkflowFile

LEMMA ImportBegins ==
  ASSUME IInv, NEW w \in Web, NEW t \in Title, NEW f \in files \cap WorkflowFile, Import(w, f, t)
  PROVE  IInv'
<1> DEFINE e == Empty(<<t, 0>>)
           row == [e EXCEPT !.sure = f.sure]
           n == last + 1
           jb == [pc |-> "columns", src |-> None, dst |-> n, held |-> f]
<1>1. /\ job[w].pc = "idle" /\ last < MaxId /\ last' = n /\ f.frame # None
      /\ wf' = [wf EXCEPT ![n] = row] /\ job' = [job EXCEPT ![w] = jb]
      /\ table' = table /\ files' = files /\ doubt' = doubt
  BY DEF Import, Serve, Begin
<1>2. f \in WFiles /\ f.sure \in BOOLEAN
  BY FileIs, FileTyped
<1>3. <<t, 0>> \in Title \X Nat
  OBVIOUS
<1>4. row \in Rows /\ e \in Rows /\ e.cols = <<>> /\ e.acts = NoActions /\ e.views = {}
  BY <1>2, <1>3, EmptyIs
<1>5. row.cols = <<>> /\ row.acts = NoActions /\ row.views = {} /\ row.sure = f.sure /\ row # None
  <2> HIDE DEF e
  <2>1. e \in Workflow
    BY <1>4, RowTyped
  <2> QED
    BY <1>4, <2>1, NoneIsNone DEF Workflow
<1> HIDE DEF row, e
<1>6. n \in Id
  BY <1>1, Typed, TransferAssumption DEF Id
<1> HIDE DEF n
<1>7. jb \in ImportJobs /\ jb.pc = "columns" /\ jb.dst = n /\ jb.held = f
  BY <1>1, <1>2, <1>6 DEF ImportJobs
<1> HIDE DEF jb
<1>8. jb \in Jobs /\ jb # Idle /\ jb \notin CloneJobs /\ jb \notin ActionJobs
  BY <1>7, KindsOfJob
<1>9. Reads(jb, job, w, n, doubt') /\ doubt \subseteq doubt' /\ doubt' \subseteq Id
  BY <1>1, <1>8, Typed DEF Reads
<1>10. Reaches(jb, row, None, wf, table)
  <2>1. ImportOK(jb, row, None)
    BY <1>5, <1>7 DEF ImportOK
  <2> QED
    BY <1>8, <2>1 DEF Reaches
<1> QED
  BY <1>1, <1>4, <1>6, <1>7, <1>8, <1>9, <1>10, MakeFirst DEF n

\* What every step of an import begins with.
LEMMA ImportAt ==
  ASSUME IInv, NEW w \in Web, job[w].pc \in {"columns", "frame", "actions", "check"}
  PROVE  /\ job[w] \in ImportJobs /\ job[w] \in Jobs /\ job[w].dst \in Id
         /\ job[w].held \in WFiles /\ job[w].held.frame # None
         /\ wf[job[w].dst] \in Rows \cup {None} /\ table[job[w].dst] \in Frames \cup {None}
         /\ JobOK(job[w], wf, table) => ImportOK(job[w], wf[job[w].dst], table[job[w].dst])
         /\ Disturb(w, job[w].dst) => doubt \subseteq doubt' /\ doubt' \subseteq Id
<1>1. job[w] \in ImportJobs /\ job[w] \in Jobs /\ job[w].dst \in Id
  BY JobAt, KindsOfJob
<1>2. job[w].held \in WFiles /\ job[w].held.frame # None
  BY <1>1 DEF ImportJobs
<1>3. wf[job[w].dst] \in Rows \cup {None} /\ table[job[w].dst] \in Frames \cup {None}
  BY <1>1, Typed
<1>4. JobOK(job[w], wf, table) => ImportOK(job[w], wf[job[w].dst], table[job[w].dst])
  BY <1>1 DEF JobOK
<1>5. Disturb(w, job[w].dst) => doubt \subseteq doubt' /\ doubt' \subseteq Id
  BY <1>1, Typed, Disturbed DEF Disturb
<1> QED
  BY <1>1, <1>2, <1>3, <1>4, <1>5

\* An import that goes on.
LEMMA ImportGoesOn ==
  ASSUME IInv, NEW w \in Web, job[w] \in ImportJobs, job[w] \in Jobs,
         NEW pc \in {"columns", "frame", "actions", "check"}, Continue(w, pc),
         NEW row \in Rows, NEW df \in Frames \cup {None},
         Write(w, job[w].dst, row, df), Disturb(w, job[w].dst), last' = last, files' = files,
         JobOK(job[w], wf, table) => \A j : j.pc = pc /\ j.held = job[w].held => ImportOK(j, row, df)
  PROVE  IInv'
<1> DEFINE j == job[w]
           jb == [j EXCEPT !.pc = pc]
<1>1. job' = [job EXCEPT ![w] = jb] /\ jb \in ImportJobs /\ jb.pc = pc /\ jb.held = j.held
      /\ Follows(jb, j)
  BY GoOn
<1> HIDE DEF jb
<1>2. jb \in Jobs /\ jb # Idle /\ jb \notin CloneJobs /\ jb \notin ActionJobs
  BY <1>1, KindsOfJob
<1>3. JobOK(j, wf, table) => Reaches(jb, row, df, wf, table)
  BY <1>1, <1>2 DEF Reaches
<1>4. doubt \subseteq doubt' /\ doubt' \subseteq Id
  BY Typed, KindsOfJob, Disturbed DEF Disturb
<1>5. row \in Rows \cup {None} /\ jb \in Jobs \cup {Idle}
  BY <1>2
<1> QED
  BY <1>1, <1>3, <1>4, <1>5, OwnStep

LEMMA ImportColumnsStep ==
  ASSUME IInv, NEW w \in Web, ImportColumns(w)
  PROVE  IInv'
<1> DEFINE j == job[w]
           n == j.dst
           f == j.held
           old == wf[n]
           df == table[n]
<1>1. j.pc = "columns" /\ last' = last /\ files' = files
  BY DEF ImportColumns
<1>2. /\ j \in ImportJobs /\ j \in Jobs /\ n \in Id /\ f \in WFiles
      /\ old \in Rows \cup {None} /\ df \in Frames \cup {None}
      /\ JobOK(j, wf, table) => ImportOK(j, old, df)
  BY <1>1, ImportAt
<1>3. f.cols \in Seq(ColumnRow) /\ IsInjective(Names(f.cols))
  BY <1>2, FileTyped
<1>4. ASSUME NEW cols \in Seq(ColumnRow), IsInjective(Names(cols)), old # None
      PROVE  /\ [old EXCEPT !.cols = cols] \in Rows
             /\ [old EXCEPT !.cols = cols].cols = cols
             /\ [old EXCEPT !.cols = cols].acts = old.acts
             /\ [old EXCEPT !.cols = cols].views = old.views
             /\ [old EXCEPT !.cols = cols].sure = old.sure
  <2> DEFINE new == [old EXCEPT !.cols = cols]
  <2>1. old \in Rows
    BY <1>2, <1>4
  <2> HIDE DEF old
  <2>2. new \in Workflow /\ new.cols = cols /\ new.acts = old.acts /\ new.views = old.views
        /\ new.sure = old.sure
    BY <1>4, <2>1, RowTyped DEF Workflow
  <2> HIDE DEF new
  <2>3. new \in Rows
    BY <1>4, <2>2 DEF Rows
  <2> QED
    BY <2>2, <2>3 DEF new
<1>5. CASE /\ old # None /\ Created(f.cols) = f.cols
           /\ Write(w, n, [old EXCEPT !.cols = f.cols], df)
           /\ Disturb(w, n) /\ Continue(w, "frame")
  <2> DEFINE row == [old EXCEPT !.cols = f.cols]
  <2>1. /\ row \in Rows /\ row # None /\ row.cols = f.cols /\ row.acts = old.acts
        /\ row.views = old.views /\ row.sure = old.sure
    BY <1>3, <1>4, <1>5, NoneIsNone
  <2> HIDE DEF row
  <2>2. JobOK(j, wf, table) => \A x : x.pc = "frame" /\ x.held = j.held => ImportOK(x, row, df)
    <3> SUFFICES ASSUME ImportOK(j, old, df), NEW x, x.pc = "frame", x.held = j.held
                 PROVE  ImportOK(x, row, df)
      BY <1>2
    <3> HIDE DEF old, df
    <3> QED
      BY <1>1, <2>1 DEF ImportOK
  <2>3. Write(w, n, row, df)
    BY <1>5 DEF row
  <2> HIDE DEF old
  <2> QED
    BY <1>1, <1>2, <1>5, <2>1, <2>2, <2>3, ImportGoesOn
<1>6. CASE /\ old # None /\ Created(f.cols) # f.cols
           /\ Write(w, n, [old EXCEPT !.cols = Created(f.cols)], df)
           /\ doubt' = doubt \cup {n} /\ End(w)
  <2> DEFINE row == [old EXCEPT !.cols = Created(f.cols)]
  <2>1. row \in Rows
    BY <1>3, <1>4, <1>6, CreatedAre
  <2>2. doubt \subseteq doubt' /\ doubt' \subseteq Id /\ n \in doubt' /\ Write(w, n, row, df)
        /\ row \in Rows \cup {None}
    BY <1>2, <1>6, <2>1, Typed
  <2> HIDE DEF row, old
  <2> QED
    BY <1>1, <1>2, <1>6, <2>2, EndIs, OwnStep
<1>7. CASE old = None /\ Raise(w)
  BY <1>1, <1>2, <1>7, RaiseStep
<1> QED
  BY <1>5, <1>6, <1>7 DEF ImportColumns

LEMMA ImportFrameStep ==
  ASSUME IInv, NEW w \in Web, ImportFrame(w)
  PROVE  IInv'
<1> DEFINE j == job[w]
           n == j.dst
           f == j.held
           old == wf[n]
           stored == StoreRow(old, f.frame)
           row == [stored EXCEPT !.size = f.size]
           st == StoreTable(old, f.frame)
<1>1. j.pc = "frame" /\ last' = last /\ files' = files
  BY DEF ImportFrame
<1>2. /\ j \in ImportJobs /\ j \in Jobs /\ n \in Id /\ f \in WFiles /\ f.frame # None
      /\ old \in Rows \cup {None}
      /\ JobOK(j, wf, table) => ImportOK(j, old, table[n])
  BY <1>1, ImportAt
<1>3. CASE old # None /\ CanStore(old.cols, f.frame)
  <2>1. Write(w, n, row, st) /\ Disturb(w, n) /\ Continue(w, "actions")
    BY <1>3 DEF ImportFrame
  <2>2. /\ old \in Rows /\ f.frame \in Frames /\ f.size \in Size
        /\ Has(old.cols) \subseteq Range(f.frame.cols)
    BY <1>2, <1>3, FileTyped DEF CanStore
  <2>3. /\ stored \in Rows /\ st \in Frames /\ stored.acts = old.acts /\ stored.views = old.views
        /\ stored.sure = old.sure /\ stored.cols = Reconciled(old.cols, f.frame)
        /\ st = [f.frame EXCEPT !.cols = Names(Reconciled(old.cols, f.frame))]
    BY <2>2, StoredAre DEF StoreTable
  <2> HIDE DEF stored, st
  <2>4. row \in Workflow /\ row.cols = stored.cols /\ row.acts = stored.acts
        /\ row.views = stored.views /\ row.sure = stored.sure /\ row.size = f.size
    BY <2>2, <2>3, RowTyped DEF Workflow
  <2> HIDE DEF row
  <2>5. row \in Rows /\ row # None
    BY <2>3, <2>4, RowTyped, NoneIsNone DEF Rows
  <2>6. JobOK(j, wf, table) => \A x : x.pc = "actions" /\ x.held = j.held => ImportOK(x, row, st)
    <3> SUFFICES ASSUME ImportOK(j, old, table[n]), NEW x, x.pc = "actions", x.held = f
                 PROVE  ImportOK(x, row, st)
      BY <1>2
    <3>1. old.cols = f.cols /\ old.acts = NoActions /\ old.views = {} /\ old.sure = f.sure
      BY <1>1 DEF ImportOK
    <3>2. row.cols = Imported(f) /\ st = [f.frame EXCEPT !.cols = Names(Imported(f))]
      BY <2>3, <2>4, <3>1 DEF Imported
    <3> HIDE DEF old, f
    <3> QED
      BY <2>3, <2>4, <2>5, <3>1, <3>2 DEF ImportOK
  <2>7. st \in Frames \cup {None}
    BY <2>3
  <2> HIDE DEF old
  <2> QED
    BY <1>1, <1>2, <2>1, <2>5, <2>6, <2>7, ImportGoesOn
<1>4. CASE ~(old # None /\ CanStore(old.cols, f.frame))
  <2>1. Raise(w)
    BY <1>4 DEF ImportFrame
  <2> QED
    BY <1>1, <1>2, <2>1, RaiseStep
<1> QED
  BY <1>3, <1>4

LEMMA LinkIs ==
  ASSUME NEW a \in ActionRow, NEW cols
  PROVE  /\ Link(a, cols) \in ActionRow
         /\ Link(a, cols).columns = a.columns /\ Link(a, cols).names = a.names
         /\ Link(a, cols).links = a.links \/ a.links = {}
<1> DEFINE k == IF a.links = {} THEN a.names \cap Has(cols) ELSE a.links
           b == [a EXCEPT !.links = k]
<1>1. a.columns \subseteq Column /\ a.names \subseteq Column /\ a.links \subseteq Column
  BY DEF ActionRow
<1>2. k \subseteq Column /\ (k = a.links \/ a.links = {})
  BY <1>1
<1>3. Link(a, cols) = b
  BY DEF Link
<1> HIDE DEF k
<1>4. b \in ActionRow /\ b.columns = a.columns /\ b.names = a.names /\ b.links = k
  BY <1>1, <1>2 DEF ActionRow
<1> QED
  BY <1>2, <1>3, <1>4

LEMMA ImportActionsStep ==
  ASSUME IInv, NEW w \in Web, ImportActions(w)
  PROVE  IInv'
<1> DEFINE j == job[w]
           n == j.dst
           f == j.held
           old == wf[n]
           df == table[n]
           all == {a \in Action : f.acts[a] # None}
           fits == /\ old # None
                   /\ \A a \in all : CanLink(f.acts[a], old.cols)
                   /\ UNION f.views \subseteq Has(old.cols)
           acts == [a \in Action |-> IF a \in all THEN Link(f.acts[a], old.cols) ELSE old.acts[a]]
           views == old.views \cup f.views
           row == [old EXCEPT !.acts = acts, !.views = views]
<1>1. j.pc = "actions" /\ last' = last /\ files' = files
  BY DEF ImportActions
<1>2. /\ j \in ImportJobs /\ j \in Jobs /\ n \in Id /\ f \in WFiles
      /\ old \in Rows \cup {None} /\ df \in Frames \cup {None}
      /\ JobOK(j, wf, table) => ImportOK(j, old, df)
  BY <1>1, ImportAt
<1>3. CASE fits
  <2>1. Write(w, n, row, df) /\ Disturb(w, n) /\ Continue(w, "check")
    BY <1>3 DEF ImportActions
  <2>2. /\ old # None /\ \A a \in all : CanLink(f.acts[a], old.cols)
    BY <1>3
  <2>3. old \in Rows /\ f.acts \in [Action -> ActionRow \cup {None}]
        /\ f.views \in SUBSET ((SUBSET Column) \ {{}})
    BY <1>2, <2>2, FileTyped
  <2> HIDE DEF old, df, f
  <2>4. old.acts \in [Action -> ActionRow \cup {None}]
        /\ old.views \in SUBSET ((SUBSET Column) \ {{}})
    BY <2>3, RowTyped
  <2>5. ASSUME NEW a \in Action
        PROVE  /\ a \in all => /\ acts[a] = Link(f.acts[a], old.cols) /\ acts[a] \in ActionRow
                               /\ acts[a].columns = f.acts[a].columns
               /\ a \notin all => acts[a] = old.acts[a] /\ f.acts[a] = None
    BY <2>3, LinkIs
  <2>6. acts \in [Action -> ActionRow \cup {None}]
    BY <2>4, <2>5
  <2>7. views \in SUBSET ((SUBSET Column) \ {{}})
    BY <2>3, <2>4
  <2> HIDE DEF acts
  <2>8. row \in Workflow /\ row.cols = old.cols /\ row.sure = old.sure /\ row.size = old.size
        /\ row.acts = acts /\ row.views = views
    BY <2>3, <2>6, <2>7, RowTyped DEF Workflow
  <2> HIDE DEF row
  <2>9. row \in Rows /\ row # None
    BY <2>3, <2>8, RowTyped, NoneIsNone DEF Rows
  <2>10. JobOK(j, wf, table) => \A x : x.pc = "check" /\ x.held = j.held => ImportOK(x, row, df)
    <3> SUFFICES ASSUME ImportOK(j, old, df), NEW x, x.pc = "check", x.held = f
                 PROVE  ImportOK(x, row, df)
      BY <1>2 DEF f
    <3>1. /\ old.cols = Imported(f) /\ old.acts = NoActions /\ old.views = {}
          /\ old.sure = f.sure /\ old.size = f.size
          /\ df = [f.frame EXCEPT !.cols = Names(Imported(f))]
      BY <1>1 DEF ImportOK, f
    <3>2. acts = LinkedActs(f)
      <4>1. \A a \in Action : acts[a] = LinkedActs(f)[a]
        <5> SUFFICES ASSUME NEW a \in Action PROVE acts[a] = LinkedActs(f)[a]
          OBVIOUS
        <5>1. CASE a \in all
          BY <2>5, <3>1, <5>1 DEF LinkedActs
        <5>2. CASE a \notin all
          BY <2>5, <3>1, <5>2, NoActionsAre DEF LinkedActs
        <5> QED
          BY <5>1, <5>2
      <4>2. acts = [a \in Action |-> acts[a]]
        BY <2>6
      <4>3. LinkedActs(f) = [a \in Action |-> LinkedActs(f)[a]]
        BY DEF LinkedActs
      <4> QED
        BY <4>1, <4>2, <4>3
    <3>3. ActsFit(row)
      <4> SUFFICES ASSUME NEW a \in Action, acts[a] # None
                   PROVE  acts[a].columns \subseteq Has(old.cols)
        BY <2>8 DEF ActsFit
      <4>1. a \in all
        BY <2>5, <3>1, NoActionsAre
      <4> QED
        BY <2>2, <2>5, <4>1 DEF CanLink
    <3>4. row.views = f.views
      BY <2>8, <3>1
    <3> QED
      BY <2>8, <2>9, <3>1, <3>2, <3>3, <3>4 DEF ImportOK
  <2> QED
    BY <1>1, <1>2, <2>1, <2>9, <2>10, ImportGoesOn DEF df
<1>4. CASE ~fits
  <2>1. Raise(w)
    BY <1>4 DEF ImportActions
  <2> QED
    BY <1>1, <1>2, <2>1, RaiseStep
<1> QED
  BY <1>3, <1>4

\* What an import that was not disturbed ends with, if it passes the check.
LEMMA ImportDone ==
  ASSUME NEW j, j.pc = "check", j.held \in WFiles, j.held.frame # None,
         NEW row \in Rows, NEW df \in Frames \cup {None},
         ImportOK(j, row, df), Sound([row EXCEPT !.size = j.held.size], df)
  PROVE  Good(row, df)
<1> DEFINE f == j.held
           st == [f.frame EXCEPT !.cols = Names(Imported(f))]
<1>1. /\ row.cols = Imported(f) /\ row.size = f.size /\ df = st /\ ActsFit(row) /\ row.sure = f.sure
  BY DEF ImportOK
<1>2. /\ f.cols \in Seq(ColumnRow) /\ IsInjective(Names(f.cols)) /\ f.frame \in Frames
      /\ f.sure => Fit(f.cols, f.frame)
  BY FileTyped
<1>3. df.uniq = f.frame.uniq
  BY <1>1, <1>2 DEF Frames, Frame
<1>4. [row EXCEPT !.size = f.size] = row
  BY <1>1, RowTyped DEF Workflow
<1>5. Sound(row, df)
  BY <1>4
<1>6. ASSUME row.sure PROVE Fit(row.cols, df)
  <2> SUFFICES ASSUME NEW p \in DOMAIN row.cols, row.cols[p].key
               PROVE  row.cols[p].name \in f.frame.uniq
    BY <1>3 DEF Fit
  <2>1. \/ p \in DOMAIN f.cols /\ row.cols[p] = f.cols[p]
        \/ row.cols[p].name \in f.frame.uniq
    BY <1>1, <1>2, ReconciledAre DEF Imported
  <2> QED
    BY <1>1, <1>2, <1>6, <2>1 DEF Fit
<1> QED
  BY <1>1, <1>5, <1>6 DEF Good

LEMMA ImportCheckStep ==
  ASSUME IInv, NEW w \in Web, ImportCheck(w)
  PROVE  IInv'
<1> DEFINE j == job[w]
           n == j.dst
           old == wf[n]
           df == table[n]
           sound == Sound([old EXCEPT !.size = j.held.size], df)
<1>1. j.pc = "check" /\ last' = last /\ files' = files
  BY DEF ImportCheck
<1>2. /\ j \in ImportJobs /\ j \in Jobs /\ n \in Id /\ j.held \in WFiles /\ j.held.frame # None
      /\ old \in Rows \cup {None} /\ df \in Frames \cup {None}
      /\ JobOK(j, wf, table) => ImportOK(j, old, df)
  BY <1>1, ImportAt
<1>3. CASE old # None /\ sound /\ End(w) /\ UNCHANGED <<wf, table, doubt>>
  <2>1. Write(w, n, old, df) /\ doubt \subseteq doubt' /\ doubt' \subseteq Id
    BY <1>2, <1>3, Typed DEF Write
  <2>2. JobOK(j, wf, table) => Good(old, df)
    BY <1>1, <1>2, <1>3, ImportDone
  <2>3. JobOK(j, wf, table) => Reaches(Idle, old, df, wf, table)
    BY <1>3, <2>2, EndIs
  <2> HIDE DEF old, df, sound
  <2> QED
    BY <1>1, <1>2, <1>3, <2>1, <2>3, EndIs, OwnStep
<1>4. CASE old # None /\ ~sound /\ Write(w, n, None, df) /\ Disturb(w, n) /\ End(w)
  <2>1. doubt \subseteq doubt' /\ doubt' \subseteq Id
    BY <1>1, <1>4, ImportAt
  <2>2. Reaches(Idle, None, df, wf, table)
    BY <1>4, EndIs
  <2> HIDE DEF old, df, sound
  <2> QED
    BY <1>1, <1>2, <1>4, <2>1, <2>2, EndIs, OwnStep
<1>5. CASE old = None /\ Raise(w)
  BY <1>1, <1>2, <1>5, RaiseStep
<1> QED
  BY <1>3, <1>4, <1>5 DEF ImportCheck

-----------------------------------------------------------------------------
(* Files.                                                                  *)

LEMMA ExportStep ==
  ASSUME IInv, NEW w \in Web, NEW i \in Id, NEW chosen \in SUBSET Action, Export(w, i, chosen)
  PROVE  IInv'
<1> DEFINE old == wf[i]
           frame == IF old.stored THEN table[i] ELSE None
           acts == [a \in Action |-> IF a \in chosen THEN old.acts[a] ELSE None]
           sure == old.sure /\ i \notin doubt /\ ~Working(i)
           f == [cols |-> old.cols, size |-> old.size, views |-> old.views,
                 frame |-> frame, acts |-> acts, sure |-> sure]
<1>1. /\ wf[i] # None /\ files' = files \cup {f}
      /\ UNCHANGED <<wf, table, last, job, doubt>>
  BY DEF Export
<1>2. old \in Rows /\ table[i] \in Frames \cup {None}
  BY <1>1, Typed
<1>3. frame \in Frames \cup {None} /\ (frame # None => frame = table[i] /\ table[i] # None)
  BY <1>2
<1>4. sure /\ frame # None => Fit(old.cols, frame)
  <2> SUFFICES ASSUME sure, frame # None PROVE Fit(old.cols, frame)
    OBVIOUS
  <2>1. i \notin doubt /\ \A o \in Web : job[o].dst # i
    BY DEF Working
  <2>2. Good(wf[i], table[i])
    BY <1>1, <2>1, Typed DEF SInv, Settled
  <2> QED
    BY <1>3, <2>2 DEF Good
<1>5. sure \in BOOLEAN
  OBVIOUS
<1> HIDE DEF old, frame, sure
<1>6. acts \in [Action -> ActionRow \cup {None}]
  BY <1>2, RowTyped
<1> HIDE DEF acts
<1>7. f \in WorkflowFile /\ f.cols = old.cols /\ f.frame = frame /\ f.sure = sure
  <2>1. frame \in Frame \cup {None}
    BY <1>3 DEF Frames
  <2> QED
    BY <1>2, <1>5, <1>6, <2>1, RowTyped DEF WorkflowFile
<1> HIDE DEF f
<1>8. f \in WFiles
  BY <1>2, <1>3, <1>4, <1>7, RowTyped DEF WFiles
<1>9. files' \subseteq WFiles \cup AFiles
  BY <1>1, <1>8, Typed
<1>10. SInv(wf', table', last', job', doubt')
  BY <1>1, Typed
<1> QED
  BY <1>9, <1>10 DEF IInv

LEMMA ExportActionStep ==
  ASSUME IInv, NEW w \in Web, NEW i \in Id, NEW a \in Action, ExportAction(w, i, a)
  PROVE  IInv'
<1> DEFINE old == wf[i]
           S == {c \in Range(old.cols) : c.name \in old.acts[a].columns \cup old.acts[a].links}
           used == Those(old.cols, S)
           f == [act |-> old.acts[a], used |-> used]
<1>1. /\ wf[i] # None /\ old.acts[a] # None /\ files' = files \cup {f}
      /\ UNCHANGED <<wf, table, last, job, doubt>>
  BY DEF ExportAction
<1>2. old \in Rows
  BY <1>1, Typed
<1> HIDE DEF S
<1>3. used \in Seq(ColumnRow) /\ IsInjective(Names(used))
  BY <1>2, RowTyped, ThoseRows
<1> HIDE DEF used, old
<1>4. old.acts[a] \in ActionRow
  BY <1>1, <1>2, RowTyped
<1>5. f \in ActionFile /\ f.used = used
  BY <1>3, <1>4 DEF ActionFile
<1> HIDE DEF f
<1>6. files' \subseteq WFiles \cup AFiles
  BY <1>1, <1>3, <1>5, Typed DEF AFiles
<1>7. SInv(wf', table', last', job', doubt')
  BY <1>1, Typed
<1> QED
  BY <1>6, <1>7 DEF IInv

-----------------------------------------------------------------------------
(* The steps of the import of an action.                                   *)

\* The row of a workflow with an action that is empty yet, and new columns.
WithAction(old, a, act, new) == [old EXCEPT !.acts[a] = act, !.cols = old.cols \o new]

LEMMA WithActionIs ==
  ASSUME NEW old \in Rows, NEW a \in Action, NEW act \in ActionRow,
         NEW new \in Seq(ColumnRow), IsInjective(Names(new)), Has(new) \cap Has(old.cols) = {}
  PROVE  /\ WithAction(old, a, act, new) \in Rows
         /\ WithAction(old, a, act, new).sure = old.sure
         /\ WithAction(old, a, act, new).size = old.size
         /\ WithAction(old, a, act, new).cols = old.cols \o new
         /\ WithAction(old, a, act, new).acts[a] = act
         /\ \A b \in Action \ {a} : WithAction(old, a, act, new).acts[b] = old.acts[b]
<1> DEFINE acts == [old.acts EXCEPT ![a] = act]
           cols == old.cols \o new
           row == [old EXCEPT !.acts = acts, !.cols = cols]
<1>1. acts \in [Action -> ActionRow \cup {None}] /\ acts[a] = act
      /\ \A b \in Action \ {a} : acts[b] = old.acts[b]
  BY RowTyped
<1>2. cols \in Seq(ColumnRow) /\ IsInjective(Names(cols))
  <2> DEFINE m == Names(old.cols)
             n == Names(new)
  <2>1. m \in Seq(Column) /\ n \in Seq(Column) /\ IsInjective(m) /\ IsInjective(n)
        /\ Range(m) \cap Range(n) = {} /\ Names(cols) = m \o n /\ cols \in Seq(ColumnRow)
    BY RowTyped, NamesAre, NamesConcat DEF Has
  <2> HIDE DEF m, n, cols
  <2> QED
    BY <2>1, ConcatInjective
<1>3. WithAction(old, a, act, new) = row
  BY RowTyped DEF Workflow, WithAction
<1> HIDE DEF acts, cols
<1>4. row \in Workflow /\ row.cols = cols /\ row.acts = acts
      /\ row.sure = old.sure /\ row.size = old.size
  BY <1>1, <1>2, RowTyped DEF Workflow
<1> HIDE DEF row
<1>5. row \in Rows
  BY <1>2, <1>4 DEF Rows
<1> QED
  BY <1>1, <1>3, <1>4, <1>5 DEF cols

\* What the import of an action makes of a row, and what it may go on with.
LEMMA ActionAdded ==
  ASSUME NEW old \in Rows, NEW a \in Action,
         NEW made \in Seq(ColumnRow), IsInjective(Names(made)), Has(made) \cap Has(old.cols) = {}
  PROVE  LET row == WithAction(old, a, Bare, made) IN
         /\ row \in Rows /\ row.sure = old.sure /\ row.size = old.size
         /\ row.cols = old.cols \o made
         /\ Names(row.cols) = Names(old.cols) \o Names(made)
         /\ \A p \in DOMAIN row.cols : \/ p \in DOMAIN old.cols /\ row.cols[p] = old.cols[p]
                                       \/ \E q \in DOMAIN made : row.cols[p] = made[q]
         /\ ActsFit(old) => ActsFit(row)
<1> DEFINE row == WithAction(old, a, Bare, made)
<1>1. Bare \in ActionRow /\ Bare.columns = {}
  BY DEF Bare, ActionRow
<1>2. row \in Rows
  BY <1>1, WithActionIs
<1>3. row.sure = old.sure /\ row.size = old.size /\ row.cols = old.cols \o made
  BY <1>1, WithActionIs
<1>4. row.acts[a] = Bare /\ \A b \in Action \ {a} : row.acts[b] = old.acts[b]
  BY <1>1, WithActionIs
<1> HIDE DEF row
<1>5. old.cols \in Seq(ColumnRow)
  BY RowTyped
<1>6. /\ Names(old.cols \o made) = Names(old.cols) \o Names(made)
      /\ Has(old.cols \o made) = Has(old.cols) \cup Has(made)
      /\ \A p \in DOMAIN (old.cols \o made) :
           \/ p \in DOMAIN old.cols /\ (old.cols \o made)[p] = old.cols[p]
           \/ \E q \in DOMAIN made : (old.cols \o made)[p] = made[q]
  BY <1>5, NamesConcat
<1>7. ActsFit(old) => ActsFit(row)
  BY <1>1, <1>3, <1>4, <1>6 DEF ActsFit
<1> QED
  BY <1>2, <1>3, <1>6, <1>7 DEF row

LEMMA ActionTaken ==
  ASSUME NEW old \in Rows, NEW row \in Rows, NEW df \in Frames \cup {None},
         NEW fresh \in Seq(ColumnRow), Has(fresh) \cap Has(old.cols) = {},
         \A q \in DOMAIN fresh : ~fresh[q].key,
         row.sure = old.sure, row.size = old.size, row.cols = old.cols \o fresh,
         Names(row.cols) = Names(old.cols) \o Names(fresh),
         \A p \in DOMAIN row.cols : \/ p \in DOMAIN old.cols /\ row.cols[p] = old.cols[p]
                                    \/ \E q \in DOMAIN fresh : row.cols[p] = fresh[q],
         ActsFit(row), Good(old, df),
         NEW j, j.held.fresh = Names(fresh),
         j.pc = "conditions" => fresh = <<>>, j.pc = "addcolumns" => df # None
  PROVE  ActionOK(j, row, df)
<1>1. row # None /\ old.cols \in Seq(ColumnRow)
  BY RowTyped, NoneIsNone
<1>2. ASSUME j.pc = "conditions" PROVE Good(row, df)
  <2>1. row.cols = old.cols
    BY <1>1, <1>2, ConcatEmptySeq
  <2>2. Sound(row, df) /\ (row.sure /\ df # None => Fit(row.cols, df))
    BY <2>1 DEF Good, Sound
  <2> QED
    BY <2>2 DEF Good
<1>3. ASSUME j.pc = "addcolumns"
      PROVE  /\ df # None /\ Names(row.cols) = df.cols \o j.held.fresh
             /\ Range(df.cols) \cap Range(j.held.fresh) = {}
             /\ \A p \in DOMAIN row.cols : row.cols[p].key =>
                  /\ row.cols[p].name \notin Range(j.held.fresh)
                  /\ row.sure => row.cols[p].name \in df.uniq
  <2>1. df # None
    BY <1>3
  <2>2. Names(old.cols) = df.cols
    BY <2>1, SoundIs DEF Good
  <2>3. Range(df.cols) = Has(old.cols) /\ Range(j.held.fresh) = Has(fresh)
    BY <2>2 DEF Has
  <2>4. ASSUME NEW p \in DOMAIN row.cols, row.cols[p].key
        PROVE  /\ row.cols[p].name \notin Range(j.held.fresh)
               /\ row.sure => row.cols[p].name \in df.uniq
    <3>1. p \in DOMAIN old.cols /\ row.cols[p] = old.cols[p]
      BY <2>4
    <3>2. row.cols[p].name \in Has(old.cols)
      BY <1>1, <3>1, NamesAre
    <3>3. row.sure => Fit(old.cols, df)
      BY <2>1 DEF Good
    <3>4. row.cols[p].name \notin Range(j.held.fresh)
      BY <2>3, <3>2
    <3> QED
      BY <2>4, <3>1, <3>3, <3>4 DEF Fit
  <2>5. Range(df.cols) \cap Range(j.held.fresh) = {}
    BY <2>3
  <2> QED
    BY <2>1, <2>2, <2>4, <2>5
<1> QED
  BY <1>1, <1>2, <1>3 DEF ActionOK

\* The columns that the import of an action brings.
LEMMA Brought ==
  ASSUME NEW cols \in Seq(ColumnRow), NEW used \in Seq(ColumnRow), IsInjective(Names(used)),
         Admits(cols, used)
  PROVE  LET fresh == Fresh(cols, used)
             made == Created(fresh) IN
         /\ fresh \in Seq(ColumnRow) /\ IsInjective(Names(fresh)) /\ Names(fresh) \in Seq(Column)
         /\ made \in Seq(ColumnRow) /\ IsInjective(Names(made))
         /\ Has(fresh) \cap Has(cols) = {} /\ Has(made) \cap Has(cols) = {}
         /\ \A q \in DOMAIN fresh : ~fresh[q].key
<1> DEFINE fresh == Fresh(cols, used)
           made == Created(fresh)
<1>1. /\ fresh \in Seq(ColumnRow) /\ IsInjective(Names(fresh))
      /\ Range(fresh) \subseteq Range(used) /\ Has(fresh) \cap Has(cols) = {}
  BY FreshAre
<1> HIDE DEF fresh
<1>2. made \in Seq(ColumnRow) /\ IsInjective(Names(made)) /\ Has(made) \subseteq Has(fresh)
  BY <1>1, CreatedAre
<1>3. Names(fresh) \in Seq(Column)
  BY <1>1, NamesAre
<1>4. ASSUME NEW q \in DOMAIN fresh PROVE ~fresh[q].key
  <2>1. fresh[q] \in Range(used) /\ fresh[q].name \in Has(fresh)
    BY <1>1, NamesAre DEF Range
  <2>2. PICK p \in DOMAIN used : fresh[q] = used[p]
    BY <2>1 DEF Range
  <2>3. used[p].name \notin Has(cols)
    BY <1>1, <2>1, <2>2
  <2> QED
    BY <2>2, <2>3 DEF Admits
<1> HIDE DEF made
<1>5. Has(made) \cap Has(cols) = {}
  BY <1>1, <1>2
<1> QED
  BY <1>1, <1>2, <1>3, <1>4, <1>5 DEF fresh, made

LEMMA ImportActionStep ==
  ASSUME IInv, NEW w \in Web, NEW i \in Id, NEW a \in Action, NEW f \in files \cap ActionFile,
         ImportAction(w, i, f, a)
  PROVE  IInv'
<1> DEFINE old == wf[i]
           df == table[i]
           fresh == Fresh(old.cols, f.used)
           made == Created(fresh)
           row == WithAction(old, a, Bare, made)
           pc == IF fresh = <<>> THEN "conditions" ELSE "addcolumns"
           held == [act |-> f.act, fresh |-> Names(fresh)]
           jb == [pc |-> pc, src |-> a, dst |-> i, held |-> held]
<1>1. /\ job[w].pc = "idle" /\ wf[i] # None /\ Admits(old.cols, f.used)
      /\ Write(w, i, row, df) /\ last' = last /\ files' = files
      /\ fresh = <<>> \/ made # fresh \/ df # None
      /\ IF made # fresh
         THEN doubt' = doubt \cup Disturbs(w, i) \cup {i} /\ job' = job
         ELSE Disturb(w, i) /\ job' = [job EXCEPT ![w] = jb]
  BY DEF ImportAction, Serve, Begin, WithAction
<1>2. old \in Rows /\ df \in Frames \cup {None} /\ f \in AFiles /\ job[w] = Idle
  BY <1>1, Typed, FileIs, KindsOfJob
<1>3. f.act \in ActionRow /\ f.used \in Seq(ColumnRow) /\ IsInjective(Names(f.used))
  BY <1>2 DEF AFiles, ActionFile
<1>4. /\ fresh \in Seq(ColumnRow) /\ IsInjective(Names(fresh)) /\ Names(fresh) \in Seq(Column)
      /\ made \in Seq(ColumnRow) /\ IsInjective(Names(made))
      /\ Has(fresh) \cap Has(old.cols) = {} /\ Has(made) \cap Has(old.cols) = {}
      /\ \A q \in DOMAIN fresh : ~fresh[q].key
  BY <1>1, <1>2, <1>3, RowTyped, Brought
<1>5. doubt \cup Disturbs(w, i) \subseteq doubt' /\ doubt' \subseteq Id
  BY <1>1, Typed, Disturbed DEF Disturb
<1> HIDE DEF old, df, fresh, made
<1>6. /\ row \in Rows /\ row.sure = old.sure /\ row.size = old.size
      /\ row.cols = old.cols \o made
      /\ Names(row.cols) = Names(old.cols) \o Names(made)
      /\ \A p \in DOMAIN row.cols : \/ p \in DOMAIN old.cols /\ row.cols[p] = old.cols[p]
                                    \/ \E q \in DOMAIN made : row.cols[p] = made[q]
      /\ ActsFit(old) => ActsFit(row)
  BY <1>2, <1>4, ActionAdded
<1> HIDE DEF row
<1>7. row \in Rows \cup {None}
  BY <1>6
<1>8. CASE made # fresh
  <2>1. job' = [job EXCEPT ![w] = Idle] /\ i \in doubt' /\ Idle \notin Jobs
    BY <1>1, <1>2, <1>8, Typed, KindsOfJob
  <2> QED
    BY <1>1, <1>2, <1>5, <1>7, <2>1, WriteFirst
<1>9. CASE made = fresh
  <2>1. Disturb(w, i) /\ job' = [job EXCEPT ![w] = jb]
    BY <1>1, <1>9
  <2>2. /\ pc = "conditions" \/ pc = "addcolumns"
        /\ pc = "conditions" => fresh = <<>>
        /\ pc = "addcolumns" => df # None
    BY <1>1, <1>9
  <2> HIDE DEF pc
  <2>3. held \in [act: ActionRow, fresh: {s \in Seq(Column) : IsInjective(s)}]
        /\ held.fresh = Names(fresh)
    BY <1>3, <1>4
  <2> HIDE DEF held
  <2>4. jb \in ActionJobs /\ jb.pc = pc /\ jb.held = held /\ jb.dst = i
    BY <2>2, <2>3 DEF ActionJobs
  <2> HIDE DEF jb
  <2>5. jb \notin CloneJobs /\ jb \notin ImportJobs /\ jb # Idle
    BY <2>4, KindsOfJob
  <2>6. Good(old, df) => ActionOK(jb, row, df)
    BY <1>2, <1>4, <1>9, <1>6, <2>2, <2>3, <2>4, ActionTaken DEF Good
  <2>7. Good(old, df) => Reaches(jb, row, df, wf, table)
    BY <2>5, <2>6 DEF Reaches
  <2>8. jb \in ActionJobs \cup {Idle}
    BY <2>4
  <2> QED
    BY <1>1, <1>2, <1>5, <1>7, <2>1, <2>4, <2>7, <2>8, WriteFirst DEF old, df
<1> QED
  BY <1>8, <1>9

\* What every step of the import of an action begins with.
LEMMA ActionAt ==
  ASSUME IInv, NEW w \in Web, job[w].pc \in {"addcolumns", "conditions"}
  PROVE  /\ job[w] \in ActionJobs /\ job[w] \in Jobs /\ job[w].dst \in Id /\ job[w].src \in Action
         /\ job[w].held.act \in ActionRow /\ job[w].held.fresh \in Seq(Column)
         /\ IsInjective(job[w].held.fresh)
         /\ wf[job[w].dst] \in Rows \cup {None} /\ table[job[w].dst] \in Frames \cup {None}
         /\ JobOK(job[w], wf, table) => ActionOK(job[w], wf[job[w].dst], table[job[w].dst])
         /\ Disturb(w, job[w].dst) => doubt \subseteq doubt' /\ doubt' \subseteq Id
<1>1. job[w] \in ActionJobs /\ job[w] \in Jobs /\ job[w].dst \in Id
  BY JobAt, KindsOfJob
<1>2. /\ job[w].src \in Action /\ job[w].held.act \in ActionRow
      /\ job[w].held.fresh \in Seq(Column) /\ IsInjective(job[w].held.fresh)
  BY <1>1 DEF ActionJobs
<1>3. wf[job[w].dst] \in Rows \cup {None} /\ table[job[w].dst] \in Frames \cup {None}
  BY <1>1, Typed
<1>4. JobOK(job[w], wf, table) => ActionOK(job[w], wf[job[w].dst], table[job[w].dst])
  BY <1>1 DEF JobOK
<1>5. Disturb(w, job[w].dst) => doubt \subseteq doubt' /\ doubt' \subseteq Id
  BY <1>1, Typed, Disturbed DEF Disturb
<1> QED
  BY <1>1, <1>2, <1>3, <1>4, <1>5

\* The new columns can be stored, and what is stored agrees.
LEMMA ColumnsAdded ==
  ASSUME NEW j, j.pc = "addcolumns", NEW new \in Seq(Column), IsInjective(new), j.held.fresh = new,
         NEW row \in Rows, NEW df \in Frames, ActionOK(j, row, df)
  PROVE  /\ CanStore(row.cols, Widened(df, new))
         /\ Good(StoreRow(row, Widened(df, new)), StoreTable(row, Widened(df, new)))
<1> DEFINE wide == Widened(df, new)
           stored == StoreRow(row, wide)
           st == StoreTable(row, wide)
<1>1. /\ Names(row.cols) = df.cols \o new /\ Range(df.cols) \cap Range(new) = {}
      /\ ActsFit(row)
      /\ \A p \in DOMAIN row.cols : row.cols[p].key =>
              row.cols[p].name \notin Range(new) /\ (row.sure => row.cols[p].name \in df.uniq)
  BY DEF ActionOK
<1>2. wide \in Frames /\ wide.cols = df.cols \o new /\ \A c \in df.uniq \ Range(new) : c \in wide.uniq
  BY <1>1, WidenedAre
<1> HIDE DEF wide
<1>3. Has(row.cols) = Range(wide.cols) /\ wide # None
  BY <1>1, <1>2, NoneIsNone DEF Has
<1>4. CanStore(row.cols, wide)
  BY <1>3 DEF CanStore
<1>5. /\ Sound(stored, st) /\ stored.acts = row.acts /\ stored.sure = row.sure /\ st.uniq = wide.uniq
      /\ stored.cols = row.cols
  <2>1. row.cols \in Seq(ColumnRow) /\ IsInjective(Names(row.cols))
    BY RowTyped
  <2>2. Reconciled(row.cols, wide) = row.cols
    BY <1>2, <1>3, <2>1, ReconciledAre
  <2>3. Has(row.cols) \subseteq Range(wide.cols)
    BY <1>3
  <2>4. /\ stored.acts = row.acts /\ stored.sure = row.sure /\ st.uniq = wide.uniq
        /\ stored.cols = row.cols
    BY <1>2, <2>2, <2>3, StoredAre
  <2>5. Sound(stored, st)
    BY <1>2, <1>3, <2>3, StoredSound
  <2> QED
    BY <2>4, <2>5
<1> HIDE DEF stored, st
<1>6. ActsFit(stored)
  BY <1>1, <1>5 DEF ActsFit
<1>7. ASSUME row.sure PROVE Fit(row.cols, st)
  <2> SUFFICES ASSUME NEW p \in DOMAIN row.cols, row.cols[p].key
               PROVE  row.cols[p].name \in wide.uniq
    BY <1>5 DEF Fit
  <2> QED
    BY <1>1, <1>2, <1>7
<1>8. Good(stored, st)
  BY <1>5, <1>6, <1>7 DEF Good, Fit
<1> QED
  BY <1>4, <1>8 DEF stored, st, wide

LEMMA AddColumnsStep ==
  ASSUME IInv, NEW w \in Web, AddColumns(w)
  PROVE  IInv'
<1> DEFINE j == job[w]
           i == j.dst
           new == j.held.fresh
           old == wf[i]
           wide == Widened(table[i], new)
           df == IF table[i] = None THEN None ELSE wide
           jb == [j EXCEPT !.pc = "conditions"]
<1>1. j.pc = "addcolumns" /\ last' = last /\ files' = files
  BY DEF AddColumns
<1>2. /\ j \in ActionJobs /\ j \in Jobs /\ i \in Id /\ j.src \in Action
      /\ new \in Seq(Column) /\ IsInjective(new)
      /\ old \in Rows \cup {None} /\ table[i] \in Frames \cup {None}
      /\ JobOK(j, wf, table) => ActionOK(j, old, table[i])
  BY <1>1, ActionAt
<1>3. ASSUME JobOK(j, wf, table)
      PROVE  /\ old # None /\ df = wide /\ CanStore(old.cols, wide)
             /\ Good(StoreRow(old, wide), StoreTable(old, wide))
  <2>1. ActionOK(j, old, table[i]) /\ old \in Rows /\ table[i] \in Frames /\ old # None
    BY <1>1, <1>2, <1>3 DEF ActionOK
  <2>2. df = wide
    BY <2>1, NoneIsNone
  <2> HIDE DEF old, df
  <2> QED
    BY <1>1, <1>2, <2>1, <2>2, ColumnsAdded
<1>4. CASE /\ old # None /\ CanStore(old.cols, df)
           /\ Write(w, i, StoreRow(old, df), StoreTable(old, df))
           /\ Disturb(w, i) /\ Continue(w, "conditions")
  <2> DEFINE row == StoreRow(old, df)
             st == StoreTable(old, df)
  <2>1. old \in Rows /\ df # None /\ Has(old.cols) \subseteq Range(df.cols) /\ table[i] \in Frames
    BY <1>2, <1>4 DEF CanStore
  <2>2. df \in Frames
    BY <1>2, <2>1, WidenedAre
  <2>3. row \in Rows /\ st \in Frames
    BY <2>1, <2>2, StoredAre
  <2>4. job' = [job EXCEPT ![w] = jb] /\ jb \in ActionJobs /\ jb.pc = "conditions" /\ Follows(jb, j)
    BY <1>2, <1>4, GoOn
  <2> HIDE DEF jb
  <2>5. jb \in Jobs \cup {Idle} /\ jb # Idle /\ jb \notin CloneJobs /\ jb \notin ImportJobs
    BY <2>4, KindsOfJob
  <2>6. doubt \subseteq doubt' /\ doubt' \subseteq Id
    BY <1>1, <1>4, ActionAt
  <2>7. row # None /\ row \in Rows \cup {None} /\ st \in Frames \cup {None}
    BY <2>3, NoneIsNone
  <2>8. JobOK(j, wf, table) => Good(row, st)
    BY <1>3
  <2>9. Write(w, i, row, st)
    BY <1>4
  <2> HIDE DEF row, st
  <2>10. JobOK(j, wf, table) => Reaches(jb, row, st, wf, table)
    BY <2>4, <2>5, <2>7, <2>8 DEF Reaches, ActionOK
  <2> HIDE DEF old, df
  <2> QED
    BY <1>1, <1>2, <2>4, <2>5, <2>6, <2>7, <2>9, <2>10, OwnStep
<1>5. CASE /\ old # None /\ ~CanStore(old.cols, df)
           /\ Write(w, i, Undone(old, new, j.src), table[i])
           /\ Disturb(w, i) /\ End(w)
  <2> DEFINE row == Undone(old, new, j.src)
  <2>1. row \in Rows \cup {None} /\ Write(w, i, row, table[i])
    BY <1>2, <1>5, UndoneAre
  <2>2. doubt \subseteq doubt' /\ doubt' \subseteq Id
    BY <1>1, <1>5, ActionAt
  <2>3. JobOK(j, wf, table) => FALSE
    BY <1>3, <1>5
  <2> HIDE DEF row
  <2>4. JobOK(j, wf, table) => Reaches(Idle, row, table[i], wf, table)
    BY <2>3
  <2> HIDE DEF old, df
  <2> QED
    BY <1>1, <1>2, <1>5, <2>1, <2>2, <2>4, EndIs, OwnStep
<1>6. CASE old = None /\ Raise(w)
  BY <1>1, <1>2, <1>6, RaiseStep
<1> QED
  BY <1>4, <1>5, <1>6 DEF AddColumns

LEMMA ImportConditionsStep ==
  ASSUME IInv, NEW w \in Web, ImportConditions(w)
  PROVE  IInv'
<1> DEFINE j == job[w]
           i == j.dst
           a == j.src
           act == j.held.act
           old == wf[i]
           df == table[i]
           acts == [old.acts EXCEPT ![a] = Link(act, old.cols)]
           row == [old EXCEPT !.acts = acts]
<1>1. j.pc = "conditions" /\ last' = last /\ files' = files
  BY DEF ImportConditions
<1>2. /\ j \in ActionJobs /\ j \in Jobs /\ i \in Id /\ a \in Action /\ act \in ActionRow
      /\ old \in Rows \cup {None} /\ df \in Frames \cup {None}
      /\ JobOK(j, wf, table) => ActionOK(j, old, df)
  BY <1>1, ActionAt
<1>3. CASE old # None /\ old.acts[a] # None /\ CanLink(act, old.cols)
  <2>1. Write(w, i, [old EXCEPT !.acts[a] = Link(act, old.cols)], df) /\ Disturb(w, i) /\ End(w)
    BY <1>3 DEF ImportConditions
  <2>2. old \in Rows
    BY <1>2, <1>3
  <2> HIDE DEF old, df, a, act
  <2>3. Link(act, old.cols) \in ActionRow /\ Link(act, old.cols).columns = act.columns
    BY <1>2, LinkIs
  <2>4. acts \in [Action -> ActionRow \cup {None}] /\ acts[a] = Link(act, old.cols)
        /\ \A b \in Action \ {a} : acts[b] = old.acts[b]
    BY <1>2, <2>2, <2>3, RowTyped
  <2>5. Write(w, i, row, df)
    <3>1. [old EXCEPT !.acts[a] = Link(act, old.cols)] = row
      BY <2>2, RowTyped DEF Workflow
    <3> QED
      BY <2>1, <3>1
  <2> HIDE DEF acts
  <2>6. row \in Workflow /\ row.cols = old.cols /\ row.acts = acts /\ row.size = old.size
        /\ row.sure = old.sure
    BY <2>2, <2>4, RowTyped DEF Workflow
  <2> HIDE DEF row
  <2>7. row \in Rows \cup {None}
    BY <2>2, <2>6, RowTyped DEF Rows
  <2>8. doubt \subseteq doubt' /\ doubt' \subseteq Id
    BY <1>1, <2>1, ActionAt
  <2>9. JobOK(j, wf, table) => Good(row, df)
    <3> SUFFICES ASSUME Good(old, df) PROVE Good(row, df)
      BY <1>1, <1>2 DEF ActionOK
    <3>1. Sound(row, df) /\ (row.sure /\ df # None => Fit(row.cols, df))
      BY <2>6 DEF Good, Sound
    <3>2. ActsFit(old) /\ act.columns \subseteq Has(old.cols)
      BY <1>3 DEF Good, CanLink
    <3>3. ActsFit(row)
      BY <2>3, <2>4, <2>6, <3>2 DEF ActsFit
    <3> QED
      BY <3>1, <3>3 DEF Good
  <2>10. JobOK(j, wf, table) => Reaches(Idle, row, df, wf, table)
    BY <2>1, <2>9, EndIs
  <2> QED
    BY <1>1, <1>2, <2>1, <2>5, <2>7, <2>8, <2>10, EndIs, OwnStep DEF df
<1>4. CASE ~(old # None /\ old.acts[a] # None /\ CanLink(act, old.cols))
  <2>1. Raise(w)
    BY <1>4 DEF ImportConditions
  <2> QED
    BY <1>1, <1>2, <2>1, RaiseStep
<1> QED
  BY <1>3, <1>4

LEMMA CrashStep ==
  ASSUME IInv, NEW w \in Web, Crash(w)
  PROVE  IInv'
BY JobAt, RaiseStep DEF Crash

-----------------------------------------------------------------------------
(* The invariant holds.                                                    *)

LEMMA InitStep ==
  ASSUME Init
  PROVE  IInv
<1>1. PICK s \in Start : /\ wf = [i \in Id |-> IF i = 1 THEN s.wf ELSE None]
                         /\ table = [i \in Id |-> IF i = 1 THEN s.table ELSE None]
  BY DEF Init
<1>2. last = 1 /\ files = {} /\ job = [w \in Web |-> Idle] /\ doubt = {}
  BY DEF Init
<1>3. /\ s.wf \in Workflow /\ s.table \in Frame \cup {None}
      /\ Sound(s.wf, s.table) /\ IsInjective(Names(s.wf.cols))
      /\ \A p \in DOMAIN s.wf.cols : s.wf.cols[p].key => s.wf.cols[p].name \in s.table.uniq
      /\ \A a \in Action : s.wf.acts[a] # None => s.wf.acts[a].columns \subseteq Has(s.wf.cols)
  BY TransferAssumption
<1>4. s.wf \in Rows
  BY <1>3 DEF Rows
<1>5. s.table \in Frames \cup {None}
  <2> SUFFICES ASSUME s.table # None PROVE s.table \in Frames
    OBVIOUS
  <2>1. Names(s.wf.cols) = s.table.cols
    BY <1>3, SoundIs
  <2> QED
    BY <1>3, <2>1 DEF Frames
<1>6. Good(s.wf, s.table)
  BY <1>3 DEF Good, ActsFit, Fit
<1>7. 1 \in Id /\ \A i \in Id : i > 1 => i # 1
  BY TransferAssumption DEF Id
<1>8. \A w \in Web : job[w] = Idle /\ job[w] \notin Jobs
  BY <1>2, KindsOfJob
<1>9. Types(wf, table, last, job, doubt)
  <2>1. wf \in [Id -> Rows \cup {None}] /\ table \in [Id -> Frames \cup {None}]
    BY <1>1, <1>4, <1>5
  <2>2. job \in [Web -> Jobs \cup {Idle}]
    BY <1>2
  <2>3. \A i \in Id : i > last => wf[i] = None /\ table[i] = None
    BY <1>1, <1>2, <1>7
  <2>4. \A w \in Web : job[w] \notin CloneJobs
    BY <1>8, KindsOfJob
  <2> QED
    BY <1>2, <1>7, <1>8, <2>1, <2>2, <2>3, <2>4 DEF Types
<1>10. Settled(wf, table, job, doubt)
  BY <1>1, <1>6, <1>7 DEF Settled
<1>11. Reached(wf, table, job, doubt) /\ Alone(job, doubt)
  BY <1>8 DEF Reached, Alone
<1> QED
  BY <1>2, <1>9, <1>10, <1>11 DEF IInv, SInv

LEMMA OwnerStep ==
  ASSUME IInv, NEW w \in Web, Owner(w)
  PROVE  IInv'
<1>1. ASSUME NEW t \in Title, Create(w, t) PROVE IInv'
  BY <1>1, CreateStep
<1>2. ASSUME NEW t \in Title, NEW i \in Id, Rename(w, i, t) PROVE IInv'
  BY <1>2, RenameStep
<1>3. ASSUME NEW t \in Title, NEW f \in files \cap WorkflowFile, Import(w, f, t) PROVE IInv'
  BY <1>3, ImportBegins
<1>4. ASSUME NEW i \in Id, NEW df \in Upload, FirstUpload(w, i, df) PROVE IInv'
  BY <1>4, FirstUploadStep
<1>5. ASSUME NEW i \in Id, NEW c \in Column, ColumnDelete(w, i, c) PROVE IInv'
  BY <1>5, ColumnDeleteStep
<1>6. ASSUME NEW i \in Id, Flush(w, i) PROVE IInv'
  BY <1>6, FlushStep
<1>7. ASSUME NEW i \in Id, Delete(w, i) PROVE IInv'
  BY <1>7, DeleteStep
<1>8. ASSUME NEW i \in Id, Clone(w, i) PROVE IInv'
  BY <1>8, CloneBegins
<1>9. ASSUME NEW i \in Id, NEW chosen \in SUBSET Action, Export(w, i, chosen) PROVE IInv'
  BY <1>9, ExportStep
<1>10. ASSUME NEW i \in Id, NEW a \in Action, ExportAction(w, i, a) PROVE IInv'
  BY <1>10, ExportActionStep
<1>11. ASSUME NEW i \in Id, NEW a \in Action, NEW f \in files \cap ActionFile,
              ImportAction(w, i, f, a)
       PROVE  IInv'
  BY <1>11, ImportActionStep
<1> QED
  BY <1>1, <1>2, <1>3, <1>4, <1>5, <1>6, <1>7, <1>8, <1>9, <1>10, <1>11 DEF Owner

LEMMA NextStep ==
  ASSUME IInv, [Next]_vars
  PROVE  IInv'
<1>1. CASE UNCHANGED vars
  BY <1>1 DEF vars, IInv
<1>2. CASE Next
  <2>1. PICK w \in Web : \/ Owner(w) \/ CloneStep(w) \/ ImportStep(w)
                         \/ AddColumns(w) \/ ImportConditions(w) \/ Crash(w)
    BY <1>2 DEF Next
  <2>2. CASE Owner(w)
    BY <2>2, OwnerStep
  <2>3. CASE CloneStep(w)
    BY <2>3, CloneTableStep, CloneActionsStep, CloneSaveStep DEF CloneStep
  <2>4. CASE ImportStep(w)
    BY <2>4, ImportColumnsStep, ImportFrameStep, ImportActionsStep, ImportCheckStep DEF ImportStep
  <2>5. CASE AddColumns(w)
    BY <2>5, AddColumnsStep
  <2>6. CASE ImportConditions(w)
    BY <2>6, ImportConditionsStep
  <2>7. CASE Crash(w)
    BY <2>7, CrashStep
  <2> QED
    BY <2>1, <2>2, <2>3, <2>4, <2>5, <2>6, <2>7
<1> QED
  BY <1>1, <1>2

\* A workflow that nobody is working on and nothing disturbed agrees with its
\* table, its actions use columns it has, and its keys tell the rows apart;
\* a clone or an import that nothing disturbed has got as far as its place in
\* the code says; requests that share a workflow are all marked (clone,
\* WorkflowSerializer.create, do_import_action).
THEOREM TransferInvariant == Spec => []IInv
<1>1. Init => IInv
  BY InitStep
<1>2. IInv /\ [Next]_vars => IInv'
  BY NextStep
<1> QED
  BY <1>1, <1>2, PTL DEF Spec

LEMMA TypesAre ==
  ASSUME IInv
  PROVE  TypeOK
<1>1. \A i \in Id : (wf[i] = None \/ wf[i] \in Workflow) /\ (table[i] = None \/ table[i] \in Frame)
  BY Typed DEF Rows, Frames
<1>2. last \in 0..MaxId
  BY Typed, TransferAssumption DEF Id
<1>3. \A f \in files : f \in WorkflowFile \/ f \in ActionFile
  BY Typed DEF WFiles, AFiles
<1>4. ASSUME NEW w \in Web
      PROVE  /\ job[w].pc \in {"idle", "clone", "cloneactions", "clonesave", "columns",
                               "frame", "actions", "check", "addcolumns", "conditions"}
             /\ job[w].dst \in Id \cup {None}
  <2>1. job[w] \in Jobs \/ job[w] = Idle
    BY Typed
  <2>2. CASE job[w] = Idle
    BY <2>2, KindsOfJob
  <2>3. CASE job[w] \in Jobs
    BY <2>3, KindsOfJob
  <2> QED
    BY <2>1, <2>2, <2>3
<1>5. doubt \subseteq Id
  BY Typed
<1> QED
  BY <1>1, <1>2, <1>3, <1>4, <1>5 DEF TypeOK

\* Every workflow, table, file and request is what it is declared to be.
THEOREM TransferTypeCorrect == Spec => []TypeOK
<1>1. IInv => TypeOK
  BY TypesAre
<1> QED
  BY <1>1, TransferInvariant, PTL

LEMMA SettledGood ==
  ASSUME IInv, NEW i \in Id, wf[i] # None, ~Working(i), i \notin doubt
  PROVE  Good(wf[i], table[i])
BY DEF IInv, SInv, Settled, Working

\* The row and the table of a workflow agree whenever no clone or import is
\* working on it and none has been cut short or disturbed, for any number of
\* processes, workflows and columns (check_wf_df).
THEOREM WorkflowsAreSound == Spec => []StructureSound
<1>1. IInv => StructureSound
  BY SettledGood DEF StructureSound, Good
<1> QED
  BY <1>1, TransferInvariant, PTL

\* Its keys tell its rows apart, whatever copies and files it went through.
THEOREM KeysTellRowsApart == Spec => []KeysDistinct
<1>1. IInv => KeysDistinct
  BY SettledGood DEF KeysDistinct, Good, Fit
<1> QED
  BY <1>1, TransferInvariant, PTL

-----------------------------------------------------------------------------
(* What a clone and an import end with.                                    *)

\* A step is of one process, and leaves what the others have in hand.
LEMMA OneSteps ==
  ASSUME IInv, NEW w \in Web, NEW v \in Web, v # w,
         \/ Owner(v) \/ CloneStep(v) \/ ImportStep(v)
         \/ AddColumns(v) \/ ImportConditions(v) \/ Crash(v)
  PROVE  job'[w] = job[w]
<1>1. job \in [Web -> Jobs \cup {Idle}]
  BY Typed
<1>2. CASE Owner(v)
  <2>1. \A t : Create(v, t) => job' = job
    BY DEF Create
  <2>2. \A i, t : Rename(v, i, t) => job' = job
    BY DEF Rename
  <2>3. ASSUME NEW f, NEW t, Import(v, f, t) PROVE job'[w] = job[w]
    BY <1>1, <2>3 DEF Import, Begin
  <2>4. \A i, df : FirstUpload(v, i, df) => job' = job
    BY DEF FirstUpload
  <2>5. \A i, c : ColumnDelete(v, i, c) => job' = job
    BY DEF ColumnDelete
  <2>6. \A i : Flush(v, i) \/ Delete(v, i) => job' = job
    BY DEF Flush, Delete
  <2>7. ASSUME NEW i, Clone(v, i) PROVE job'[w] = job[w]
    BY <1>1, <2>7 DEF Clone, Begin
  <2>8. \A i, chosen, a : Export(v, i, chosen) \/ ExportAction(v, i, a) => job' = job
    BY DEF Export, ExportAction
  <2>9. ASSUME NEW i, NEW f, NEW a, ImportAction(v, i, f, a) PROVE job'[w] = job[w]
    BY <1>1, <2>9 DEF ImportAction, Begin
  <2> QED
    BY <1>2, <2>1, <2>2, <2>3, <2>4, <2>5, <2>6, <2>7, <2>8, <2>9 DEF Owner
<1>3. CASE CloneStep(v)
  BY <1>1, <1>3 DEF CloneStep, CloneTable, CloneActions, CloneSave, Continue, End, Raise
<1>4. CASE ImportStep(v)
  BY <1>1, <1>4 DEF ImportStep, ImportColumns, ImportFrame, ImportActions, ImportCheck,
                    Continue, End, Raise
<1>5. CASE AddColumns(v)
  BY <1>1, <1>5 DEF AddColumns, Continue, End, Raise
<1>6. CASE ImportConditions(v)
  BY <1>1, <1>6 DEF ImportConditions, End, Raise
<1>7. CASE Crash(v)
  BY <1>1, <1>7 DEF Crash, End, Raise
<1> QED
  BY <1>2, <1>3, <1>4, <1>5, <1>6, <1>7

\* A request begins in a process that has nothing in hand.
LEMMA OwnerIsIdle ==
  ASSUME NEW w \in Web, Owner(w)
  PROVE  job[w].pc = "idle"
<1>1. Owner(w) => Serve(w)
  BY DEF Owner, Create, Rename, Import, FirstUpload, ColumnDelete, Flush, Delete,
         Clone, Export, ExportAction, ImportAction
<1> QED
  BY <1>1 DEF Serve

\* The last step of a clone or of an import that did not die.
LEMMA LastStep ==
  ASSUME IInv, [Next]_vars, NEW w \in Web, job[w].pc \in {"clonesave", "check"},
         job'[w].pc = "idle", job[w].dst \notin doubt'
  PROVE  /\ job[w].pc = "clonesave" => CloneSave(w)
         /\ job[w].pc = "check" => ImportCheck(w)
<1>1. Next
  BY DEF vars
<1>2. PICK v \in Web : \/ Owner(v) \/ CloneStep(v) \/ ImportStep(v)
                       \/ AddColumns(v) \/ ImportConditions(v) \/ Crash(v)
  BY <1>1 DEF Next
<1>3. v = w
  <2> SUFFICES ASSUME v # w PROVE FALSE
    OBVIOUS
  <2>1. job'[w] = job[w]
    BY <1>2, OneSteps
  <2> QED
    BY <2>1
<1>4. ~Owner(w)
  BY OwnerIsIdle
<1>5. ~Crash(w)
  BY DEF Crash, Raise
<1>6. ~AddColumns(w) /\ ~ImportConditions(w)
  BY DEF AddColumns, ImportConditions
<1>7. ~CloneTable(w) /\ ~CloneActions(w) /\ ~ImportColumns(w) /\ ~ImportFrame(w) /\ ~ImportActions(w)
  BY DEF CloneTable, CloneActions, ImportColumns, ImportFrame, ImportActions
<1>8. CloneSave(w) \/ ImportCheck(w)
  BY <1>2, <1>3, <1>4, <1>5, <1>6, <1>7 DEF CloneStep, ImportStep
<1> QED
  BY <1>8 DEF CloneSave, ImportCheck

\* What a process has reached if nothing disturbed it by the end of this step.
LEMMA StillReached ==
  ASSUME IInv, NEW w \in Web, job[w] \in Jobs, doubt \subseteq doubt', job[w].dst \notin doubt'
  PROVE  JobOK(job[w], wf, table)
BY DEF IInv, SInv, Reached

LEMMA CloneCopies ==
  ASSUME IInv, NEW w \in Web, CloneSave(w), job[w].dst \notin doubt'
  PROVE  LET i == job[w].src  n == job[w].dst
         IN /\ table'[n] = table[i]
            /\ Names(wf'[n].cols) = Names(wf[i].cols)
            /\ \A a \in Action : SameAction(wf[i].acts[a], wf'[n].acts[a])
<1> DEFINE j == job[w]
           i == j.src
           n == j.dst
           held == j.held
           saved == [wf[n] EXCEPT !.name = held.name, !.size = held.size, !.stored = held.stored]
<1>1. j \in CloneJobs /\ j \in Jobs /\ j.pc = "clonesave" /\ n \in Id /\ i \in Id
  BY JobAt, KindsOfJob DEF CloneSave, CloneJobs
<1>2. Write(w, n, IF wf[n] = None THEN held ELSE saved, table[n]) /\ doubt \subseteq doubt'
  BY DEF CloneSave, Disturb, Raise
<1>3. JobOK(j, wf, table)
  BY <1>1, <1>2, StillReached
<1>4. CloneOK(j, wf[n], table[n], wf[i], table[i])
  BY <1>1, <1>3 DEF JobOK
<1>5. /\ wf[n] # None /\ wf[i] # None /\ Good(wf[i], table[i])
      /\ table[i] # None /\ table[n] = table[i] /\ Names(wf[n].cols) = table[i].cols
      /\ \A a \in Action : SameAction(wf[i].acts[a], wf[n].acts[a])
  BY <1>1, <1>4 DEF CloneOK
<1>6. Names(wf[i].cols) = table[i].cols
  BY <1>5, SoundIs DEF Good
<1>7. wf \in [Id -> Rows \cup {None}] /\ table \in [Id -> Frames \cup {None}]
  BY Typed
<1>8. saved.cols = wf[n].cols /\ saved.acts = wf[n].acts
  <2>1. wf[n] \in Workflow
    BY <1>1, <1>5, <1>7, RowTyped
  <2> QED
    BY <2>1 DEF Workflow
<1> HIDE DEF saved, j
<1>9. wf' = [wf EXCEPT ![n] = saved] /\ table' = [table EXCEPT ![n] = table[n]]
  BY <1>2, <1>5 DEF Write
<1>10. wf'[n] = saved /\ table'[n] = table[n]
  BY <1>1, <1>7, <1>9
<1>11. /\ table'[n] = table[i] /\ Names(wf'[n].cols) = Names(wf[i].cols)
       /\ \A a \in Action : SameAction(wf[i].acts[a], wf'[n].acts[a])
  BY <1>5, <1>6, <1>8, <1>10
<1> QED
  BY <1>11 DEF j

\* What is stored of a file that agrees with itself is what the file says.
LEMMA ImportedWhole ==
  ASSUME NEW f \in WFiles, f.frame # None, Sound(f, f.frame)
  PROVE  /\ Imported(f) = f.cols
         /\ [f.frame EXCEPT !.cols = Names(Imported(f))] = f.frame
<1>1. f.cols \in Seq(ColumnRow) /\ IsInjective(Names(f.cols)) /\ f.frame \in Frames
  BY FileTyped
<1>2. Names(f.cols) = f.frame.cols
  BY SoundIs
<1>3. Range(f.frame.cols) \subseteq Has(f.cols)
  BY <1>2 DEF Has
<1>4. Imported(f) = f.cols
  BY <1>1, <1>3, ReconciledAre DEF Imported
<1>5. [f.frame EXCEPT !.cols = f.frame.cols] = f.frame
  BY <1>1 DEF Frames, Frame
<1> QED
  BY <1>2, <1>4, <1>5

LEMMA LinkedRestored ==
  ASSUME NEW f \in WFiles, NEW a \in Action
  PROVE  Restored(f.acts[a], LinkedActs(f)[a])
<1> DEFINE b == f.acts[a]
           c == Link(b, Imported(f))
<1>1. b \in ActionRow \cup {None}
  BY FileTyped
<1>2. LinkedActs(f)[a] = IF b = None THEN None ELSE c
  BY DEF LinkedActs
<1>3. ASSUME b # None
      PROVE  c # None /\ c.columns = b.columns /\ c.names = b.names /\ b.links \in {c.links, {}}
  <2>1. b \in ActionRow
    BY <1>1, <1>3
  <2> HIDE DEF b
  <2>2. /\ c \in ActionRow /\ c.columns = b.columns /\ c.names = b.names
        /\ c.links = b.links \/ b.links = {}
    BY <2>1, LinkIs
  <2> HIDE DEF c
  <2> QED
    BY <2>2, NoneIsNone
<1> HIDE DEF b, c
<1> QED
  BY <1>2, <1>3 DEF Restored, b

LEMMA ImportBringsBack ==
  ASSUME IInv, NEW w \in Web, ImportCheck(w), job[w].dst \notin doubt'
  PROVE  LET f == job[w].held  n == job[w].dst
         IN IF Sound(f, f.frame)
            THEN /\ wf'[n] # None
                 /\ wf'[n].cols = f.cols /\ wf'[n].views = f.views
                 /\ table'[n] = f.frame
                 /\ \A a \in Action : Restored(f.acts[a], wf'[n].acts[a])
            ELSE wf'[n] = None \/ Sound(wf'[n], table'[n])
<1> DEFINE j == job[w]
           n == j.dst
           f == j.held
           old == wf[n]
           df == table[n]
           sound == Sound([old EXCEPT !.size = f.size], df)
<1>1. j.pc = "check"
  BY DEF ImportCheck
<1>2. /\ j \in ImportJobs /\ j \in Jobs /\ n \in Id /\ f \in WFiles /\ f.frame # None
      /\ old \in Rows \cup {None} /\ df \in Frames \cup {None}
      /\ JobOK(j, wf, table) => ImportOK(j, old, df)
  BY <1>1, ImportAt
<1>3. \/ old # None /\ sound /\ UNCHANGED <<wf, table, doubt>>
      \/ old # None /\ ~sound /\ Write(w, n, None, df) /\ doubt \subseteq doubt'
  BY DEF ImportCheck, Disturb, Raise
<1>4. JobOK(j, wf, table)
  BY <1>2, <1>3, StillReached
<1>5. /\ old \in Rows /\ old.cols = Imported(f) /\ old.size = f.size /\ old.views = f.views
      /\ old.acts = LinkedActs(f)
      /\ df = [f.frame EXCEPT !.cols = Names(Imported(f))]
  BY <1>1, <1>2, <1>3, <1>4 DEF ImportOK
<1>6. [old EXCEPT !.size = f.size] = old
  BY <1>5, RowTyped DEF Workflow
<1>7. sound <=> Sound(old, df)
  BY <1>6
<1>8. wf \in [Id -> Rows \cup {None}] /\ table \in [Id -> Frames \cup {None}]
  BY Typed
<1>9. \/ Sound(old, df) /\ wf'[n] = old /\ table'[n] = df
      \/ ~Sound(old, df) /\ wf'[n] = None
  BY <1>2, <1>3, <1>7, <1>8 DEF Write
<1> HIDE DEF sound, old, df, j
<1>10. ASSUME Sound(f, f.frame)
       PROVE  /\ wf'[n] # None /\ wf'[n].cols = f.cols /\ wf'[n].views = f.views
              /\ table'[n] = f.frame
              /\ \A a \in Action : Restored(f.acts[a], wf'[n].acts[a])
  <2>1. df = f.frame /\ old.cols = f.cols
    BY <1>2, <1>5, <1>10, ImportedWhole
  <2>2. Sound(old, df)
    BY <1>2, <1>5, <1>10, <2>1 DEF Sound
  <2>3. wf'[n] = old /\ table'[n] = df
    BY <1>9, <2>2
  <2>4. old # None
    BY <1>5, NoneIsNone
  <2>5. \A a \in Action : Restored(f.acts[a], old.acts[a])
    BY <1>2, <1>5, LinkedRestored
  <2> QED
    BY <1>5, <2>1, <2>3, <2>4, <2>5
<1>11. wf'[n] = None \/ Sound(wf'[n], table'[n])
  BY <1>9
<1> QED
  BY <1>10, <1>11 DEF j

LEMMA ClonesCopied ==
  ASSUME IInv, [Next]_vars, NEW w \in Web,
         job[w].pc = "clonesave", job'[w].pc = "idle", job[w].dst \notin doubt'
  PROVE  LET i == job[w].src  n == job[w].dst
         IN /\ table'[n] = table[i]
            /\ Names(wf'[n].cols) = Names(wf[i].cols)
            /\ \A a \in Action : SameAction(wf[i].acts[a], wf'[n].acts[a])
<1>1. CloneSave(w)
  BY LastStep
<1> QED
  BY <1>1, CloneCopies

LEMMA ImportsRestored ==
  ASSUME IInv, [Next]_vars, NEW w \in Web,
         job[w].pc = "check", job'[w].pc = "idle", job[w].dst \notin doubt'
  PROVE  LET f == job[w].held  n == job[w].dst
         IN IF Sound(f, f.frame)
            THEN /\ wf'[n] # None
                 /\ wf'[n].cols = f.cols /\ wf'[n].views = f.views
                 /\ table'[n] = f.frame
                 /\ \A a \in Action : Restored(f.acts[a], wf'[n].acts[a])
            ELSE wf'[n] = None \/ Sound(wf'[n], table'[n])
<1>1. ImportCheck(w)
  BY LastStep
<1> QED
  BY <1>1, ImportBringsBack

\* A clone that ends undisturbed has the table of the workflow it was made
\* from, its columns in the same order, and its actions with the same columns
\* and formulas, whatever the other processes did in between (clone).
THEOREM ClonesAreCopies == Spec => CloneIsCopy
<1>1. IInv /\ [Next]_vars =>
        \A w \in Web :
          job[w].pc = "clonesave" /\ job'[w].pc = "idle" /\ job[w].dst \notin doubt' =>
            LET i == job[w].src  n == job[w].dst
            IN /\ table'[n] = table[i]
               /\ Names(wf'[n].cols) = Names(wf[i].cols)
               /\ \A a \in Action : SameAction(wf[i].acts[a], wf'[n].acts[a])
  BY ClonesCopied
<1> QED
  BY <1>1, TransferInvariant, PTL DEF Spec, CloneIsCopy

\* An import that ends undisturbed has the columns, keys, categories, table,
\* views and actions of the file when the file agrees with itself, and
\* otherwise leaves a workflow that does or none (WorkflowSerializer.create).
THEOREM ImportsRestoreFiles == Spec => ImportRestores
<1>1. IInv /\ [Next]_vars =>
        \A w \in Web :
          job[w].pc = "check" /\ job'[w].pc = "idle" /\ job[w].dst \notin doubt' =>
            LET f == job[w].held  n == job[w].dst
            IN IF Sound(f, f.frame)
               THEN /\ wf'[n] # None
                    /\ wf'[n].cols = f.cols /\ wf'[n].views = f.views
                    /\ table'[n] = f.frame
                    /\ \A a \in Action : Restored(f.acts[a], wf'[n].acts[a])
               ELSE wf'[n] = None \/ Sound(wf'[n], table'[n])
  BY ImportsRestored
<1> QED
  BY <1>1, TransferInvariant, PTL DEF Spec, ImportRestores
=============================================================================
