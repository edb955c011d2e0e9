---------------------------- MODULE UploadProofs ----------------------------
(***************************************************************************)
(* Proofs about Upload and Merge.                                          *)
(*                                                                         *)
(* The invariant has two parts that no request relates: what is stored     *)
(* (StoredInv: the table has the columns of the Column rows, and a column  *)
(* marked as key tells its rows apart unless it is in doubt; without a     *)
(* table every mark is in doubt, since the first upload failed to store    *)
(* it) and what is left between the steps (BetweenInv: the session's lists *)
(* are of one length, and nothing is known of their names or keys, nor of  *)
(* the uploaded table).  So a merge is shown to be right for any table and *)
(* any source: its rows are those of BaseRow before the update and those   *)
(* of TargetRow, the promised ones, after it.                              *)
(***************************************************************************)
EXTENDS Upload, FiniteSetTheorems, FunctionTheorems, SequenceTheorems,
        WellFoundedInduction, TLAPS

-----------------------------------------------------------------------------
(* Numbers and lists.                                                      *)

LEMMA Least ==
  ASSUME NEW S \in SUBSET Nat, S # {}
  PROVE  \E n \in S : \A m \in S : n <= m
<1> DEFINE R == OpToRel(<, Nat)
<1>1. IsWellFoundedOn(R, Nat)
  BY NatLessThanWellFounded
<1>2. \A m, n \in Nat : m < n => <<m, n>> \in R
  BY DEF OpToRel
<1> HIDE DEF R
<1>3. PICK n \in S : \A m \in S : ~(<<m, n>> \in R)
  BY <1>1, WFMin
<1>4. \A m \in S : ~(m < n)
  BY <1>2, <1>3
<1> QED
  BY <1>4

\* The place of an index among those of I.
Upto(I, p) == {q \in I : q <= p}
At(I, k) == CHOOSE p \in I : Cardinality(Upto(I, p)) = k

\* Places tell indices apart, and take every value up to the number of them.
LEMMA Places ==
  ASSUME NEW I, NEW n \in Nat, I \subseteq 1..n
  PROVE  /\ Cardinality(I) \in Nat
         /\ \A p \in I : /\ Cardinality(Upto(I, p)) \in 1..Cardinality(I)
                         /\ At(I, Cardinality(Upto(I, p))) = p
         /\ \A k \in 1..Cardinality(I) :
              At(I, k) \in I /\ Cardinality(Upto(I, At(I, k))) = k
<1> DEFINE c == Cardinality(I)
           rank == [p \in I |-> Cardinality(Upto(I, p))]
<1>1. IsFiniteSet(I) /\ c \in Nat /\ \A p \in I : p \in Int
  <2>1. IsFiniteSet(1..n)
    BY FS_Interval
  <2>2. IsFiniteSet(I) /\ c \in Nat
    BY <2>1, FS_Subset, FS_CardinalityType
  <2> QED
    BY <2>2
<1>2. ASSUME NEW p \in I
      PROVE  IsFiniteSet(Upto(I, p)) /\ rank[p] = Cardinality(Upto(I, p)) /\ rank[p] \in 1..c
  <2>1. Upto(I, p) \subseteq I /\ p \in Upto(I, p)
    BY <1>1 DEF Upto
  <2>2. IsFiniteSet(Upto(I, p)) /\ Cardinality(Upto(I, p)) <= c
    BY <1>1, <2>1, FS_Subset
  <2>3. Cardinality(Upto(I, p)) \in Nat /\ Cardinality(Upto(I, p)) # 0
    BY <2>1, <2>2, FS_CardinalityType, FS_EmptySet
  <2> HIDE DEF c
  <2> QED
    BY <1>1, <2>2, <2>3
<1>3. ASSUME NEW p \in I, NEW q \in I, p < q PROVE rank[p] # rank[q]
  <2>1. p \in Int /\ q \in Int /\ p < q /\ \A j \in I : j \in Int
    BY <1>1, <1>3
  <2>2. \A j \in I : j <= p => j <= q
    BY <2>1
  <2>3. Upto(I, p) \subseteq Upto(I, q)
    BY <2>2 DEF Upto
  <2>4. q \in Upto(I, q) /\ q \notin Upto(I, p)
    BY <2>1 DEF Upto
  <2> QED
    BY <1>2, <2>3, <2>4, FS_Subset
<1>4. rank \in [I -> 1..c]
  BY <1>2
<1> HIDE DEF rank, c
<1>5. \A p, q \in I : rank[p] = rank[q] => p = q
  BY <1>1, <1>3
<1>6. rank \in Injection(I, 1..c)
  BY <1>4, <1>5, Fun_IsInj
<1>7. IsFiniteSet(1..c) /\ Cardinality(1..c) = c
  BY <1>1, FS_Interval
<1>8. rank \in Surjection(I, 1..c)
  BY <1>6, <1>7, FS_Injection DEF c
<1>9. \A p \in I : At(I, Cardinality(Upto(I, p))) = p
  <2> SUFFICES ASSUME NEW p \in I PROVE At(I, Cardinality(Upto(I, p))) = p
    OBVIOUS
  <2>1. /\ At(I, Cardinality(Upto(I, p))) \in I
        /\ Cardinality(Upto(I, At(I, Cardinality(Upto(I, p))))) = Cardinality(Upto(I, p))
    BY DEF At
  <2> QED
    BY <1>2, <1>5, <2>1
<1>10. ASSUME NEW k \in 1..c
       PROVE  At(I, k) \in I /\ Cardinality(Upto(I, At(I, k))) = k
  <2>1. PICK p \in I : rank[p] = k
    BY <1>8 DEF Surjection
  <2>2. Cardinality(Upto(I, p)) = k
    BY <1>2, <2>1
  <2> QED
    BY <2>2 DEF At
<1> QED
  BY <1>1, <1>2, <1>9, <1>10 DEF c

LEMMA PlacesOfAll ==
  ASSUME NEW n \in Nat, NEW k \in 1..n
  PROVE  At(1..n, k) = k
<1>1. Upto(1..n, k) = 1..k
  BY DEF Upto
<1>2. Cardinality(Upto(1..n, k)) = k
  BY <1>1, FS_Interval
<1> QED
  BY <1>2, Places

\* Those are the entries of a list that are in S, in their order.
LEMMA ThoseAre ==
  ASSUME NEW T, NEW seq \in Seq(T), NEW S
  PROVE  LET I == {p \in DOMAIN seq : seq[p] \in S}
             t == Those(seq, S) IN
         /\ t = [k \in 1..Cardinality(I) |-> seq[At(I, k)]]
         /\ Cardinality(I) \in Nat
         /\ t \in Seq(T) /\ Len(t) = Cardinality(I) /\ DOMAIN t = 1..Cardinality(I)
         /\ Range(t) = Range(seq) \cap S
         /\ IsInjective(seq) => IsInjective(t)
         /\ Range(seq) \subseteq S => t = seq
         /\ Range(seq) \cap S = {} => t = <<>>
<1> DEFINE I == {p \in DOMAIN seq : seq[p] \in S}
           n == Cardinality(I)
           t == Those(seq, S)
<1>1. Len(seq) \in Nat /\ DOMAIN seq = 1..Len(seq) /\ \A p \in DOMAIN seq : seq[p] \in T
  BY LenProperties
<1>2. I \subseteq 1..Len(seq)
  BY <1>1
<1>3. t = [k \in 1..n |-> seq[At(I, k)]]
  BY DEF Those, At, Upto
<1> HIDE DEF t
<1>4. \A p \in I : p \in DOMAIN seq /\ seq[p] \in S
  OBVIOUS
<1>5. \A p \in DOMAIN seq : seq[p] \in S => p \in I
  OBVIOUS
<1> HIDE DEF I
<1>6. /\ n \in Nat
      /\ \A p \in I : Cardinality(Upto(I, p)) \in 1..n /\ At(I, Cardinality(Upto(I, p))) = p
      /\ \A k \in 1..n : At(I, k) \in I /\ Cardinality(Upto(I, At(I, k))) = k
  BY <1>1, <1>2, Places
<1> HIDE DEF n
<1>7. t \in [1..n -> T]
  BY <1>1, <1>3, <1>4, <1>6
<1>8. t \in Seq(T) /\ Len(t) = n /\ DOMAIN t = 1..n
  BY <1>6, <1>7, SeqDef
<1>9. Range(t) = Range(seq) \cap S
  <2>1. ASSUME NEW k \in 1..n PROVE t[k] \in Range(seq) \cap S
    BY <1>3, <1>4, <1>6 DEF Range
  <2>2. ASSUME NEW p \in DOMAIN seq, seq[p] \in S PROVE seq[p] \in Range(t)
    <3>1. p \in I /\ Cardinality(Upto(I, p)) \in 1..n /\ At(I, Cardinality(Upto(I, p))) = p
      BY <1>5, <1>6, <2>2
    <3>2. t[Cardinality(Upto(I, p))] = seq[p]
      BY <1>3, <3>1
    <3> QED
      BY <1>8, <3>1, <3>2 DEF Range
  <2> QED
    BY <1>8, <2>1, <2>2 DEF Range
<1>10. IsInjective(seq) => IsInjective(t)
  <2> SUFFICES ASSUME IsInjective(seq), NEW k \in 1..n, NEW l \in 1..n, t[k] = t[l]
               PROVE  k = l
    BY <1>8 DEF IsInjective
  <2>1. At(I, k) \in DOMAIN seq /\ At(I, l) \in DOMAIN seq /\ seq[At(I, k)] = seq[At(I, l)]
    BY <1>3, <1>4, <1>6
  <2>2. At(I, k) = At(I, l)
    BY <2>1 DEF IsInjective
  <2> QED
    BY <1>6, <2>2
<1>11. Range(seq) \subseteq S => t = seq
  <2> SUFFICES ASSUME Range(seq) \subseteq S PROVE t = seq
    OBVIOUS
  <2>1. I = 1..Len(seq)
    BY <1>1, <1>2, <1>5 DEF Range
  <2>2. Cardinality(1..Len(seq)) = Len(seq)
    BY <1>1, FS_Interval
  <2>3. n = Len(seq)
    BY <2>1, <2>2 DEF n
  <2>4. \A k \in 1..Len(seq) : t[k] = seq[k]
    BY <1>1, <1>3, <2>1, <2>3, PlacesOfAll
  <2> QED
    BY <1>8, <2>3, <2>4, SeqEqual
<1>12. Range(seq) \cap S = {} => t = <<>>
  <2> SUFFICES ASSUME Range(seq) \cap S = {} PROVE t = <<>>
    OBVIOUS
  <2>1. I = {}
    BY <1>4 DEF Range
  <2>2. n = 0
    BY <2>1, FS_EmptySet DEF n
  <2> QED
    BY <1>8, <2>2, EmptySeq
<1> QED
  BY <1>3, <1>6, <1>8, <1>9, <1>10, <1>11, <1>12 DEF I, n, t

LEMMA NamesAre ==
  ASSUME NEW T, NEW q \in Seq(T)
  PROVE  /\ Len(q) \in Nat /\ DOMAIN q = 1..Len(q) /\ \A i \in DOMAIN q : q[i] \in T
         /\ Names(q) = Range(q) /\ Names(q) \subseteq T /\ IsFiniteSet(Names(q))
<1>1. Len(q) \in Nat /\ DOMAIN q = 1..Len(q) /\ \A i \in DOMAIN q : q[i] \in T
  BY LenProperties
<1>2. Names(q) = Range(q)
  BY DEF Names, Range
<1>3. IsFiniteSet(1..Len(q))
  BY <1>1, FS_Interval
<1>4. q \in Surjection(1..Len(q), Range(q))
  <2>1. q \in [1..Len(q) -> T]
    BY LenProperties
  <2> QED
    BY <2>1, Fun_RangeProperties
<1>5. IsFiniteSet(Range(q))
  BY <1>3, <1>4, FS_Surjection
<1> QED
  BY <1>1, <1>2, <1>5 DEF Range

\* Those of some names: entries that are equal there are repeated before.
LEMMA KeptAre ==
  ASSUME NEW q \in Seq(Name), NEW S
  PROVE  /\ Those(q, S) \in Seq(Name)
         /\ Names(Those(q, S)) = Names(q) \cap S
         /\ IsInjective(q) => IsInjective(Those(q, S))
         /\ \A k, l \in DOMAIN Those(q, S) :
              k # l /\ Those(q, S)[k] = Those(q, S)[l] => Those(q, S)[k] \in Repeats(q)
<1> DEFINE I == {p \in DOMAIN q : q[p] \in S}
           n == Cardinality(I)
           t == Those(q, S)
<1>0. DOMAIN t = 1..n /\ \A k \in 1..n : t[k] = q[At(I, k)]
  BY ThoseAre
<1>1. t \in Seq(Name) /\ Range(t) = Range(q) \cap S /\ (IsInjective(q) => IsInjective(t))
  BY ThoseAre
<1>2. Names(t) = Range(t) /\ Names(q) = Range(q)
  BY <1>1, NamesAre
<1>3. I \subseteq 1..Len(q) /\ Len(q) \in Nat
  BY NamesAre
<1>4. \A p \in I : p \in DOMAIN q
  OBVIOUS
<1> HIDE DEF t, I
<1>5. \A k \in 1..n : At(I, k) \in I /\ Cardinality(Upto(I, At(I, k))) = k
  BY <1>3, Places
<1> HIDE DEF n
<1>6. ASSUME NEW k \in 1..n, NEW l \in 1..n, k # l, t[k] = t[l]
      PROVE  t[k] \in Repeats(q)
  <2>1. At(I, k) # At(I, l)
    BY <1>5, <1>6
  <2>2. At(I, k) \in DOMAIN q /\ At(I, l) \in DOMAIN q
    BY <1>4, <1>5
  <2>3. t[k] = q[At(I, k)] /\ t[l] = q[At(I, l)]
    BY <1>0
  <2> QED
    BY <1>6, <2>1, <2>2, <2>3 DEF Repeats
<1> QED
  BY <1>0, <1>1, <1>2, <1>6 DEF t

LEMMA NoRepeats ==
  ASSUME NEW q \in Seq(Name), Repeats(q) = {}
  PROVE  IsInjective(q)
BY DEF Repeats, IsInjective

LEMMA ConcatAre ==
  ASSUME NEW a \in Seq(Name), NEW b \in Seq(Name)
  PROVE  /\ a \o b \in Seq(Name)
         /\ Names(a \o b) = Names(a) \cup Names(b)
         /\ IsInjective(a) /\ IsInjective(b) /\ Names(a) \cap Names(b) = {} => IsInjective(a \o b)
<1> DEFINE c == a \o b
<1>1. /\ c \in Seq(Name) /\ Len(c) = Len(a) + Len(b)
      /\ \A i \in 1..Len(a) + Len(b) : c[i] = IF i <= Len(a) THEN a[i] ELSE b[i - Len(a)]
  BY ConcatProperties
<1> HIDE DEF c
<1>2. /\ Len(a) \in Nat /\ Len(b) \in Nat /\ DOMAIN a = 1..Len(a) /\ DOMAIN b = 1..Len(b)
      /\ DOMAIN c = 1..Len(a) + Len(b)
  BY <1>1, NamesAre
<1>3. \A i \in DOMAIN a : i \in DOMAIN c /\ c[i] = a[i]
  BY <1>1, <1>2
<1>4. \A i \in DOMAIN b : i + Len(a) \in DOMAIN c /\ c[i + Len(a)] = b[i]
  BY <1>1, <1>2
<1>5. ASSUME NEW i \in DOMAIN c
      PROVE  \/ i \in DOMAIN a /\ c[i] = a[i]
             \/ i - Len(a) \in DOMAIN b /\ c[i] = b[i - Len(a)]
  BY <1>1, <1>2
<1>6. Names(c) = Names(a) \cup Names(b)
  <2>1. Names(c) \subseteq Names(a) \cup Names(b)
    BY <1>5 DEF Names
  <2>2. Names(a) \subseteq Names(c)
    BY <1>3 DEF Names
  <2>3. Names(b) \subseteq Names(c)
    BY <1>4 DEF Names
  <2> QED
    BY <2>1, <2>2, <2>3
<1>7. ASSUME IsInjective(a), IsInjective(b), Names(a) \cap Names(b) = {}
      PROVE  IsInjective(c)
  <2> SUFFICES ASSUME NEW i \in DOMAIN c, NEW j \in DOMAIN c, c[i] = c[j] PROVE i = j
    BY DEF IsInjective
  <2>1. \A k \in DOMAIN a, l \in DOMAIN b : a[k] # b[l]
    BY <1>7 DEF Names
  <2>2. CASE i \in DOMAIN a /\ c[i] = a[i] /\ j \in DOMAIN a /\ c[j] = a[j]
    BY <1>7, <2>2 DEF IsInjective
  <2>3. CASE /\ i - Len(a) \in DOMAIN b /\ c[i] = b[i - Len(a)]
             /\ j - Len(a) \in DOMAIN b /\ c[j] = b[j - Len(a)]
    <3>1. i - Len(a) = j - Len(a)
      BY <1>7, <2>3 DEF IsInjective
    <3> QED
      BY <1>2, <3>1
  <2> QED
    BY <1>5, <2>1, <2>2, <2>3
<1> QED
  BY <1>1, <1>6, <1>7 DEF c

LEMMA PrefixIs ==
  ASSUME NEW q \in Seq(Name), NEW n \in 0..Len(q)
  PROVE  /\ SubSeq(q, 1, n) \in Seq(Name) /\ DOMAIN SubSeq(q, 1, n) = 1..n
         /\ \A i \in 1..n : i \in DOMAIN q /\ SubSeq(q, 1, n)[i] = q[i]
         /\ Names(SubSeq(q, 1, n)) \subseteq Names(q)
<1> DEFINE p == SubSeq(q, 1, n)
<1>1. Len(q) \in Nat /\ DOMAIN q = 1..Len(q) /\ \A i \in DOMAIN q : q[i] \in Name
  BY NamesAre
<1>2. \A i \in 1..n : q[i] \in Name
  BY <1>1
<1>3. p \in Seq(Name) /\ Len(p) = (IF 1 <= n THEN n - 1 + 1 ELSE 0)
      /\ \A i \in 1..(n - 1 + 1) : p[i] = q[1 + i - 1]
  BY <1>1, <1>2, SubSeqProperties
<1> HIDE DEF p
<1>4. Len(p) = n /\ \A i \in 1..n : p[i] = q[i]
  BY <1>1, <1>3
<1>5. DOMAIN p = 1..n
  BY <1>3, <1>4, NamesAre
<1>6. \A i \in 1..n : i \in DOMAIN q
  BY <1>1
<1>7. Names(p) \subseteq Names(q)
  BY <1>4, <1>5, <1>6 DEF Names
<1> QED
  BY <1>3, <1>4, <1>5, <1>6, <1>7 DEF p

LEMMA OrdersAre ==
  ASSUME NEW S, S \subseteq Name, IsFiniteSet(S), NEW order \in SetToSeqs(S)
  PROVE  order \in Seq(Name) /\ IsInjective(order) /\ Names(order) = S
<1> DEFINE n == Cardinality(S)
<1>1. n \in Nat
  BY FS_CardinalityType
<1>2. order \in [1..n -> S] /\ \A i, j \in 1..n : i # j => order[i] # order[j]
  BY DEF SetToSeqs
<1> HIDE DEF n
<1>3. order \in Injection(1..n, S)
  BY <1>2, Fun_IsInj
<1>4. IsFiniteSet(1..n) /\ Cardinality(1..n) = n
  BY <1>1, FS_Interval
<1>5. order \in Surjection(1..n, S)
  BY <1>3, <1>4, FS_Injection DEF n
<1>6. order \in Seq(Name)
  BY <1>1, <1>2, SeqDef
<1>7. IsInjective(order)
  BY <1>2 DEF IsInjective
<1>8. Names(order) = S
  BY <1>2, <1>5 DEF Names, Surjection
<1> QED
  BY <1>6, <1>7, <1>8

-----------------------------------------------------------------------------
(* What a merge gives.                                                     *)

\* The columns of a frame after step A, and after it.
Width(d, s, sk) ==
    Names(d.cols) \cup (IF New(d, s, sk) = {} THEN {} ELSE New(d, s, sk) \cup {sk})

LEMMA StepATyped ==
  ASSUME NEW d, NEW s, NEW dk, NEW sk, NEW how, sk \in Names(s.cols),
         Names(d.cols) \subseteq Name, Names(s.cols) \subseteq Name,
         d.rows \subseteq [Names(d.cols) -> Cell], s.rows \subseteq [Names(s.cols) -> Cell]
  PROVE  LET g == StepA(d, s, dk, sk, how) IN
         g \in [DOMAIN g -> [Width(d, s, sk) -> Cell]]
<1> DEFINE D == Names(d.cols)
           N == New(d, s, sk)
<1>1. CASE N = {}
  <2>1. StepA(d, s, dk, sk, how) = [p \in d.rows \X {NoRow} |-> p[1]]
    BY <1>1 DEF StepA
  <2>2. Width(d, s, sk) = D
    BY <1>1 DEF Width
  <2>3. \A p \in d.rows \X {NoRow} : p[1] \in [D -> Cell]
    OBVIOUS
  <2> QED
    BY <2>1, <2>2, <2>3
<1>2. CASE N # {}
  <2>1. Width(d, s, sk) = D \cup N \cup {sk}
    BY <1>2 DEF Width
  <2>2. StepA(d, s, dk, sk, how) = [p \in Pairs(d, s, dk, sk, how) |-> Joined(d, s, dk, sk, p)]
    BY <1>2 DEF StepA
  <2>3. N \subseteq Names(s.cols)
    BY DEF New
  <2>4. ASSUME NEW p \in Pairs(d, s, dk, sk, how)
        PROVE  Joined(d, s, dk, sk, p) \in [Width(d, s, sk) -> Cell]
    <3>1. /\ p[1] \in d.rows \/ p[1] = NoRow
          /\ p[2] \in s.rows \/ p[2] = NoRow
          /\ p[1] \in d.rows \/ p[2] \in s.rows
      BY DEF Pairs
    <3>2. NoRow \notin d.rows /\ NoRow \notin s.rows
      BY MergeAssumption DEF Cell
    <3>3. NaN \in Cell
      BY DEF Cell
    <3>4. p[1] # NoRow => \A c \in D : p[1][c] \in Cell
      BY <3>1
    <3>5. p[2] # NoRow => \A c \in Names(s.cols) : p[2][c] \in Cell
      BY <3>1
    <3>6. p[1] = NoRow => p[2] # NoRow
      BY <3>1, <3>2
    <3>7. \A c \in D \cup N \cup {sk} :
            (CASE p[1] # NoRow /\ c \in D -> p[1][c]
               [] p[2] # NoRow /\ c \notin D -> p[2][c]
               [] p[1] = NoRow /\ c = dk /\ dk = sk -> p[2][sk]
               [] OTHER -> NaN) \in Cell
      BY <2>3, <3>3, <3>4, <3>5, <3>6
    <3> QED
      BY <2>1, <3>7 DEF Joined
  <2> QED
    BY <2>2, <2>4
<1> QED
  BY <1>1, <1>2

LEMMA UpdateTyped ==
  ASSUME NEW g, NEW s, NEW over, NEW dk, NEW sk, NEW C,
         g \in [DOMAIN g -> [C -> Cell]], over \subseteq Names(s.cols),
         s.rows \subseteq [Names(s.cols) -> Cell]
  PROVE  /\ DOMAIN Update(g, s, over, dk, sk) = DOMAIN g
         /\ Update(g, s, over, dk, sk) \in [DOMAIN g -> [C -> Cell]]
<1>1. ASSUME NEW i \in DOMAIN g, NEW c \in C
      PROVE  (IF c \in over \ {dk} /\ \E r \in s.rows : r[sk] = g[i][dk]
              THEN Fresh(g[i][c], (CHOOSE r \in s.rows : r[sk] = g[i][dk])[c])
              ELSE g[i][c]) \in Cell
  <2>1. g[i][c] \in Cell
    OBVIOUS
  <2>2. CASE c \in over \ {dk} /\ \E r \in s.rows : r[sk] = g[i][dk]
    <3>1. (CHOOSE r \in s.rows : r[sk] = g[i][dk]) \in s.rows
      BY <2>2
    <3>2. (CHOOSE r \in s.rows : r[sk] = g[i][dk])[c] \in Cell
      BY <2>2, <3>1
    <3> QED
      BY <2>1, <2>2, <3>2 DEF Fresh
  <2> QED
    BY <2>1, <2>2
<1>2. \A i \in DOMAIN g : DOMAIN g[i] = C
  OBVIOUS
<1> QED
  BY <1>1, <1>2 DEF Update

\* Rows that are appended are told from the others by where they come from.
LEMMA Apart == \A a, b, r : <<r>> # <<a, b>>
<1> SUFFICES ASSUME NEW a, NEW b, NEW r, <<r>> = <<a, b>> PROVE FALSE
  OBVIOUS
<1>1. Len(<<r>>) = 1 /\ Len(<<a, b>>) = 2
  OBVIOUS
<1> QED
  BY <1>1

LEMMA AppendedTyped ==
  ASSUME NEW g, NEW s, NEW over, NEW dk, NEW sk, NEW C,
         g \in [DOMAIN g -> [C -> Cell]], over \subseteq Names(s.cols), sk \in Names(s.cols),
         s.rows \subseteq [Names(s.cols) -> Cell]
  PROVE  LET h == Appended(g, s, over, C, dk, sk) IN
         \E B \in SUBSET C : h \in [DOMAIN h -> [B -> Cell]]
<1> DEFINE more == {<<r>> : r \in {r \in s.rows : \A i \in DOMAIN g : g[i][dk] # r[sk]}}
           kept == IF dk = sk \/ dk \in over THEN C ELSE C \ {dk}
           cell(i, c) == IF i \in more
                         THEN (IF c = dk /\ dk = sk THEN i[1][sk] ELSE IF c \in over THEN i[1][c] ELSE NaN)
                         ELSE IF c = dk /\ dk # sk THEN NaN ELSE g[i][c]
<1>1. Appended(g, s, over, C, dk, sk) =
        IF more = {} THEN g ELSE [i \in DOMAIN g \cup more |-> [c \in kept |-> cell(i, c)]]
  BY DEF Appended
<1>2. kept \subseteq C
  OBVIOUS
<1>3. ASSUME NEW i \in DOMAIN g \cup more, NEW c \in kept PROVE cell(i, c) \in Cell
  <2>1. NaN \in Cell
    BY DEF Cell
  <2>2. i \notin more => g[i][c] \in Cell
    OBVIOUS
  <2>3. ASSUME i \in more, NEW e \in Names(s.cols) PROVE i[1][e] \in Cell
    <3>1. PICK r \in s.rows : i = <<r>>
      BY <2>3
    <3>2. i[1] = r
      BY <3>1
    <3> QED
      BY <3>2
  <2> QED
    BY <2>1, <2>2, <2>3
<1> HIDE DEF cell, kept, more
<1>4. CASE more = {}
  BY <1>1, <1>4
<1>5. CASE more # {}
  <2> DEFINE h == [i \in DOMAIN g \cup more |-> [c \in kept |-> cell(i, c)]]
  <2>1. h \in [DOMAIN h -> [kept -> Cell]]
    BY <1>3
  <2> QED
    BY <1>1, <1>2, <1>5, <2>1
<1> QED
  BY <1>4, <1>5

\* The frame that a merge gives has columns of the two tables, the same in
\* every row.
LEMMA CombineTyped ==
  ASSUME NEW d, NEW s, NEW dk, NEW sk, NEW how \in How,
         Names(d.cols) \subseteq Name, Names(s.cols) \subseteq Name,
         d.rows \subseteq [Names(d.cols) -> Cell], s.rows \subseteq [Names(s.cols) -> Cell],
         Combine(d, s, dk, sk, how).kind = "frame"
  PROVE  LET g == Combine(d, s, dk, sk, how).rows IN
         \E C \in SUBSET (Names(d.cols) \cup Names(s.cols)) : g \in [DOMAIN g -> [C -> Cell]]
<1> DEFINE all == Names(d.cols) \cup Names(s.cols)
           res == Combine(d, s, dk, sk, how)
           over == Overlap(d, s, sk)
           W == Width(d, s, sk)
           a == StepA(d, s, dk, sk, how)
<1>1. Failed.kind = "raised" /\ [Failed EXCEPT !.kind = "refused"].kind = "refused"
  BY DEF Failed
<1>2. \A g : Done(g).rows = g
  BY DEF Done
<1>3. sk \in Names(s.cols)
  BY <1>1 DEF Combine
<1>4. CASE dk \notin Names(d.cols)
  <2>1. res = Done(a)
    BY <1>1, <1>3, <1>4 DEF Combine
  <2>2. a \in [DOMAIN a -> [W -> Cell]]
    BY <1>3, StepATyped
  <2>3. W \subseteq all
    BY <1>3 DEF Width, New
  <2> HIDE DEF a, W
  <2>4. res.rows = a
    BY <1>2, <2>1
  <2> QED
    BY <2>2, <2>3, <2>4
<1>5. CASE dk \in Names(d.cols)
  <2>1. res = StepB(a, d, s, dk, sk, how)
    BY <1>3, <1>5 DEF Combine
  <2>2. a \in [DOMAIN a -> [W -> Cell]]
    BY <1>3, StepATyped
  <2>3. W \subseteq all /\ over \subseteq Names(s.cols)
    BY <1>3 DEF Width, New, Overlap
  <2>4. CASE over = {}
    <3>1. res = Done(a)
      BY <2>1, <2>4 DEF StepB
    <3> QED
      BY <1>2, <2>2, <2>3, <3>1
  <2>5. CASE over # {}
    <3> DEFINE part == IF how \in {"inner", "right"}
                       THEN [i \in Matched(a, s, dk, sk) |-> a[i]] ELSE a
               new == Update(part, s, over, dk, sk)
               more == Appended(new, s, over, W, dk, sk)
    <3>1. res = PerformOverlapUpdate(a, s, over, W, dk, sk, how)
      BY <2>1, <2>5 DEF StepB, Width
    <3> HIDE DEF a, W, over
    <3>2. part \in [DOMAIN part -> [W -> Cell]]
      <4>1. Matched(a, s, dk, sk) \subseteq DOMAIN a
        BY DEF Matched
      <4>2. [i \in Matched(a, s, dk, sk) |-> a[i]] \in [Matched(a, s, dk, sk) -> [W -> Cell]]
        BY <2>2, <4>1
      <4> QED
        BY <2>2, <4>2
    <3>3. res = IF ~Unique(Rows(s), sk) THEN Failed
                ELSE CASE how \in {"inner", "left"} -> Done(new)
                       [] how = "outer" -> Done(more)
                       [] how = "right" -> IF more = new THEN Failed ELSE Done(more)
      BY <3>1 DEF PerformOverlapUpdate
    <3> HIDE DEF part
    <3>4. DOMAIN new = DOMAIN part /\ new \in [DOMAIN part -> [W -> Cell]]
      BY <2>3, <3>2, UpdateTyped
    <3> HIDE DEF new
    <3>5. new \in [DOMAIN new -> [W -> Cell]]
      BY <3>4
    <3>6. \E B \in SUBSET W : more \in [DOMAIN more -> [B -> Cell]]
      BY <1>3, <2>3, <3>5, AppendedTyped
    <3> HIDE DEF more, res
    <3>7. res.rows = new \/ res.rows = more
      <4>1. res.kind = "frame"
        BY DEF res
      <4>2. res = Failed \/ res = Done(new) \/ res = Done(more)
        BY <3>3 DEF How
      <4> QED
        BY <1>1, <1>2, <4>1, <4>2
    <3>8. \E B \in SUBSET W : res.rows \in [DOMAIN res.rows -> [B -> Cell]]
      BY <3>5, <3>6, <3>7
    <3> QED
      BY <2>3, <3>8 DEF res
  <2> QED
    BY <2>4, <2>5
<1> QED
  BY <1>4, <1>5

-----------------------------------------------------------------------------
(* What the checks mean.                                                   *)

LEMMA CheckFrame ==
  ASSUME NEW g, NEW tx, NEW now, NEW q \in Seq(Name), NEW ks, ks \subseteq Names(q)
  PROVE  LET check == Check(g, tx, now, q, ks) IN
         /\ check.keys \subseteq Names(q)
         /\ check.kind = "frame" =>
              /\ \A c \in Names(q) : Has(g, c) /\ Accepts(g, tx, now, ks, c)
              /\ check.keys = {c \in Names(q) : Unique(g, c)}
<1> DEFINE Fine(i) == Has(g, q[i]) /\ Accepts(g, tx, now, ks, q[i])
           passed == {i \in DOMAIN q : \A j \in 1..i : Fine(j)}
           saved == {q[i] : i \in passed}
           next == Cardinality(passed) + 1
           check == Check(g, tx, now, q, ks)
<1>1. check = [kind |-> IF next > Len(q) THEN "frame"
                        ELSE IF Has(g, q[next]) THEN "refused" ELSE "raised",
               keys |-> (ks \ saved) \cup {c \in saved : Unique(g, c)}]
  BY DEF Check
<1>2. Len(q) \in Nat /\ DOMAIN q = 1..Len(q)
  BY NamesAre
<1>3. passed \subseteq 1..Len(q) /\ \A i \in passed : Fine(i)
  <2>1. \A i \in 1..Len(q) : i \in 1..i
    BY <1>2
  <2> QED
    BY <1>2, <2>1
<1>4. saved \subseteq Names(q)
  BY DEF Names
<1>5. check.keys \subseteq Names(q)
  BY <1>1, <1>4
<1> HIDE DEF Fine
<1>6. ASSUME check.kind = "frame"
      PROVE  passed = 1..Len(q)
  <2>1. next > Len(q)
    BY <1>1, <1>6
  <2>2. IsFiniteSet(1..Len(q)) /\ Cardinality(1..Len(q)) = Len(q)
    BY <1>2, FS_Interval
  <2> HIDE DEF passed
  <2>3. /\ IsFiniteSet(passed) /\ Cardinality(passed) <= Cardinality(1..Len(q))
        /\ (Cardinality(1..Len(q)) = Cardinality(passed) => 1..Len(q) = passed)
    BY <1>3, <2>2, FS_Subset
  <2>4. Cardinality(passed) \in Nat
    BY <2>3, FS_CardinalityType
  <2>5. Cardinality(passed) = Len(q)
    BY <1>2, <2>1, <2>2, <2>3, <2>4
  <2> QED
    BY <2>2, <2>3, <2>5
<1>7. ASSUME check.kind = "frame"
      PROVE  saved = Names(q) /\ \A c \in Names(q) : Has(g, c) /\ Accepts(g, tx, now, ks, c)
  <2>1. passed = DOMAIN q
    BY <1>2, <1>6, <1>7
  <2>2. \A i \in DOMAIN q : Fine(i)
    BY <1>3, <2>1
  <2>3. saved = Names(q)
    BY <2>1 DEF Names
  <2> QED
    BY <2>2, <2>3 DEF Names, Fine
<1> HIDE DEF saved, check
<1> QED
  BY <1>1, <1>5, <1>7 DEF check

-----------------------------------------------------------------------------
(* Storing a frame.                                                        *)

LEMMA TableIs ==
  ASSUME NEW q \in Seq(Name), NEW R, R \subseteq [Names(q) -> Cell], R # {}
  PROVE  LET t == [cols |-> q, rows |-> R] IN TableOf(t) /\ t # None
<1> DEFINE t == [cols |-> q, rows |-> R]
<1>1. Names(q) \in SUBSET Name
  BY NamesAre
<1>2. R \subseteq UNION {[S -> Cell] : S \in SUBSET Name}
  BY <1>1
<1>3. t \in Table
  BY <1>2 DEF Table
<1>4. t # None
  BY <1>3, UploadAssumption
<1> QED
  BY <1>3, <1>4 DEF TableOf

\* Columns that tell the rows of a frame apart are keys of its table.
LEMMA FrameKeys ==
  ASSUME NEW q, NEW g, NEW c \in Names(q), Unique(g, c)
  PROVE  c \in Keys([cols |-> q, rows |-> {g[i] : i \in DOMAIN g}])
<1> DEFINE R == {g[i] : i \in DOMAIN g}
           t == [cols |-> q, rows |-> R]
<1>1. Rows(t) = [r \in R |-> r]
  BY DEF Rows
<1>2. \A r \in R : r[c] # NaN
  BY DEF Unique
<1>3. \A r1, r2 \in R : r1 # r2 => r1[c] # r2[c]
  BY DEF Unique
<1> HIDE DEF R
<1>4. Unique(Rows(t), c)
  BY <1>1, <1>2, <1>3 DEF Unique
<1> QED
  BY <1>4 DEF Keys, R

LEMMA FinishAre ==
  ASSUME columns \in Seq(Name), IsInjective(columns), keys \subseteq Names(columns),
         NEW g, NEW C \in SUBSET Name, IsFiniteSet(C), g \in [DOMAIN g -> [C -> Cell]],
         NEW now, Finish(g, now)
  PROVE  /\ columns' \in Seq(Name) /\ IsInjective(columns') /\ keys' \subseteq Names(columns')
         /\ TableOf(table') /\ table' # None /\ table'.cols = columns'
         /\ table'.rows = {g[i] : i \in DOMAIN g}
         /\ Names(columns) \subseteq Names(columns')
         /\ keys \subseteq keys' /\ keys' \subseteq Keys(table')
         /\ doubt' = {}
<1> DEFINE check == Check(g, texts, now, columns, keys)
           R == {g[i] : i \in DOMAIN g}
<1>1. PICK order \in SetToSeqs(Added(g)) :
        /\ columns' = columns \o order
        /\ keys' = check.keys \cup {c \in Names(order) : Unique(g, c)}
        /\ table' = [cols |-> columns', rows |-> R]
  BY DEF Finish
<1>2. DOMAIN g # {} /\ check.kind = "frame" /\ doubt' = {}
  BY DEF Finish
<1>3. /\ \A c \in Names(columns) : Has(g, c) /\ Accepts(g, texts, now, keys, c)
      /\ check.keys = {c \in Names(columns) : Unique(g, c)}
  BY <1>2, CheckFrame
<1> HIDE DEF check
<1>4. \A i \in DOMAIN g : DOMAIN g[i] = C /\ g[i] \in [C -> Cell]
  OBVIOUS
<1>5. Names(columns) \subseteq C
  BY <1>2, <1>3, <1>4 DEF Has
<1>6. Added(g) = C \ Names(columns)
  BY <1>2, <1>4 DEF Added
<1>7. order \in Seq(Name) /\ IsInjective(order) /\ Names(order) = C \ Names(columns)
  <2>1. IsFiniteSet(C \ Names(columns))
    BY FS_Subset
  <2> QED
    BY <1>1, <1>6, <2>1, OrdersAre
<1>8. columns' \in Seq(Name) /\ IsInjective(columns') /\ Names(columns') = C
  <2> DEFINE q == columns \o order
  <2>1. Names(columns) \cap Names(order) = {}
    BY <1>7
  <2>2. q \in Seq(Name) /\ IsInjective(q) /\ Names(q) = Names(columns) \cup Names(order)
    BY <1>7, <2>1, ConcatAre
  <2> QED
    BY <1>1, <1>5, <1>7, <2>2
<1>9. keys' = {c \in C : Unique(g, c)}
  BY <1>1, <1>3, <1>5, <1>7
<1>10. R \subseteq [C -> Cell] /\ R # {}
  BY <1>2, <1>4
<1>11. TableOf(table') /\ table' # None
  BY <1>1, <1>8, <1>10, TableIs
<1>12. table'.cols = columns' /\ table'.rows = R
  BY <1>1
<1>13. keys \subseteq keys'
  BY <1>3, <1>5, <1>9 DEF Accepts
<1>14. keys' \subseteq Keys(table')
  BY <1>1, <1>8, <1>9, FrameKeys
<1> QED
  BY <1>2, <1>5, <1>8, <1>9, <1>11, <1>12, <1>13, <1>14

\* A merge that is refused, or raises, marks columns that are then in doubt.
LEMMA GiveUpAre ==
  ASSUME columns \in Seq(Name), keys \subseteq Names(columns), doubt \subseteq Name,
         NEW g, NEW now, NEW kind, GiveUp(g, now, kind)
  PROVE  /\ keys' \subseteq Names(columns) /\ doubt' \subseteq Name
         /\ keys' \ doubt' \subseteq keys \ doubt
         /\ UNCHANGED <<table, columns>>
<1>1. Check(g, texts, now, columns, keys).keys \subseteq Names(columns)
  BY CheckFrame
<1>2. Names(columns) \subseteq Name
  BY NamesAre
<1> QED
  BY <1>1, <1>2 DEF GiveUp

-----------------------------------------------------------------------------
(* The first table of a workflow.                                          *)

LEMMA SourceTyped ==
  ASSUME NEW t, t = None \/ TableOf(t), NEW u \in Data, Len(u.names) = Len(u.initial),
         Source(t, u) # None
  PROVE  LET src == Source(t, u) IN
         /\ src.cols \in Seq(Name) /\ src.rows \subseteq [Names(src.cols) -> Cell]
         /\ src.rows # {}
<1> DEFINE name(c) == IF \E j \in DOMAIN u.initial : u.initial[j] = c
                      THEN u.names[CHOOSE j \in DOMAIN u.initial : u.initial[j] = c]
                      ELSE c
           dropped == {name(t.cols[i]) : i \in {j \in DOMAIN t.cols : ~u.chosen[j]}}
           S == {c \in Names(t.cols) : name(c) \notin dropped}
           kept == Those(t.cols, S)
           cols == [i \in DOMAIN kept |-> name(kept[i])]
           old(c) == kept[CHOOSE i \in DOMAIN kept : cols[i] = c]
           row(r) == [c \in Names(cols) |-> r[old(c)]]
           rows == {row(r) : r \in t.rows}
<1>1. TableOf(t) /\ Source(t, u) = [cols |-> cols, rows |-> rows]
  BY DEF Source
<1>2. t.cols \in Seq(Name) /\ t.rows \subseteq [Names(t.cols) -> Cell] /\ t.rows # {}
  BY <1>1 DEF TableOf, Table
<1>3. \A c \in Name : name(c) \in Name
  <2>1. u.initial \in Seq(Name) /\ u.names \in Seq(Name)
    BY DEF Data
  <2>2. DOMAIN u.initial = DOMAIN u.names /\ \A j \in DOMAIN u.names : u.names[j] \in Name
    BY <2>1, NamesAre
  <2> QED
    BY <2>2
<1> HIDE DEF name
<1> HIDE DEF S
<1>4. kept \in Seq(Name) /\ Names(kept) \subseteq Names(t.cols)
  BY <1>2, KeptAre
<1> HIDE DEF kept
<1>5. /\ Len(kept) \in Nat /\ DOMAIN kept = 1..Len(kept)
      /\ \A i \in DOMAIN kept : kept[i] \in Name /\ kept[i] \in Names(t.cols)
  BY <1>4, NamesAre DEF Names
<1>6. cols \in [1..Len(kept) -> Name]
  BY <1>3, <1>5
<1>7. cols \in Seq(Name) /\ DOMAIN cols = DOMAIN kept
  BY <1>5, <1>6, SeqDef
<1> HIDE DEF cols
<1>8. ASSUME NEW c \in Names(cols) PROVE old(c) \in Names(t.cols)
  BY <1>5, <1>7 DEF Names
<1> HIDE DEF old
<1>9. \A r \in t.rows : row(r) \in [Names(cols) -> Cell]
  BY <1>2, <1>8
<1> HIDE DEF row
<1>10. rows \subseteq [Names(cols) -> Cell] /\ rows # {}
  BY <1>2, <1>9
<1> HIDE DEF rows
<1>11. Source(t, u).cols = cols /\ Source(t, u).rows = rows
  BY <1>1
<1> QED
  BY <1>7, <1>10, <1>11

\* The first names of a list, up to one that is repeated.
Unrepeated(q, X) ==
    LET bad == {i \in DOMAIN q : q[i] \in X}
    IN IF bad = {} THEN q
       ELSE SubSeq(q, 1, (CHOOSE i \in bad : \A j \in bad : i <= j) - 1)

LEMMA UpToRepeated ==
  ASSUME NEW q \in Seq(Name), NEW X,
         \A k, l \in DOMAIN q : k # l /\ q[k] = q[l] => q[k] \in X
  PROVE  /\ Unrepeated(q, X) \in Seq(Name) /\ IsInjective(Unrepeated(q, X))
         /\ Names(Unrepeated(q, X)) \subseteq Names(q)
<1> DEFINE bad == {i \in DOMAIN q : q[i] \in X}
           m == CHOOSE i \in bad : \A j \in bad : i <= j
           p == SubSeq(q, 1, m - 1)
<1>1. Len(q) \in Nat /\ DOMAIN q = 1..Len(q)
  BY NamesAre
<1>2. CASE bad = {}
  <2>1. IsInjective(q)
    BY <1>2 DEF IsInjective
  <2> QED
    BY <1>2, <2>1 DEF Unrepeated
<1>3. CASE bad # {}
  <2>1. bad \in SUBSET Nat
    BY <1>1
  <2>2. m \in bad /\ \A j \in bad : m <= j
    BY <1>3, <2>1, Least
  <2>3. m - 1 \in 0..Len(q)
    BY <1>1, <2>2
  <2>4. \A i \in 1..(m - 1) : i \in DOMAIN q /\ i \notin bad
    BY <1>1, <2>1, <2>2
  <2> HIDE DEF m
  <2>5. /\ p \in Seq(Name) /\ DOMAIN p = 1..(m - 1)
        /\ \A i \in 1..(m - 1) : i \in DOMAIN q /\ p[i] = q[i]
        /\ Names(p) \subseteq Names(q)
    BY <2>3, PrefixIs
  <2> HIDE DEF p
  <2>6. IsInjective(p)
    <3> SUFFICES ASSUME NEW k \in 1..(m - 1), NEW l \in 1..(m - 1), p[k] = p[l], k # l
                 PROVE  FALSE
      BY <2>5 DEF IsInjective
    <3>1. q[k] \in X
      BY <2>5
    <3> QED
      BY <2>4, <3>1
  <2> QED
    BY <1>3, <2>5, <2>6 DEF p, m, Unrepeated
<1> QED
  BY <1>2, <1>3

LEMMA FirstStoreAre ==
  ASSUME columns \in Seq(Name), IsInjective(columns), keys \subseteq Names(columns),
         keys \subseteq doubt, doubt \subseteq Name,
         NEW src, src.cols \in Seq(Name), src.rows \subseteq [Names(src.cols) -> Cell],
         src.rows # {}, FirstStore(src)
  PROVE  /\ columns' \in Seq(Name) /\ IsInjective(columns') /\ keys' \subseteq Names(columns')
         /\ doubt' \subseteq Name
         /\ Storable(src) => /\ TableOf(table') /\ table' # None /\ table'.cols = columns'
                             /\ keys' \ doubt' \subseteq Keys(table')
         /\ ~Storable(src) => UNCHANGED table /\ keys' \subseteq doubt'
<1> DEFINE g == Rows(src)
           S == Names(src.cols)
           new == Those(src.cols, S \ Names(columns))
           some == Unrepeated(new, Repeats(src.cols))
<1>1. IF Storable(src) THEN Store(g, StringColumns(src), new) /\ UNCHANGED doubt ELSE StoreFails(g, some)
  BY DEF FirstStore, Unrepeated
<1>2. /\ new \in Seq(Name) /\ Names(new) = S \ Names(columns)
      /\ IsInjective(src.cols) => IsInjective(new)
      /\ \A k, l \in DOMAIN new : k # l /\ new[k] = new[l] => new[k] \in Repeats(src.cols)
  <2> DEFINE X == S \ Names(columns)
  <2>1. S \cap X = X
    OBVIOUS
  <2> HIDE DEF X
  <2>2. /\ Those(src.cols, X) \in Seq(Name)
        /\ Names(Those(src.cols, X)) = Names(src.cols) \cap X
        /\ IsInjective(src.cols) => IsInjective(Those(src.cols, X))
        /\ \A k, l \in DOMAIN Those(src.cols, X) :
             k # l /\ Those(src.cols, X)[k] = Those(src.cols, X)[l]
             => Those(src.cols, X)[k] \in Repeats(src.cols)
    BY KeptAre
  <2> QED
    BY <2>1, <2>2 DEF X
<1> HIDE DEF new
<1>3. some \in Seq(Name) /\ IsInjective(some) /\ Names(some) \subseteq Names(new)
  BY <1>2, UpToRepeated
<1> HIDE DEF some
<1>4. Names(columns) \subseteq Name /\ Names(new) \subseteq Name
  BY <1>2, NamesAre
<1>5. CASE Storable(src)
  <2>1. /\ columns' = columns \o new
        /\ keys' = keys \cup {c \in Names(new) : Unique(g, c)}
        /\ table' = [cols |-> columns', rows |-> {g[i] : i \in DOMAIN g}]
        /\ doubt' = doubt
    BY <1>1, <1>5 DEF Store
  <2>2. IsInjective(src.cols) /\ CanStore(g)
    BY <1>5, NoRepeats DEF Storable
  <2>3. {g[i] : i \in DOMAIN g} = src.rows
    BY DEF Rows
  <2>4. Names(columns) \subseteq S
    <3>1. PICK r \in src.rows : DOMAIN r = S
      OBVIOUS
    <3>2. r \in DOMAIN g /\ g[r] = r
      BY DEF Rows
    <3> QED
      BY <2>2, <3>1, <3>2 DEF CanStore, Has
  <2>5. columns' \in Seq(Name) /\ IsInjective(columns') /\ Names(columns') = S
    <3>1. Names(columns) \cap Names(new) = {} /\ IsInjective(new)
      BY <1>2, <2>2
    <3>2. /\ columns \o new \in Seq(Name) /\ IsInjective(columns \o new)
          /\ Names(columns \o new) = Names(columns) \cup Names(new)
      BY <1>2, <3>1, ConcatAre
    <3> QED
      BY <1>2, <2>1, <2>4, <3>2
  <2>6. TableOf(table') /\ table' # None /\ table'.cols = columns'
    BY <2>1, <2>3, <2>5, TableIs
  <2>7. ASSUME NEW c \in keys' \ doubt' PROVE c \in Keys(table')
    <3>1. c \in S /\ Unique(g, c)
      BY <1>2, <2>1, <2>7
    <3> QED
      BY <2>1, <2>5, <3>1, FrameKeys
  <2> QED
    BY <1>2, <1>5, <2>1, <2>4, <2>5, <2>6, <2>7
<1>6. CASE ~Storable(src)
  <2>1. /\ columns' = columns \o some
        /\ keys' = keys \cup {c \in Names(some) : Unique(g, c)}
        /\ doubt' = doubt \cup Names(some)
        /\ UNCHANGED table
    BY <1>1, <1>6 DEF StoreFails
  <2>2. Names(columns) \cap Names(some) = {}
    BY <1>2, <1>3
  <2>3. /\ columns \o some \in Seq(Name) /\ IsInjective(columns \o some)
        /\ Names(columns \o some) = Names(columns) \cup Names(some)
    BY <1>3, <2>2, ConcatAre
  <2> QED
    BY <1>3, <1>4, <1>6, <2>1, <2>3
<1> QED
  BY <1>5, <1>6

-----------------------------------------------------------------------------
(* The invariant.                                                          *)

\* What is stored: the table has the columns in the order of their rows, and
\* marks that are not in doubt are right.  Without a table all are in doubt.
StoredInv(t, q, ks, db) ==
    /\ t = None \/ (TableOf(t) /\ t.cols = q)
    /\ q \in Seq(Name) /\ IsInjective(q)
    /\ ks \subseteq Names(q) /\ db \subseteq Name
    /\ t # None => ks \ db \subseteq Keys(t)
    /\ t = None => ks \subseteq db

\* What is between the steps: a new name for each name in the file.
BetweenInv(up, dt, n) ==
    /\ up = None \/ TableOf(up)
    /\ dt \in [Session -> Data \cup {None}]
    /\ \A s \in Session : dt[s] # None => Len(dt[s].names) = Len(dt[s].initial)
    /\ n \in 0..MaxUploads

IInv == StoredInv(table, columns, keys, doubt) /\ BetweenInv(upload, data, uploads)

\* Columns of strings are columns.  The rest is kept whatever they are.
TextsInv == texts \subseteq Names(columns)

LEMMA DataOf ==
  ASSUME NEW up, NEW dt, NEW n, BetweenInv(up, dt, n), NEW s \in Session, dt[s] # None
  PROVE  dt[s] \in Data /\ Len(dt[s].names) = Len(dt[s].initial)
BY DEF BetweenInv

LEMMA DataKept ==
  ASSUME NEW up, NEW dt, NEW n, BetweenInv(up, dt, n), NEW s \in Session,
         NEW u, u = None \/ (u \in Data /\ Len(u.names) = Len(u.initial)),
         NEW up2, up2 = None \/ TableOf(up2), NEW n2 \in 0..MaxUploads
  PROVE  BetweenInv(up2, [dt EXCEPT ![s] = u], n2)
BY DEF BetweenInv

LEMMA SameData ==
  ASSUME NEW up, NEW dt, NEW n, BetweenInv(up, dt, n),
         NEW up2, up2 = None \/ TableOf(up2), NEW n2 \in 0..MaxUploads
  PROVE  BetweenInv(up2, dt, n2)
BY DEF BetweenInv

LEMMA NewDataIs ==
  ASSUME NEW f \in Files
  PROVE  /\ TableOf(f) /\ NewData(f) \in Data
         /\ NewData(f).names = f.cols /\ NewData(f).initial = f.cols
         /\ DOMAIN NewData(f) = {"initial", "isKey", "names", "chosen", "dstKeys", "dk", "sk", "how"}
<1>1. TableOf(f)
  BY UploadAssumption
<1>2. f.cols \in Seq(Name)
  BY <1>1 DEF TableOf, Table
<1>3. Len(f.cols) \in Nat /\ DOMAIN f.cols = 1..Len(f.cols)
  BY <1>2, NamesAre
<1>4. [i \in DOMAIN f.cols |-> f.cols[i] \in Keys(f)] \in Seq(BOOLEAN)
  <2>1. [i \in DOMAIN f.cols |-> f.cols[i] \in Keys(f)] \in [1..Len(f.cols) -> BOOLEAN]
    BY <1>3
  <2> QED
    BY <1>3, <2>1, SeqDef
<1>5. [i \in DOMAIN f.cols |-> TRUE] \in Seq(BOOLEAN)
  <2>1. [i \in DOMAIN f.cols |-> TRUE] \in [1..Len(f.cols) -> BOOLEAN]
    BY <1>3
  <2> QED
    BY <1>3, <2>1, SeqDef
<1> QED
  BY <1>1, <1>2, <1>4, <1>5 DEF NewData, Data

LEMMA UploadsNat == MaxUploads \in Nat
BY UploadAssumption

-----------------------------------------------------------------------------
(* Every step keeps it.                                                    *)

LEMMA InitInv == Init => IInv
<1> SUFFICES ASSUME Init PROVE IInv
  OBVIOUS
<1>1. BetweenInv(upload, data, uploads)
  BY UploadsNat DEF Init, BetweenInv
<1>2. CASE table = None
  <2>1. <<>> \in Seq(Name) /\ IsInjective(<<>>) /\ Names(<<>>) = {}
    BY EmptySeq DEF IsInjective, Names
  <2>2. columns = <<>> /\ keys = {} /\ doubt = {}
    <3>1. columns = IF table = None THEN <<>> ELSE table.cols
      BY DEF Init
    <3>2. keys = IF table = None THEN {} ELSE Keys(table)
      BY DEF Init
    <3> QED
      BY <1>2, <3>1, <3>2 DEF Init
  <2>3. StoredInv(table, columns, keys, doubt)
    BY <1>2, <2>1, <2>2 DEF StoredInv
  <2> QED
    BY <1>1, <2>3 DEF IInv
<1>3. CASE table # None
  <2>1. TableOf(table) /\ IsInjective(table.cols)
    BY <1>3, UploadAssumption DEF Init
  <2>2. table.cols \in Seq(Name) /\ Keys(table) \subseteq Names(table.cols)
    BY <2>1 DEF TableOf, Table, Keys
  <2> QED
    BY <1>1, <1>3, <2>1, <2>2 DEF Init, IInv, StoredInv
<1> QED
  BY <1>2, <1>3

LEMMA UploadFileInv ==
  ASSUME IInv, NEW s \in Session, NEW f \in Files, UploadFile(s, f) PROVE IInv'
<1>1. BetweenInv(upload', data', uploads')
  <2>1. uploads' \in 0..MaxUploads
    BY UploadsNat DEF UploadFile, IInv, BetweenInv
  <2>2. BetweenInv(upload, data, uploads) /\ upload' = f /\ data' = [data EXCEPT ![s] = NewData(f)]
    BY DEF UploadFile, IInv
  <2>3. NewData(f) \in Data /\ Len(NewData(f).names) = Len(NewData(f).initial) /\ TableOf(f)
    BY NewDataIs
  <2> QED
    BY <2>1, <2>2, <2>3, DataKept
<1> QED
  BY <1>1 DEF UploadFile, IInv, stored

LEMMA ElsewhereInv ==
  ASSUME IInv, NEW s \in Session, NEW f \in Files,
         NEW theirs \in {None} \cup {{k} : k \in Name}, Elsewhere(s, f, theirs)
  PROVE  IInv'
<1> DEFINE u == [NewData(f) EXCEPT !.dstKeys = theirs]
<1>1. u \in Data /\ Len(u.names) = Len(u.initial)
  BY NewDataIs DEF Data
<1>2. uploads' \in 0..MaxUploads
  BY UploadsNat DEF Elsewhere, IInv, BetweenInv
<1>3. /\ BetweenInv(upload, data, uploads) /\ upload' = upload
      /\ data' = [data EXCEPT ![s] = u] /\ (upload = None \/ TableOf(upload))
  BY DEF Elsewhere, IInv, BetweenInv
<1> HIDE DEF u
<1>4. BetweenInv(upload', data', uploads')
  BY <1>1, <1>2, <1>3, DataKept
<1> QED
  BY <1>4 DEF Elsewhere, IInv, stored

LEMMA ChosenAre ==
  ASSUME NEW u \in Data, NEW names \in NamesFor(u), NEW chosen \in ChoicesFor(u)
  PROVE  LET new == [u EXCEPT !.names = names, !.chosen = chosen] IN
         new \in Data /\ Len(new.names) = Len(new.initial)
<1>1. u.initial \in Seq(Name)
  BY DEF Data
<1>2. /\ Len(u.initial) \in Nat /\ DOMAIN u.initial = 1..Len(u.initial)
      /\ \A i \in DOMAIN u.initial : u.initial[i] \in Name
  BY <1>1, NamesAre
<1>3. names \in Seq(Name) /\ Len(names) = Len(u.initial)
  <2>1. PICK f \in Renamings : names = [i \in DOMAIN u.initial |-> f[u.initial[i]]]
    BY DEF NamesFor
  <2>2. f \in [Name -> Name]
    BY UploadAssumption
  <2>3. names \in [1..Len(u.initial) -> Name]
    BY <1>2, <2>1, <2>2
  <2> QED
    BY <1>2, <2>3, SeqDef
<1>4. chosen \in Seq(BOOLEAN)
  <2>1. chosen \in [1..Len(u.initial) -> BOOLEAN]
    BY <1>2 DEF ChoicesFor
  <2> QED
    BY <1>2, <2>1, SeqDef
<1> QED
  BY <1>3, <1>4 DEF Data

LEMMA SelectColumnsInv ==
  ASSUME IInv, NEW s \in Session, data[s] # None,
         NEW names \in NamesFor(data[s]), NEW chosen \in ChoicesFor(data[s]),
         SelectColumns(s, names, chosen)
  PROVE  IInv'
<1> DEFINE u == [data[s] EXCEPT !.names = names, !.chosen = chosen]
<1>1. BetweenInv(upload, data, uploads)
  BY DEF IInv
<1>2. data[s] \in Data
  BY <1>1, DataOf
<1>3. u \in Data /\ Len(u.names) = Len(u.initial)
  BY <1>2, ChosenAre
<1>4. data' = [data EXCEPT ![s] = u]
  BY <1>1, <1>2 DEF SelectColumns, BetweenInv, Data
<1>5. (upload = None \/ TableOf(upload)) /\ uploads \in 0..MaxUploads
  BY <1>1 DEF BetweenInv
<1> HIDE DEF u
<1>6. BetweenInv(upload, data', uploads)
  BY <1>1, <1>3, <1>4, <1>5, DataKept
<1> QED
  BY <1>6 DEF SelectColumns, IInv, stored

LEMMA OpenKeysInv ==
  ASSUME IInv, NEW s \in Session, OpenKeys(s) PROVE IInv'
<1> DEFINE u == [data[s] EXCEPT !.dstKeys = keys]
<1>1. BetweenInv(upload, data, uploads)
  BY DEF IInv
<1>2. data[s] \in Data /\ Len(data[s].names) = Len(data[s].initial)
  BY <1>1, DataOf DEF OpenKeys
<1>3. keys \subseteq Name
  <2>1. Names(columns) \subseteq Name
    BY NamesAre DEF IInv, StoredInv
  <2> QED
    BY <2>1 DEF IInv, StoredInv
<1>4. u \in Data /\ Len(u.names) = Len(u.initial)
  BY <1>2, <1>3 DEF Data
<1>5. data' = [data EXCEPT ![s] = u]
  BY DEF OpenKeys
<1>6. (upload = None \/ TableOf(upload)) /\ uploads \in 0..MaxUploads
  BY <1>1 DEF BetweenInv
<1> HIDE DEF u
<1>7. BetweenInv(upload, data', uploads)
  BY <1>1, <1>4, <1>5, <1>6, DataKept
<1> QED
  BY <1>7 DEF OpenKeys, IInv, stored

LEMMA SelectKeysInv ==
  ASSUME IInv, NEW s \in Session, NEW dk \in Name, NEW sk \in Name, NEW how \in How,
         SelectKeys(s, dk, sk, how)
  PROVE  IInv'
<1> DEFINE u == [data[s] EXCEPT !.dk = dk, !.sk = sk, !.how = how]
<1>1. BetweenInv(upload, data, uploads)
  BY DEF IInv
<1>2. data[s] \in Data /\ Len(data[s].names) = Len(data[s].initial)
  BY <1>1, DataOf DEF SelectKeys
<1>3. u \in Data /\ Len(u.names) = Len(u.initial)
  BY <1>2 DEF Data
<1>4. data' = [data EXCEPT ![s] = u]
  BY <1>1, <1>2 DEF SelectKeys, BetweenInv, Data
<1>5. (upload = None \/ TableOf(upload)) /\ uploads \in 0..MaxUploads
  BY <1>1 DEF BetweenInv
<1> HIDE DEF u
<1>6. BetweenInv(upload, data', uploads)
  BY <1>1, <1>3, <1>4, <1>5, DataKept
<1> QED
  BY <1>6 DEF SelectKeys, IInv, stored

LEMMA FinishInv ==
  ASSUME StoredInv(table, columns, keys, doubt),
         NEW g, NEW C \in SUBSET Name, IsFiniteSet(C), g \in [DOMAIN g -> [C -> Cell]],
         NEW now, Finish(g, now)
  PROVE  StoredInv(table', columns', keys', doubt')
<1>1. columns \in Seq(Name) /\ IsInjective(columns) /\ keys \subseteq Names(columns)
  BY DEF StoredInv
<1>2. /\ columns' \in Seq(Name) /\ IsInjective(columns') /\ keys' \subseteq Names(columns')
      /\ TableOf(table') /\ table' # None /\ table'.cols = columns'
      /\ keys' \subseteq Keys(table') /\ doubt' = {}
  BY <1>1, FinishAre
<1> QED
  BY <1>2 DEF StoredInv

LEMMA GiveUpInv ==
  ASSUME StoredInv(table, columns, keys, doubt), table # None, NEW g, NEW now,
         NEW kind, GiveUp(g, now, kind)
  PROVE  StoredInv(table', columns', keys', doubt')
<1>1. /\ columns \in Seq(Name) /\ keys \subseteq Names(columns) /\ doubt \subseteq Name
      /\ keys \ doubt \subseteq Keys(table)
  BY DEF StoredInv
<1>2. /\ keys' \subseteq Names(columns) /\ doubt' \subseteq Name
      /\ keys' \ doubt' \subseteq keys \ doubt
      /\ table' = table /\ columns' = columns
  BY <1>1, GiveUpAre
<1> QED
  BY <1>1, <1>2 DEF StoredInv

LEMMA FirstStoreInv ==
  ASSUME StoredInv(table, columns, keys, doubt), table = None,
         NEW src, src.cols \in Seq(Name), src.rows \subseteq [Names(src.cols) -> Cell],
         src.rows # {}, FirstStore(src)
  PROVE  StoredInv(table', columns', keys', doubt')
<1>1. /\ columns \in Seq(Name) /\ IsInjective(columns) /\ keys \subseteq Names(columns)
      /\ keys \subseteq doubt /\ doubt \subseteq Name
  BY DEF StoredInv
<1>2. /\ columns' \in Seq(Name) /\ IsInjective(columns') /\ keys' \subseteq Names(columns')
      /\ doubt' \subseteq Name
      /\ Storable(src) => /\ TableOf(table') /\ table' # None /\ table'.cols = columns'
                          /\ keys' \ doubt' \subseteq Keys(table')
      /\ ~Storable(src) => table' = table /\ keys' \subseteq doubt'
  BY <1>1, FirstStoreAre
<1> QED
  BY <1>2 DEF StoredInv

LEMMA FirstUploadInv ==
  ASSUME IInv, NEW s \in Session, data[s] # None,
         NEW names \in NamesFor(data[s]), NEW chosen \in ChoicesFor(data[s]),
         FirstUpload(s, names, chosen)
  PROVE  IInv'
<1> DEFINE u == [data[s] EXCEPT !.names = names, !.chosen = chosen]
           src == Source(upload, u)
<1>1. BetweenInv(upload, data, uploads) /\ StoredInv(table, columns, keys, doubt)
  BY DEF IInv
<1>2. data[s] \in Data
  BY <1>1, DataOf
<1>3. u \in Data /\ Len(u.names) = Len(u.initial)
  BY <1>2, ChosenAre
<1>4. (upload = None \/ TableOf(upload)) /\ uploads \in 0..MaxUploads
  BY <1>1 DEF BetweenInv
<1>5. /\ table = None /\ src # None /\ FirstStore(src) /\ uploads' = uploads
      /\ IF Storable(src) THEN DropUpload /\ data' = [data EXCEPT ![s] = u]
                          ELSE UNCHANGED <<upload, data>>
  BY DEF FirstUpload
<1> HIDE DEF u
<1>6. /\ src.cols \in Seq(Name) /\ src.rows \subseteq [Names(src.cols) -> Cell]
      /\ src.rows # {}
  BY <1>3, <1>4, <1>5, SourceTyped
<1> HIDE DEF src
<1>7. StoredInv(table', columns', keys', doubt')
  BY <1>1, <1>5, <1>6, FirstStoreInv
<1>8. BetweenInv(upload', data', uploads')
  <2>1. CASE Storable(src)
    BY <1>1, <1>3, <1>4, <1>5, <2>1, DataKept DEF DropUpload
  <2>2. CASE ~Storable(src)
    BY <1>1, <1>5, <2>2
  <2> QED
    BY <2>1, <2>2
<1> QED
  BY <1>7, <1>8 DEF IInv

LEMMA MergeIntoNothingInv ==
  ASSUME IInv, NEW s \in Session, MergeIntoNothing(s) PROVE IInv'
<1> DEFINE u == data[s]
           src == Source(upload, u)
<1>1. BetweenInv(upload, data, uploads) /\ StoredInv(table, columns, keys, doubt)
  BY DEF IInv
<1>2. u \in Data /\ Len(u.names) = Len(u.initial)
  BY <1>1, DataOf DEF MergeIntoNothing
<1>3. (upload = None \/ TableOf(upload)) /\ uploads \in 0..MaxUploads
  BY <1>1 DEF BetweenInv
<1>4. /\ table = None /\ src # None /\ FirstStore(src) /\ uploads' = uploads
      /\ IF Storable(src) THEN DropUpload /\ data' = [data EXCEPT ![s] = None]
                          ELSE UNCHANGED <<upload, data>>
  BY DEF MergeIntoNothing
<1> HIDE DEF u
<1>5. /\ src.cols \in Seq(Name) /\ src.rows \subseteq [Names(src.cols) -> Cell]
      /\ src.rows # {}
  BY <1>2, <1>3, <1>4, SourceTyped
<1> HIDE DEF src
<1>6. StoredInv(table', columns', keys', doubt')
  BY <1>1, <1>4, <1>5, FirstStoreInv
<1>7. BetweenInv(upload', data', uploads')
  <2>1. CASE Storable(src)
    <3>1. upload' = None /\ data' = [data EXCEPT ![s] = None] /\ uploads' = uploads
      BY <1>4, <2>1 DEF DropUpload
    <3> QED
      BY <1>1, <1>3, <3>1, DataKept
  <2>2. CASE ~Storable(src)
    BY <1>1, <1>4, <2>2
  <2> QED
    BY <2>1, <2>2
<1> QED
  BY <1>6, <1>7 DEF IInv

\* What step 4 combines: the table and a source without repeated names.
LEMMA MergingIs ==
  ASSUME IInv, NEW s \in Session, Merging(s)
  PROVE  LET src == Source(upload, data[s]) IN
         /\ table # None /\ TableOf(table) /\ table.cols = columns
         /\ data[s] \in Data /\ data[s].how \in How
         /\ src.cols \in Seq(Name) /\ IsInjective(src.cols)
         /\ src.rows \subseteq [Names(src.cols) -> Cell]
<1>1. BetweenInv(upload, data, uploads) /\ StoredInv(table, columns, keys, doubt)
  BY DEF IInv
<1>2. /\ data[s] # None /\ table # None /\ data[s].how # None
      /\ Source(upload, data[s]) # None /\ Repeats(Source(upload, data[s]).cols) = {}
  BY DEF Merging
<1>3. data[s] \in Data /\ Len(data[s].names) = Len(data[s].initial)
  BY <1>1, <1>2, DataOf
<1>4. data[s].how \in How
  BY <1>2, <1>3 DEF Data
<1>5. upload = None \/ TableOf(upload)
  BY <1>1 DEF BetweenInv
<1>6. /\ Source(upload, data[s]).cols \in Seq(Name)
      /\ Source(upload, data[s]).rows \subseteq [Names(Source(upload, data[s]).cols) -> Cell]
  BY <1>2, <1>3, <1>5, SourceTyped
<1>7. TableOf(table) /\ table.cols = columns
  BY <1>1, <1>2 DEF StoredInv
<1> QED
  BY <1>2, <1>3, <1>4, <1>6, <1>7, NoRepeats

LEMMA CombinedAre ==
  ASSUME TableOf(table), NEW src, src.cols \in Seq(Name),
         src.rows \subseteq [Names(src.cols) -> Cell], NEW dk, NEW sk, NEW how \in How,
         Combine(table, src, dk, sk, how).kind = "frame"
  PROVE  LET g == Combine(table, src, dk, sk, how).rows IN
         \E C \in SUBSET Name : IsFiniteSet(C) /\ g \in [DOMAIN g -> [C -> Cell]]
<1> DEFINE g == Combine(table, src, dk, sk, how).rows
           A == Names(table.cols) \cup Names(src.cols)
<1>1. table.cols \in Seq(Name) /\ table.rows \subseteq [Names(table.cols) -> Cell]
  BY DEF TableOf, Table
<1>2. /\ Names(table.cols) \subseteq Name /\ IsFiniteSet(Names(table.cols))
      /\ Names(src.cols) \subseteq Name /\ IsFiniteSet(Names(src.cols))
  BY <1>1, NamesAre
<1>3. \E C \in SUBSET A : g \in [DOMAIN g -> [C -> Cell]]
  BY <1>1, <1>2, CombineTyped
<1>4. A \subseteq Name /\ IsFiniteSet(A)
  BY <1>2, FS_Union
<1> HIDE DEF g, A
<1>5. PICK C \in SUBSET A : g \in [DOMAIN g -> [C -> Cell]]
  BY <1>3
<1>6. IsFiniteSet(C) /\ C \subseteq Name
  BY <1>4, FS_Subset
<1> QED
  BY <1>5, <1>6 DEF g

LEMMA MergeAcceptedInv ==
  ASSUME IInv, NEW s \in Session, MergeAccepted(s) PROVE IInv'
<1> DEFINE g == Result(s).rows
           now == StringsNow(s)
<1>1. BetweenInv(upload, data, uploads) /\ StoredInv(table, columns, keys, doubt)
  BY DEF IInv
<1>2. /\ Merging(s) /\ Result(s).kind = "frame" /\ Finish(g, now)
      /\ upload' = None /\ data' = [data EXCEPT ![s] = None] /\ uploads' = uploads
  BY DEF MergeAccepted, DropUpload
<1>3. \E C \in SUBSET Name : IsFiniteSet(C) /\ g \in [DOMAIN g -> [C -> Cell]]
  BY <1>2, MergingIs, CombinedAre DEF Result
<1> HIDE DEF g, now
<1>4. StoredInv(table', columns', keys', doubt')
  BY <1>1, <1>2, <1>3, FinishInv
<1>5. uploads \in 0..MaxUploads
  BY <1>1 DEF BetweenInv
<1>6. BetweenInv(upload', data', uploads')
  BY <1>1, <1>2, <1>5, DataKept
<1> QED
  BY <1>4, <1>6 DEF IInv

LEMMA MergeRefusedInv ==
  ASSUME IInv, NEW s \in Session, MergeRefused(s) PROVE IInv'
<1>1. BetweenInv(upload, data, uploads) /\ StoredInv(table, columns, keys, doubt)
  BY DEF IInv
<1>2. Merging(s) /\ upload' = None /\ data' = data /\ uploads' = uploads
  BY DEF MergeRefused, DropUpload
<1>3. StoredInv(table', columns', keys', doubt')
  <2>1. CASE UNCHANGED <<stored, doubt>>
    BY <1>1, <2>1 DEF stored
  <2>2. CASE GiveUp(Result(s).rows, StringsNow(s), "refused")
    BY <1>1, <1>2, <2>2, MergingIs, GiveUpInv
  <2> QED
    BY <2>1, <2>2 DEF MergeRefused
<1>4. uploads \in 0..MaxUploads
  BY <1>1 DEF BetweenInv
<1>5. BetweenInv(upload', data', uploads')
  BY <1>1, <1>2, <1>4, SameData
<1> QED
  BY <1>3, <1>5 DEF IInv

LEMMA MergeRaisesInv ==
  ASSUME IInv, NEW s \in Session, MergeRaises(s) PROVE IInv'
<1>1. BetweenInv(upload, data, uploads) /\ StoredInv(table, columns, keys, doubt)
  BY DEF IInv
<1>2. /\ Merging(s) /\ GiveUp(Result(s).rows, StringsNow(s), "raised")
      /\ upload' = upload /\ data' = data /\ uploads' = uploads
  BY DEF MergeRaises
<1>3. StoredInv(table', columns', keys', doubt')
  BY <1>1, <1>2, MergingIs, GiveUpInv
<1> QED
  BY <1>1, <1>2, <1>3 DEF IInv

LEMMA PluginRunInv ==
  ASSUME IInv, table # None, NEW k \in Name, NEW out \in Name,
         NEW value \in [table.rows -> Outputs], PluginRun(k, out, value)
  PROVE  IInv'
<1> DEFINE row(r) == [c \in {k, out} |-> IF c = k THEN r[k] ELSE value[r]]
           res == [cols |-> <<k, out>>, rows |-> {row(r) : r \in table.rows}]
           new == Combine(table, res, k, k, "left")
           now == StringsIn(new.rows, texts, table, res, k, k)
<1>1. BetweenInv(upload, data, uploads) /\ StoredInv(table, columns, keys, doubt)
  BY DEF IInv
<1>2. /\ uploads < MaxUploads /\ k \in keys
      /\ new.kind = "frame"
      /\ Finish(new.rows, now) \/ \E kind \in {"refused", "raised"} : GiveUp(new.rows, now, kind)
      /\ uploads' = uploads + 1 /\ upload' = upload /\ data' = data
  BY DEF PluginRun
<1>3. TableOf(table) /\ k \in Names(table.cols)
  BY <1>1, <1>2 DEF StoredInv
<1>4. Names(<<k, out>>) = {k, out} /\ <<k, out>> \in Seq(Name)
  <2>1. DOMAIN <<k, out>> = {1, 2} /\ <<k, out>>[1] = k /\ <<k, out>>[2] = out
    OBVIOUS
  <2> QED
    BY <2>1 DEF Names
<1>5. \A r \in table.rows : row(r) \in [{k, out} -> Cell]
  <2>1. \A r \in table.rows : r[k] \in Cell /\ value[r] \in Cell
    BY <1>3, UploadAssumption DEF TableOf, Cell
  <2> QED
    BY <2>1
<1> HIDE DEF row, now
<1>6. res.cols = <<k, out>> /\ res.rows \subseteq [{k, out} -> Cell]
  BY <1>5
<1> HIDE DEF res
<1>7. res.cols \in Seq(Name) /\ res.rows \subseteq [Names(res.cols) -> Cell]
  BY <1>4, <1>6
<1>8. \E C \in SUBSET Name : IsFiniteSet(C) /\ new.rows \in [DOMAIN new.rows -> [C -> Cell]]
  <2>1. "left" \in How
    BY DEF How
  <2> QED
    BY <1>2, <1>3, <1>7, <2>1, CombinedAre
<1> HIDE DEF new
<1>9. StoredInv(table', columns', keys', doubt')
  <2>1. CASE Finish(new.rows, now)
    BY <1>1, <1>8, <2>1, FinishInv
  <2>2. CASE \E kind \in {"refused", "raised"} : GiveUp(new.rows, now, kind)
    BY <1>1, <2>2, GiveUpInv
  <2> QED
    BY <1>2, <2>1, <2>2
<1>10. BetweenInv(upload', data', uploads')
  <2>1. (upload = None \/ TableOf(upload)) /\ uploads \in 0..MaxUploads
    BY <1>1 DEF BetweenInv
  <2>2. uploads' \in 0..MaxUploads
    BY <1>2, <2>1, UploadsNat
  <2> QED
    BY <1>1, <1>2, <2>1, <2>2, SameData
<1> QED
  BY <1>9, <1>10 DEF IInv

LEMMA ColumnDeleteInv ==
  ASSUME IInv, NEW c \in Name, ColumnDelete(c) PROVE IInv'
<1> DEFINE q == Without(columns, c)
           row(r) == [d \in DOMAIN r \ {c} |-> r[d]]
           R == {row(r) : r \in table.rows}
           t == [cols |-> q, rows |-> R]
<1>1. BetweenInv(upload, data, uploads) /\ StoredInv(table, columns, keys, doubt)
  BY DEF IInv
<1>2. /\ table # None
      /\ columns' = q /\ table' = t /\ keys' = keys \ {c} /\ doubt' = doubt \ {c}
      /\ upload' = upload /\ data' = data /\ uploads' = uploads
  BY DEF ColumnDelete
<1>3. /\ TableOf(table) /\ table.cols = columns
      /\ columns \in Seq(Name) /\ IsInjective(columns)
      /\ keys \subseteq Names(columns) /\ doubt \subseteq Name
      /\ keys \ doubt \subseteq Keys(table)
  BY <1>1, <1>2 DEF StoredInv
<1>4. q \in Seq(Name) /\ IsInjective(q) /\ Names(q) = Names(columns) \ {c}
  <2> DEFINE X == Range(columns) \ {c}
  <2>1. Names(columns) = Range(columns) /\ Names(columns) \cap X = Names(columns) \ {c}
    BY <1>3, NamesAre
  <2> HIDE DEF X
  <2>2. /\ Those(columns, X) \in Seq(Name) /\ IsInjective(Those(columns, X))
        /\ Names(Those(columns, X)) = Names(columns) \cap X
    BY <1>3, KeptAre
  <2> QED
    BY <2>1, <2>2 DEF Without, X
<1> HIDE DEF q
<1>5. table.rows \subseteq [Names(columns) -> Cell] /\ table.rows # {}
  BY <1>3 DEF TableOf
<1>6. \A r \in table.rows : /\ row(r) \in [Names(q) -> Cell]
                            /\ \A d \in Names(q) : row(r)[d] = r[d]
  BY <1>4, <1>5
<1> HIDE DEF row
<1>7. R \subseteq [Names(q) -> Cell] /\ R # {}
  BY <1>5, <1>6
<1>8. TableOf(t) /\ t # None /\ t.cols = q
  BY <1>4, <1>7, TableIs
<1>9. ASSUME NEW k \in keys' \ doubt' PROVE k \in Keys(t)
  <2>1. k \in Keys(table) /\ k \in Names(q)
    BY <1>2, <1>3, <1>4, <1>9
  <2>2. /\ \A r \in table.rows : r[k] # NaN
        /\ \A r1, r2 \in table.rows : r1 # r2 => r1[k] # r2[k]
    BY <2>1 DEF Keys, Unique, Rows
  <2>3. \A r \in R : r[k] # NaN
    BY <1>6, <2>1, <2>2
  <2>4. \A r1, r2 \in R : r1 # r2 => r1[k] # r2[k]
    BY <1>6, <2>1, <2>2
  <2>5. Rows(t) = [r \in R |-> r] /\ t.cols = q
    BY DEF Rows
  <2> HIDE DEF R, t
  <2>6. Unique(Rows(t), k)
    BY <2>3, <2>4, <2>5 DEF Unique
  <2> QED
    BY <2>1, <2>5, <2>6 DEF Keys
<1> HIDE DEF t
<1>10. StoredInv(table', columns', keys', doubt')
  BY <1>2, <1>3, <1>4, <1>8, <1>9 DEF StoredInv
<1> QED
  BY <1>1, <1>2, <1>10 DEF IInv

LEMMA FlushInv ==
  ASSUME IInv, Flush PROVE IInv'
<1>1. /\ table' = None /\ columns' = <<>> /\ keys' = {} /\ doubt' = {}
      /\ upload' = upload /\ data' = data /\ uploads' = uploads
  BY DEF Flush
<1>2. <<>> \in Seq(Name) /\ IsInjective(<<>>) /\ Names(<<>>) = {}
  BY EmptySeq DEF IsInjective, Names
<1>3. StoredInv(table', columns', keys', doubt')
  BY <1>1, <1>2 DEF StoredInv
<1> QED
  BY <1>1, <1>3 DEF IInv

LEMMA NextInv == IInv /\ [Next]_vars => IInv'
<1> SUFFICES ASSUME IInv, [Next]_vars PROVE IInv'
  OBVIOUS
<1>1. ASSUME NEW s \in Session, NEW f \in Files, UploadFile(s, f) PROVE IInv'
  BY <1>1, UploadFileInv
<1>2. ASSUME NEW s \in Session, data[s] # None,
             NEW names \in NamesFor(data[s]), NEW chosen \in ChoicesFor(data[s]),
             SelectColumns(s, names, chosen) \/ FirstUpload(s, names, chosen)
      PROVE  IInv'
  BY <1>2, SelectColumnsInv, FirstUploadInv
<1>3. ASSUME NEW s \in Session, OpenKeys(s) PROVE IInv'
  BY <1>3, OpenKeysInv
<1>4. ASSUME NEW s \in Session, NEW dk \in Name, NEW sk \in Name, NEW how \in How,
             SelectKeys(s, dk, sk, how)
      PROVE  IInv'
  BY <1>4, SelectKeysInv
<1>5. ASSUME NEW s \in Session, MergeAccepted(s) PROVE IInv'
  BY <1>5, MergeAcceptedInv
<1>6. ASSUME NEW s \in Session, MergeRefused(s) PROVE IInv'
  BY <1>6, MergeRefusedInv
<1>7. ASSUME NEW s \in Session, MergeRaises(s) PROVE IInv'
  BY <1>7, MergeRaisesInv
<1>8. ASSUME NEW s \in Session, MergeIntoNothing(s) PROVE IInv'
  BY <1>8, MergeIntoNothingInv
<1>9. ASSUME NEW s \in Session, NEW f \in Files, NEW theirs \in {None} \cup {{k} : k \in Name},
             Elsewhere(s, f, theirs)
      PROVE  IInv'
  BY <1>9, ElsewhereInv
<1>10. ASSUME table # None, NEW k \in Name, NEW out \in Name,
              NEW value \in [table.rows -> Outputs], PluginRun(k, out, value)
       PROVE  IInv'
  BY <1>10, PluginRunInv
<1>11. ASSUME NEW c \in Name, ColumnDelete(c) PROVE IInv'
  BY <1>11, ColumnDeleteInv
<1>12. CASE Flush
  BY <1>12, FlushInv
<1>13. CASE UNCHANGED vars
  BY <1>13 DEF vars, stored, IInv
<1> QED
  BY <1>1, <1>2, <1>3, <1>4, <1>5, <1>6, <1>7, <1>8, <1>9, <1>10, <1>11, <1>12, <1>13 DEF Next

LEMMA FirstStoreTexts ==
  ASSUME IInv, TextsInv, NEW src, src.cols \in Seq(Name), FirstStore(src) PROVE TextsInv'
<1> DEFINE new == Those(src.cols, Names(src.cols) \ Names(columns))
           some == Unrepeated(new, Repeats(src.cols))
<1>1. \/ texts' = StringColumns(src) \cap Names(columns')
      \/ columns' = columns \o some /\ texts' = texts
  BY DEF FirstStore, Store, StoreFails, Unrepeated
<1>2. columns \in Seq(Name)
  BY DEF IInv, StoredInv
<1>3. /\ new \in Seq(Name)
      /\ \A k, l \in DOMAIN new : k # l /\ new[k] = new[l] => new[k] \in Repeats(src.cols)
  BY KeptAre
<1> HIDE DEF new
<1>4. some \in Seq(Name)
  BY <1>3, UpToRepeated
<1> HIDE DEF some
<1>5. Names(columns) \subseteq Names(columns \o some)
  BY <1>2, <1>4 DEF Names
<1> QED
  BY <1>1, <1>5 DEF TextsInv

\* Every step keeps the columns of strings among the columns.
LEMMA NextTexts == IInv /\ TextsInv /\ [Next]_vars => TextsInv'
<1> SUFFICES ASSUME IInv, TextsInv, [Next]_vars PROVE TextsInv'
  OBVIOUS
<1>1. CASE UNCHANGED stored
  BY <1>1 DEF TextsInv, stored
<1>2. ASSUME NEW g, NEW now, Finish(g, now) PROVE TextsInv'
  BY <1>2 DEF Finish, TextsInv
<1>3. ASSUME NEW g, NEW now, NEW kind, GiveUp(g, now, kind) PROVE TextsInv'
  BY <1>3 DEF GiveUp, TextsInv
<1>4. ASSUME NEW s \in Session, data[s] # None,
             NEW names \in NamesFor(data[s]), NEW chosen \in ChoicesFor(data[s]),
             FirstUpload(s, names, chosen)
      PROVE  TextsInv'
  <2> DEFINE u == [data[s] EXCEPT !.names = names, !.chosen = chosen]
             src == Source(upload, u)
  <2>1. BetweenInv(upload, data, uploads)
    BY DEF IInv
  <2>2. u \in Data /\ Len(u.names) = Len(u.initial)
    BY <1>4, <2>1, DataOf, ChosenAre
  <2>3. src # None /\ FirstStore(src)
    BY <1>4 DEF FirstUpload
  <2>4. upload = None \/ TableOf(upload)
    BY <2>1 DEF BetweenInv
  <2> HIDE DEF u
  <2>5. src.cols \in Seq(Name)
    BY <2>2, <2>3, <2>4, SourceTyped
  <2> HIDE DEF src
  <2> QED
    BY <2>3, <2>5, FirstStoreTexts
<1>5. ASSUME NEW s \in Session, MergeIntoNothing(s) PROVE TextsInv'
  <2> DEFINE u == data[s]
             src == Source(upload, u)
  <2>1. BetweenInv(upload, data, uploads)
    BY DEF IInv
  <2>2. u \in Data /\ Len(u.names) = Len(u.initial)
    BY <1>5, <2>1, DataOf DEF MergeIntoNothing
  <2>3. src # None /\ FirstStore(src)
    BY <1>5 DEF MergeIntoNothing
  <2>4. upload = None \/ TableOf(upload)
    BY <2>1 DEF BetweenInv
  <2> HIDE DEF u
  <2>5. src.cols \in Seq(Name)
    BY <2>2, <2>3, <2>4, SourceTyped
  <2> HIDE DEF src
  <2> QED
    BY <2>3, <2>5, FirstStoreTexts
<1>6. ASSUME NEW s \in Session, MergeAccepted(s) \/ MergeRefused(s) \/ MergeRaises(s)
      PROVE  TextsInv'
  <2>1. CASE MergeAccepted(s)
    BY <1>2, <2>1 DEF MergeAccepted
  <2>2. CASE MergeRefused(s)
    BY <1>1, <1>3, <2>2 DEF MergeRefused
  <2>3. CASE MergeRaises(s)
    BY <1>3, <2>3 DEF MergeRaises
  <2> QED
    BY <1>6, <2>1, <2>2, <2>3
<1>7. ASSUME NEW k, NEW out, NEW value, PluginRun(k, out, value) PROVE TextsInv'
  BY <1>2, <1>3, <1>7 DEF PluginRun
<1>8. ASSUME NEW c \in Name, ColumnDelete(c) PROVE TextsInv'
  <2> DEFINE X == Range(columns) \ {c}
  <2>1. columns' = Those(columns, X) /\ texts' = texts \ {c}
    BY <1>8 DEF ColumnDelete, Without
  <2>2. columns \in Seq(Name)
    BY DEF IInv, StoredInv
  <2>3. Names(columns) = Range(columns)
    BY <2>2, NamesAre
  <2> HIDE DEF X
  <2>4. Names(columns') = Names(columns) \cap X
    BY <2>1, <2>2, KeptAre
  <2> QED
    BY <2>1, <2>3, <2>4 DEF TextsInv, X
<1>9. CASE Flush
  BY <1>9 DEF Flush, TextsInv
<1>10. ASSUME NEW s \in Session,
             \/ \E f \in Files : UploadFile(s, f)
             \/ \E names \in NamesFor(data[s]), chosen \in ChoicesFor(data[s]) :
                  SelectColumns(s, names, chosen)
             \/ OpenKeys(s)
             \/ \E dk, sk \in Name, how \in How : SelectKeys(s, dk, sk, how)
             \/ \E f \in Files, theirs \in {None} \cup {{k} : k \in Name} : Elsewhere(s, f, theirs)
      PROVE  UNCHANGED stored
  BY <1>10 DEF UploadFile, SelectColumns, OpenKeys, SelectKeys, Elsewhere
<1>11. CASE UNCHANGED vars
  BY <1>1, <1>11 DEF vars, stored
<1> QED
  BY <1>1, <1>4, <1>5, <1>6, <1>7, <1>8, <1>9, <1>10, <1>11 DEF Next

\* The inductive invariant, for any names, values, files and sessions.
THEOREM UploadInvariant == Spec => [](IInv /\ TextsInv)
<1>1. Init => TextsInv
  <2> SUFFICES ASSUME Init PROVE TextsInv
    OBVIOUS
  <2>1. CASE table = None
    BY <2>1 DEF Init, TextsInv
  <2>2. CASE table # None
    BY <2>2 DEF Init, TextsInv, StringColumns
  <2> QED
    BY <2>1, <2>2
<1> QED
  BY <1>1, InitInv, NextInv, NextTexts, PTL DEF Spec

\* Types of what is stored and of what is between the steps of an upload.
THEOREM UploadTypeCorrect == Spec => []TypeOK
<1>1. IInv /\ TextsInv => TypeOK
  BY DEF IInv, TextsInv, StoredInv, BetweenInv, TypeOK
<1> QED
  BY <1>1, UploadInvariant, PTL

\* Whatever is uploaded, merged, made by a plugin or deleted, in any number of
\* sessions: but for the columns a failed request marked, keys are keys.
THEOREM KeysStayUnique == Spec => []KeysUnique
<1>1. IInv => KeysUnique
  BY DEF IInv, StoredInv, KeysUnique
<1> QED
  BY <1>1, UploadInvariant, PTL

-----------------------------------------------------------------------------
(* What a merge that ends well does.                                       *)

\* A session only loses its data when its merge has ended well.
LEMMA EndsInMerge ==
  ASSUME IInv, Next, NEW s \in Session, data[s] # None, data'[s] = None, table # None
  PROVE  MergeAccepted(s)
<1>1. BetweenInv(upload, data, uploads)
  BY DEF IInv
<1>2. data \in [Session -> Data \cup {None}]
  BY <1>1 DEF BetweenInv
<1>3. None \notin Data
  BY UploadAssumption
<1>4. data' # data
  OBVIOUS
<1>5. ASSUME NEW r \in Session, NEW u \in Data, data' = [data EXCEPT ![r] = u] PROVE FALSE
  BY <1>2, <1>3, <1>5
<1>6. ASSUME NEW r \in Session, data' = [data EXCEPT ![r] = None] PROVE r = s
  BY <1>2, <1>6
<1>7. ASSUME NEW r \in Session, NEW f \in Files, UploadFile(r, f) PROVE FALSE
  BY <1>5, <1>7, NewDataIs DEF UploadFile
<1>8. ASSUME NEW r \in Session, data[r] # None, NEW names \in NamesFor(data[r]),
             NEW chosen \in ChoicesFor(data[r]), SelectColumns(r, names, chosen)
      PROVE  FALSE
  <2> DEFINE u == [data[r] EXCEPT !.names = names, !.chosen = chosen]
  <2>1. data[r] \in Data
    BY <1>1, <1>8, DataOf
  <2>2. u \in Data
    BY <2>1, ChosenAre
  <2>3. data' = [data EXCEPT ![r] = u]
    BY <1>2, <1>8, <2>1 DEF SelectColumns, Data
  <2> HIDE DEF u
  <2> QED
    BY <1>5, <2>2, <2>3
<1>9. ASSUME NEW r \in Session, data[r] # None, NEW names \in NamesFor(data[r]),
             NEW chosen \in ChoicesFor(data[r]), FirstUpload(r, names, chosen)
      PROVE  FALSE
  BY <1>9 DEF FirstUpload
<1>10. ASSUME NEW r \in Session, OpenKeys(r) PROVE FALSE
  <2> DEFINE u == [data[r] EXCEPT !.dstKeys = keys]
  <2>1. data[r] \in Data
    BY <1>1, <1>10, DataOf DEF OpenKeys
  <2>2. keys \subseteq Name
    <3>1. Names(columns) \subseteq Name
      BY NamesAre DEF IInv, StoredInv
    <3> QED
      BY <3>1 DEF IInv, StoredInv
  <2>3. u \in Data
    BY <2>1, <2>2 DEF Data
  <2>4. data' = [data EXCEPT ![r] = u]
    BY <1>10 DEF OpenKeys
  <2> HIDE DEF u
  <2> QED
    BY <1>5, <2>3, <2>4
<1>11. ASSUME NEW r \in Session, NEW dk \in Name, NEW sk \in Name, NEW how \in How,
              SelectKeys(r, dk, sk, how)
       PROVE  FALSE
  <2> DEFINE u == [data[r] EXCEPT !.dk = dk, !.sk = sk, !.how = how]
  <2>1. data[r] \in Data
    BY <1>1, <1>11, DataOf DEF SelectKeys
  <2>2. u \in Data
    BY <2>1 DEF Data
  <2>3. data' = [data EXCEPT ![r] = u]
    BY <1>2, <1>11, <2>1 DEF SelectKeys, Data
  <2> HIDE DEF u
  <2> QED
    BY <1>5, <2>2, <2>3
<1>12. ASSUME NEW r \in Session, MergeAccepted(r) PROVE MergeAccepted(s)
  BY <1>6, <1>12 DEF MergeAccepted
<1>13. ASSUME NEW r \in Session, MergeRefused(r) \/ MergeRaises(r) PROVE FALSE
  BY <1>4, <1>13 DEF MergeRefused, MergeRaises
<1>14. ASSUME NEW r \in Session, MergeIntoNothing(r) PROVE FALSE
  BY <1>14 DEF MergeIntoNothing
<1>15. ASSUME NEW r \in Session, NEW f \in Files, NEW theirs \in {None} \cup {{k} : k \in Name},
              Elsewhere(r, f, theirs)
       PROVE  FALSE
  <2> DEFINE u == [NewData(f) EXCEPT !.dstKeys = theirs]
  <2>1. u \in Data
    <3>1. NewData(f) \in Data
      BY NewDataIs
    <3>2. theirs \in (SUBSET Name) \cup {None}
      OBVIOUS
    <3> QED
      BY <3>1, <3>2 DEF Data
  <2>2. data' = [data EXCEPT ![r] = u]
    BY <1>15 DEF Elsewhere
  <2> HIDE DEF u
  <2> QED
    BY <1>5, <2>1, <2>2
<1>16. ASSUME NEW k, NEW out, NEW value, PluginRun(k, out, value) PROVE FALSE
  BY <1>4, <1>16 DEF PluginRun
<1>17. ASSUME NEW c, ColumnDelete(c) PROVE FALSE
  BY <1>4, <1>17 DEF ColumnDelete
<1>18. ASSUME Flush PROVE FALSE
  BY <1>4, <1>18 DEF Flush
<1> QED
  BY <1>7, <1>8, <1>9, <1>10, <1>11, <1>12, <1>13, <1>14, <1>15, <1>16, <1>17, <1>18 DEF Next

\* A key that is not in the table can only be used by a source of one column.
LEMMA KeyFound ==
  ASSUME NEW d, NEW s, s.cols \in Seq(Name), IsInjective(s.cols), Len(s.cols) > 1,
         NEW dk, NEW sk, NEW how, Combine(d, s, dk, sk, how).kind = "frame"
  PROVE  /\ sk \in Names(s.cols) /\ dk \in Names(d.cols)
         /\ New(d, s, sk) # {} \/ Overlap(d, s, sk) # {}
<1>1. Failed.kind = "raised" /\ [Failed EXCEPT !.kind = "refused"].kind = "refused"
  BY DEF Failed
<1>2. sk \in Names(s.cols)
  BY <1>1 DEF Combine
<1>3. \E c \in Names(s.cols) : c # sk
  <2>1. Len(s.cols) \in Nat /\ DOMAIN s.cols = 1..Len(s.cols)
    BY NamesAre
  <2>2. 1 \in DOMAIN s.cols /\ 2 \in DOMAIN s.cols
    BY <2>1
  <2>3. s.cols[1] # s.cols[2]
    BY <2>2 DEF IsInjective
  <2>4. s.cols[1] \in Names(s.cols) /\ s.cols[2] \in Names(s.cols)
    BY <2>2 DEF Names
  <2> QED
    BY <2>3, <2>4
<1>4. New(d, s, sk) # {} \/ Overlap(d, s, sk) # {}
  BY <1>3 DEF New, Overlap
<1>5. dk \in Names(d.cols)
  BY <1>1, <1>2, <1>4 DEF Combine
<1> QED
  BY <1>2, <1>4, <1>5

LEMMA KeysSurviveStep ==
  ASSUME IInv, NEW s \in Session, MergeAccepted(s)
  PROVE  /\ Len(Source(upload, data[s]).cols) > 1 => data[s].dk \in Names(columns)
         /\ keys \subseteq keys'
         /\ keys' \subseteq Keys(table')
<1> DEFINE src == Source(upload, data[s])
           g == Result(s).rows
           now == StringsNow(s)
<1>1. Merging(s) /\ Result(s).kind = "frame" /\ Finish(g, now)
  BY DEF MergeAccepted
<1>2. /\ TableOf(table) /\ table.cols = columns /\ data[s].how \in How
      /\ src.cols \in Seq(Name) /\ IsInjective(src.cols)
      /\ src.rows \subseteq [Names(src.cols) -> Cell]
  BY <1>1, MergingIs
<1>3. Combine(table, src, data[s].dk, data[s].sk, data[s].how).kind = "frame"
  BY <1>1 DEF Result
<1>4. \E C \in SUBSET Name : IsFiniteSet(C) /\ g \in [DOMAIN g -> [C -> Cell]]
  BY <1>2, <1>3, CombinedAre DEF Result
<1> HIDE DEF src, g, now
<1>5. Len(src.cols) > 1 => data[s].dk \in Names(columns)
  BY <1>2, <1>3, KeyFound
<1>6. columns \in Seq(Name) /\ IsInjective(columns) /\ keys \subseteq Names(columns)
  BY DEF IInv, StoredInv
<1>7. keys \subseteq keys' /\ keys' \subseteq Keys(table')
  BY <1>1, <1>4, <1>6, FinishAre
<1> QED
  BY <1>5, <1>7 DEF src

\* However old the choice of step 3 is: a merge of more than a key that is
\* accepted finds its key, and every key of the table is one after it.
THEOREM MergesKeepKeys == Spec => KeysSurviveMerge
<1>1. IInv /\ [Next]_vars =>
        [\A s \in Session :
           data[s] # None /\ data'[s] = None /\ table # None =>
             /\ Len(Source(upload, data[s]).cols) > 1 => data[s].dk \in Names(columns)
             /\ keys \subseteq keys'
             /\ keys' \subseteq Keys(table')]_vars
  BY EndsInMerge, KeysSurviveStep
<1> QED
  BY <1>1, UploadInvariant, PTL DEF Spec, KeysSurviveMerge

-----------------------------------------------------------------------------
(* A merge by a key is the promised join.                                  *)

\* No other row of t has the value of r in column k.
Only(t, k, r) == \A q \in t.rows : q[k] = r[k] => q = r

LEMMA LookupIs ==
  ASSUME NEW t, NEW k, NEW r \in t.rows, Only(t, k, r), NEW c \in Names(t.cols)
  PROVE  Lookup(t, k, r[k], c) = r[c]
<1> DEFINE R == {q \in t.rows : q[k] = r[k]}
<1>1. R = {r}
  BY DEF Only
<1>2. (CHOOSE q \in R : TRUE) = r
  BY <1>1
<1> QED
  BY <1>1, <1>2 DEF Lookup

LEMMA LookupNone ==
  ASSUME NEW t, NEW k, NEW v, NEW c, v \notin KeysOf(t, k) \/ c \notin Names(t.cols)
  PROVE  Lookup(t, k, v, c) = NaN
<1> DEFINE R == {q \in t.rows : q[k] = v}
<1>1. v \notin KeysOf(t, k) => R = {}
  BY DEF KeysOf
<1> QED
  BY <1>1 DEF Lookup

LEMMA LookupKey ==
  ASSUME NEW t, NEW k \in Names(t.cols), NEW v \in KeysOf(t, k)
  PROVE  Lookup(t, k, v, k) = v
<1> DEFINE R == {q \in t.rows : q[k] = v}
<1>1. R # {}
  BY DEF KeysOf
<1>2. (CHOOSE q \in R : TRUE) \in R
  BY <1>1
<1> QED
  BY <1>1, <1>2 DEF Lookup

\* The row with key v: before the update, and as it is promised.
BaseRow(d, s, k, v) ==
    [c \in Names(d.cols) \cup Names(s.cols) |->
        IF c = k THEN v ELSE IF c \in Names(d.cols) THEN Lookup(d, k, v, c) ELSE Lookup(s, k, v, c)]

TargetRow(d, s, k, v) ==
    [c \in Names(d.cols) \cup Names(s.cols) |->
        IF Lookup(s, k, v, c) # NaN THEN Lookup(s, k, v, c) ELSE Lookup(d, k, v, c)]

\* The rows of g are those with the keys in V.
BaseFrame(g, d, s, k, V) ==
    /\ \A i \in DOMAIN g : /\ \E a, b : i = <<a, b>>
                           /\ g[i][k] \in V
                           /\ g[i] = BaseRow(d, s, k, g[i][k])
    /\ \A v \in V : \E i \in DOMAIN g : g[i][k] = v

TargetFrame(g, d, s, k, V) ==
    /\ \A i \in DOMAIN g : g[i][k] \in V /\ g[i] = TargetRow(d, s, k, g[i][k])
    /\ \A v \in V : \E i \in DOMAIN g : g[i][k] = v

\* No two rows of the source have the same key, as far as it is selected.
OneEach(d, s, k, how) ==
    \A r1, r2 \in s.rows : r1[k] = r2[k] /\ r1[k] \in Selected(d, s, k, how) => r1 = r2

\* What a merge by k is given.
Given(d, s, k) ==
    /\ Names(d.cols) \subseteq Name /\ Names(s.cols) \subseteq Name
    /\ d.rows \subseteq [Names(d.cols) -> Cell] /\ s.rows \subseteq [Names(s.cols) -> Cell]
    /\ k \in Names(d.cols) /\ k \in Names(s.cols)
    /\ \A r1, r2 \in d.rows : r1[k] = r2[k] => r1 = r2

\* Keys, and columns that are in one of the tables, need no update.
LEMMA NotUpdated ==
  ASSUME NEW d, NEW s, NEW k, Given(d, s, k),
         NEW v \in KeysOf(d, k) \cup KeysOf(s, k),
         NEW c \in Names(d.cols) \cup Names(s.cols), c \notin Overlap(d, s, k)
  PROVE  BaseRow(d, s, k, v)[c] = TargetRow(d, s, k, v)[c]
<1> DEFINE base == IF c = k THEN v ELSE IF c \in Names(d.cols) THEN Lookup(d, k, v, c) ELSE Lookup(s, k, v, c)
           target == IF Lookup(s, k, v, c) # NaN THEN Lookup(s, k, v, c) ELSE Lookup(d, k, v, c)
<1>1. BaseRow(d, s, k, v)[c] = base /\ TargetRow(d, s, k, v)[c] = target
  BY DEF BaseRow, TargetRow
<1>2. k \in Names(d.cols) /\ k \in Names(s.cols)
  BY DEF Given
<1>3. CASE c = k
  <2>1. CASE v \in KeysOf(s, k)
    <3>1. Lookup(s, k, v, k) = v
      BY <1>2, <2>1, LookupKey
    <3>2. Lookup(d, k, v, k) = v \/ Lookup(d, k, v, k) = NaN
      BY <1>2, LookupKey, LookupNone
    <3> QED
      BY <1>1, <1>3, <3>1, <3>2
  <2>2. CASE v \notin KeysOf(s, k)
    <3>1. Lookup(s, k, v, k) = NaN
      BY <2>2, LookupNone
    <3>2. Lookup(d, k, v, k) = v
      BY <1>2, <2>2, LookupKey
    <3> QED
      BY <1>1, <1>3, <3>1, <3>2
  <2> QED
    BY <2>1, <2>2
<1>4. CASE c # k /\ c \in Names(d.cols)
  <2>1. c \notin Names(s.cols)
    BY <1>4 DEF Overlap
  <2>2. Lookup(s, k, v, c) = NaN
    BY <2>1, LookupNone
  <2> QED
    BY <1>1, <1>4, <2>2
<1>5. CASE c # k /\ c \notin Names(d.cols)
  <2>1. Lookup(d, k, v, c) = NaN
    BY <1>5, LookupNone
  <2> QED
    BY <1>1, <1>5, <2>1
<1> QED
  BY <1>3, <1>4, <1>5

LEMMA KeptRow ==
  ASSUME NEW d, NEW s, NEW k, Given(d, s, k), New(d, s, k) = {}, NEW r \in d.rows
  PROVE  r[k] \in KeysOf(d, k) /\ r = BaseRow(d, s, k, r[k])
<1>1. r \in [Names(d.cols) -> Cell] /\ k \in Names(d.cols)
      /\ Only(d, k, r)
  BY DEF Given, Only
<1>2. Names(d.cols) \cup Names(s.cols) = Names(d.cols)
  BY <1>1 DEF New
<1>3. \A c \in Names(d.cols) : Lookup(d, k, r[k], c) = r[c]
  BY <1>1, LookupIs
<1>4. BaseRow(d, s, k, r[k]) =
        [c \in Names(d.cols) |->
           IF c = k THEN r[k] ELSE IF c \in Names(d.cols) THEN Lookup(d, k, r[k], c) ELSE Lookup(s, k, r[k], c)]
  BY <1>2 DEF BaseRow
<1>5. \A c \in Names(d.cols) : BaseRow(d, s, k, r[k])[c] = r[c]
  BY <1>3, <1>4
<1>6. r = BaseRow(d, s, k, r[k])
  <2>1. r = [c \in Names(d.cols) |-> r[c]]
    BY <1>1
  <2>2. BaseRow(d, s, k, r[k]) = [c \in Names(d.cols) |-> BaseRow(d, s, k, r[k])[c]]
    BY <1>4
  <2> HIDE DEF BaseRow
  <2> QED
    BY <1>5, <2>1, <2>2
<1> QED
  BY <1>6 DEF KeysOf

LEMMA SelectedLookup ==
  ASSUME NEW d, NEW s, NEW k, NEW how, OneEach(d, s, k, how),
         NEW r \in s.rows, r[k] \in Selected(d, s, k, how), NEW c \in Names(s.cols)
  PROVE  Lookup(s, k, r[k], c) = r[c]
<1>1. Only(s, k, r)
  BY DEF OneEach, Only
<1> QED
  BY <1>1, LookupIs

\* The three kinds of rows of a join.
LEMMA MatchRow ==
  ASSUME NEW d, NEW s, NEW k, NEW how \in How, Given(d, s, k), OneEach(d, s, k, how),
         NEW r1 \in d.rows, NEW r2 \in s.rows, r1[k] = r2[k]
  PROVE  /\ r1[k] \in Selected(d, s, k, how)
         /\ Joined(d, s, k, k, <<r1, r2>>) = BaseRow(d, s, k, r1[k])
<1> DEFINE v == r1[k]
           J == Joined(d, s, k, k, <<r1, r2>>)
           B == BaseRow(d, s, k, v)
           W == Names(d.cols) \cup Names(s.cols)
<1>1. /\ k \in Names(d.cols) /\ Only(d, k, r1)
      /\ Names(d.cols) \subseteq Name /\ Names(s.cols) \subseteq Name
      /\ r1 \in [Names(d.cols) -> Cell] /\ r2 \in [Names(s.cols) -> Cell]
  BY DEF Given, Only
<1>2. v \in KeysOf(d, k) /\ v \in KeysOf(s, k)
  BY DEF KeysOf
<1>3. v \in Selected(d, s, k, how)
  BY <1>2 DEF Selected, How
<1>5. r1 # NoRow /\ r2 # NoRow
  BY <1>1, MergeAssumption DEF Cell
<1>6. Names(d.cols) \cup New(d, s, k) \cup {k} = W
  BY <1>1 DEF New
<1>7. \A c \in Names(d.cols) : Lookup(d, k, v, c) = r1[c]
  BY <1>1, LookupIs
<1>8. \A c \in Names(s.cols) : Lookup(s, k, v, c) = r2[c]
  <2> SUFFICES ASSUME NEW c \in Names(s.cols) PROVE Lookup(s, k, v, c) = r2[c]
    OBVIOUS
  <2>1. r2[k] = v
    OBVIOUS
  <2> HIDE DEF v
  <2>2. Lookup(s, k, r2[k], c) = r2[c]
    BY <1>3, <2>1, SelectedLookup
  <2> QED
    BY <2>1, <2>2, Zenon
<1>9. \A c \in W : J[c] = IF c \in Names(d.cols) THEN r1[c] ELSE r2[c]
  BY <1>5, <1>6 DEF Joined
<1>10. \A c \in W : B[c] = IF c = k THEN v ELSE IF c \in Names(d.cols) THEN Lookup(d, k, v, c) ELSE Lookup(s, k, v, c)
  BY DEF BaseRow
<1>11. J = [c \in W |-> J[c]]
  BY <1>6 DEF Joined
<1>12. B = [c \in W |-> B[c]]
  BY DEF BaseRow
<1> HIDE DEF J, B
<1>13. \A c \in W : J[c] = B[c]
  BY <1>1, <1>7, <1>8, <1>9, <1>10
<1>14. J = B
  BY <1>11, <1>12, <1>13
<1> QED
  BY <1>3, <1>14 DEF J, B

LEMMA LeftRow ==
  ASSUME NEW d, NEW s, NEW k, Given(d, s, k),
         NEW r \in d.rows, r[k] \notin KeysOf(s, k)
  PROVE  Joined(d, s, k, k, <<r, NoRow>>) = BaseRow(d, s, k, r[k])
<1> DEFINE v == r[k]
           J == Joined(d, s, k, k, <<r, NoRow>>)
           B == BaseRow(d, s, k, v)
           W == Names(d.cols) \cup Names(s.cols)
<1>1. /\ k \in Names(d.cols) /\ Only(d, k, r)
      /\ Names(d.cols) \subseteq Name /\ r \in [Names(d.cols) -> Cell]
  BY DEF Given, Only
<1>2. r # NoRow
  BY <1>1, MergeAssumption DEF Cell
<1>3. Names(d.cols) \cup New(d, s, k) \cup {k} = W
  BY <1>1 DEF Given, New
<1>4. \A c \in Names(d.cols) : Lookup(d, k, v, c) = r[c]
  BY <1>1, LookupIs
<1>5. \A c : Lookup(s, k, v, c) = NaN
  BY LookupNone
<1>6. \A c \in W : J[c] = IF c \in Names(d.cols) THEN r[c] ELSE NaN
  BY <1>2, <1>3 DEF Joined
<1>7. \A c \in W : B[c] = IF c = k THEN v ELSE IF c \in Names(d.cols) THEN Lookup(d, k, v, c) ELSE Lookup(s, k, v, c)
  BY DEF BaseRow
<1>8. J = [c \in W |-> J[c]]
  BY <1>3 DEF Joined
<1>9. B = [c \in W |-> B[c]]
  BY DEF BaseRow
<1> HIDE DEF J, B
<1>10. \A c \in W : J[c] = B[c]
  BY <1>1, <1>4, <1>5, <1>6, <1>7
<1>11. J = B
  BY <1>8, <1>9, <1>10
<1> QED
  BY <1>11 DEF J, B

LEMMA RightRow ==
  ASSUME NEW d, NEW s, NEW k, Given(d, s, k),
         NEW r \in s.rows, r[k] \notin KeysOf(d, k), Only(s, k, r)
  PROVE  Joined(d, s, k, k, <<NoRow, r>>) = BaseRow(d, s, k, r[k])
<1> DEFINE v == r[k]
           J == Joined(d, s, k, k, <<NoRow, r>>)
           B == BaseRow(d, s, k, v)
           W == Names(d.cols) \cup Names(s.cols)
<1>1. /\ k \in Names(d.cols) /\ k \in Names(s.cols)
      /\ Names(s.cols) \subseteq Name /\ r \in [Names(s.cols) -> Cell]
  BY DEF Given
<1>2. r # NoRow
  BY <1>1, MergeAssumption DEF Cell
<1>3. Names(d.cols) \cup New(d, s, k) \cup {k} = W
  BY <1>1 DEF New
<1>4. \A c \in Names(s.cols) : Lookup(s, k, v, c) = r[c]
  BY LookupIs
<1>5. \A c : Lookup(d, k, v, c) = NaN
  BY LookupNone
<1>6. \A c \in W : J[c] = IF c \notin Names(d.cols) THEN r[c] ELSE IF c = k THEN v ELSE NaN
  BY <1>2, <1>3 DEF Joined
<1>7. \A c \in W : B[c] = IF c = k THEN v ELSE IF c \in Names(d.cols) THEN Lookup(d, k, v, c) ELSE Lookup(s, k, v, c)
  BY DEF BaseRow
<1>8. J = [c \in W |-> J[c]]
  BY <1>3 DEF Joined
<1>9. B = [c \in W |-> B[c]]
  BY DEF BaseRow
<1> HIDE DEF J, B
<1>10. \A c \in W : J[c] = B[c]
  BY <1>1, <1>4, <1>5, <1>6, <1>7
<1>11. J = B
  BY <1>8, <1>9, <1>10
<1> QED
  BY <1>11 DEF J, B

LEMMA KeptFrame ==
  ASSUME NEW d, NEW s, NEW k, NEW how, Given(d, s, k), New(d, s, k) = {}
  PROVE  BaseFrame(StepA(d, s, k, k, how), d, s, k, KeysOf(d, k))
<1> DEFINE g == StepA(d, s, k, k, how)
<1>1. g = [p \in d.rows \X {NoRow} |-> p[1]]
  BY DEF StepA
<1> HIDE DEF g
<1>2. ASSUME NEW i \in DOMAIN g
      PROVE  (\E a, b : i = <<a, b>>) /\ g[i][k] \in KeysOf(d, k) /\ g[i] = BaseRow(d, s, k, g[i][k])
  <2>1. PICK r \in d.rows : i = <<r, NoRow>>
    BY <1>1
  <2>2. g[i] = r
    BY <1>1, <2>1
  <2> QED
    BY <2>1, <2>2, KeptRow
<1>3. ASSUME NEW v \in KeysOf(d, k) PROVE \E i \in DOMAIN g : g[i][k] = v
  <2>1. PICK r \in d.rows : v = r[k]
    BY DEF KeysOf
  <2>2. <<r, NoRow>> \in DOMAIN g /\ g[<<r, NoRow>>] = r
    BY <1>1
  <2> QED
    BY <2>1, <2>2
<1> QED
  BY <1>2, <1>3 DEF BaseFrame, g

LEMMA JoinedFrame ==
  ASSUME NEW d, NEW s, NEW k, NEW how \in How, Given(d, s, k), OneEach(d, s, k, how),
         New(d, s, k) # {}
  PROVE  BaseFrame(StepA(d, s, k, k, how), d, s, k, Selected(d, s, k, how))
<1> DEFINE g == StepA(d, s, k, k, how)
           P == Pairs(d, s, k, k, how)
           V == Selected(d, s, k, how)
           match == {p \in d.rows \X s.rows : p[1][k] = p[2][k]}
           Base(i) == g[i][k] \in V /\ g[i] = BaseRow(d, s, k, g[i][k])
<1>1. DOMAIN g = P /\ \A p \in P : g[p] = Joined(d, s, k, k, p)
  BY DEF StepA
<1>2. \A p \in P : \/ p \in match
                   \/ /\ p \in d.rows \X {NoRow} /\ how \in {"left", "outer"}
                      /\ \A m \in match : m[1] # p[1]
                   \/ /\ p \in {NoRow} \X s.rows /\ how \in {"right", "outer"}
                      /\ \A m \in match : m[2] # p[2]
  BY DEF Pairs
<1>3. /\ match \subseteq P
      /\ how \in {"left", "outer"} =>
           \A p \in d.rows \X {NoRow} : (\A m \in match : m[1] # p[1]) => p \in P
      /\ how \in {"right", "outer"} =>
           \A p \in {NoRow} \X s.rows : (\A m \in match : m[2] # p[2]) => p \in P
  BY DEF Pairs
<1>4. k \in Names(d.cols) /\ k \in Names(s.cols)
  BY DEF Given
<1>5. \A v : BaseRow(d, s, k, v)[k] = v
  BY <1>4 DEF BaseRow
<1>6. \A v \in V : /\ how = "left" => v \in KeysOf(d, k)
                   /\ how = "right" => v \in KeysOf(s, k)
                   /\ how = "inner" => v \in KeysOf(d, k) /\ v \in KeysOf(s, k)
                   /\ v \in KeysOf(d, k) \/ v \in KeysOf(s, k)
  BY DEF Selected, How
<1>7. \A r \in d.rows : how \in {"left", "outer"} => r[k] \in V
  BY DEF Selected, KeysOf
<1>8. \A r \in s.rows : how \in {"right", "outer"} => r[k] \in V
  BY DEF Selected, KeysOf
<1> HIDE DEF g, P, V
<1>9. ASSUME NEW r1 \in d.rows, NEW r2 \in s.rows, r1[k] = r2[k]
      PROVE  /\ <<r1, r2>> \in match /\ <<r1, r2>> \in P
             /\ g[<<r1, r2>>] = BaseRow(d, s, k, r1[k]) /\ r1[k] \in V
  <2>1. <<r1, r2>> \in match
    BY <1>9
  <2>2. Joined(d, s, k, k, <<r1, r2>>) = BaseRow(d, s, k, r1[k]) /\ r1[k] \in V
    BY <1>9, MatchRow DEF V
  <2> QED
    BY <1>1, <1>3, <2>1, <2>2
<1>10. ASSUME NEW r \in d.rows, how \in {"left", "outer"}, \A m \in match : m[1] # r
       PROVE  <<r, NoRow>> \in P /\ g[<<r, NoRow>>] = BaseRow(d, s, k, r[k])
  <2>1. <<r, NoRow>> \in P
    BY <1>3, <1>10
  <2>2. r[k] \notin KeysOf(s, k)
    <3> SUFFICES ASSUME NEW q \in s.rows, r[k] = q[k] PROVE FALSE
      BY DEF KeysOf
    <3>1. <<r, q>> \in match /\ <<r, q>>[1] = r
      OBVIOUS
    <3> QED
      BY <1>10, <3>1
  <2> QED
    BY <1>1, <2>1, <2>2, LeftRow
<1>11. ASSUME NEW r \in s.rows, how \in {"right", "outer"}, \A m \in match : m[2] # r
       PROVE  <<NoRow, r>> \in P /\ g[<<NoRow, r>>] = BaseRow(d, s, k, r[k])
  <2>1. <<NoRow, r>> \in P
    BY <1>3, <1>11
  <2>2. r[k] \notin KeysOf(d, k)
    <3> SUFFICES ASSUME NEW q \in d.rows, r[k] = q[k] PROVE FALSE
      BY DEF KeysOf
    <3>1. <<q, r>> \in match /\ <<q, r>>[2] = r
      OBVIOUS
    <3> QED
      BY <1>11, <3>1
  <2>3. Only(s, k, r)
    BY <1>8, <1>11 DEF OneEach, Only, V
  <2> QED
    BY <1>1, <2>1, <2>2, <2>3, RightRow
<1>12. ASSUME NEW p \in P PROVE (\E a, b : p = <<a, b>>) /\ Base(p)
  <2>1. CASE p \in match
    <3>1. PICK r1 \in d.rows, r2 \in s.rows : p = <<r1, r2>> /\ r1[k] = r2[k]
      BY <2>1
    <3>2. g[p] = BaseRow(d, s, k, r1[k]) /\ r1[k] \in V
      BY <1>9, <3>1
    <3> QED
      BY <1>5, <3>1, <3>2
  <2>2. CASE p \in d.rows \X {NoRow} /\ how \in {"left", "outer"} /\ \A m \in match : m[1] # p[1]
    <3>1. PICK r \in d.rows : p = <<r, NoRow>> /\ p[1] = r
      BY <2>2
    <3>2. g[p] = BaseRow(d, s, k, r[k])
      BY <1>10, <2>2, <3>1
    <3>3. r[k] \in V
      BY <1>7, <2>2
    <3> QED
      BY <1>5, <3>1, <3>2, <3>3
  <2>3. CASE p \in {NoRow} \X s.rows /\ how \in {"right", "outer"} /\ \A m \in match : m[2] # p[2]
    <3>1. PICK r \in s.rows : p = <<NoRow, r>> /\ p[2] = r
      BY <2>3
    <3>2. g[p] = BaseRow(d, s, k, r[k])
      BY <1>11, <2>3, <3>1
    <3>3. r[k] \in V
      BY <1>8, <2>3
    <3> QED
      BY <1>5, <3>1, <3>2, <3>3
  <2> QED
    BY <1>2, <2>1, <2>2, <2>3
<1>13. ASSUME NEW v \in V PROVE \E p \in P : g[p][k] = v
  <2>1. CASE v \in KeysOf(d, k) /\ v \in KeysOf(s, k)
    <3>1. PICK r1 \in d.rows : v = r1[k]
      BY <2>1 DEF KeysOf
    <3>2. PICK r2 \in s.rows : v = r2[k]
      BY <2>1 DEF KeysOf
    <3>3. <<r1, r2>> \in P /\ g[<<r1, r2>>] = BaseRow(d, s, k, v)
      BY <1>9, <3>1, <3>2
    <3> QED
      BY <1>5, <3>3
  <2>2. CASE v \in KeysOf(d, k) /\ v \notin KeysOf(s, k)
    <3>1. PICK r \in d.rows : v = r[k]
      BY <2>2 DEF KeysOf
    <3>2. \A m \in match : m[1] # r
      BY <2>2, <3>1 DEF KeysOf
    <3>3. how \in {"left", "outer"}
      BY <1>6, <2>2 DEF How
    <3>4. <<r, NoRow>> \in P /\ g[<<r, NoRow>>] = BaseRow(d, s, k, v)
      BY <1>10, <3>1, <3>2, <3>3
    <3> QED
      BY <1>5, <3>4
  <2>3. CASE v \notin KeysOf(d, k)
    <3>1. PICK r \in s.rows : v = r[k]
      BY <1>6, <2>3 DEF KeysOf
    <3>2. \A m \in match : m[2] # r
      BY <2>3, <3>1 DEF KeysOf
    <3>3. how \in {"right", "outer"}
      BY <1>6, <2>3 DEF How
    <3>4. <<NoRow, r>> \in P /\ g[<<NoRow, r>>] = BaseRow(d, s, k, v)
      BY <1>11, <3>1, <3>2, <3>3
    <3> QED
      BY <1>5, <3>4
  <2> QED
    BY <2>1, <2>2, <2>3
<1> QED
  BY <1>1, <1>12, <1>13 DEF BaseFrame, g, V

\* A source whose key values differ.
Distinct(s, k) == \A r \in s.rows : Only(s, k, r)

LEMMA UpdatedCell ==
  ASSUME NEW d, NEW s, NEW k, Given(d, s, k), Distinct(s, k),
         NEW v \in KeysOf(d, k) \cup KeysOf(s, k), NEW c \in Names(d.cols) \cup Names(s.cols)
  PROVE  TargetRow(d, s, k, v)[c] =
           IF c \in Overlap(d, s, k) \ {k} /\ \E r \in s.rows : r[k] = v
           THEN Fresh(BaseRow(d, s, k, v)[c], (CHOOSE r \in s.rows : r[k] = v)[c])
           ELSE BaseRow(d, s, k, v)[c]
<1>1. CASE c \notin Overlap(d, s, k)
  BY <1>1, NotUpdated
<1>2. CASE c \in Overlap(d, s, k)
  <2>1. c # k /\ c \in Names(s.cols) /\ c \in Names(d.cols)
    BY <1>2 DEF Overlap
  <2>2. BaseRow(d, s, k, v)[c] = Lookup(d, k, v, c)
    BY <2>1 DEF BaseRow
  <2>3. TargetRow(d, s, k, v)[c] =
          IF Lookup(s, k, v, c) # NaN THEN Lookup(s, k, v, c) ELSE Lookup(d, k, v, c)
    BY DEF TargetRow
  <2>4. CASE v \in KeysOf(s, k)
    <3> DEFINE r == CHOOSE q \in s.rows : q[k] = v
    <3>1. r \in s.rows /\ r[k] = v
      BY <2>4 DEF KeysOf
    <3> HIDE DEF r
    <3>2. Lookup(s, k, r[k], c) = r[c]
      BY <2>1, <3>1, LookupIs DEF Distinct
    <3>3. Lookup(s, k, v, c) = r[c]
      BY <3>1, <3>2, Zenon
    <3>4. TargetRow(d, s, k, v)[c] = Fresh(BaseRow(d, s, k, v)[c], r[c])
      BY <2>2, <2>3, <3>3 DEF Fresh
    <3>5. (\E q \in s.rows : q[k] = v) /\ c \in Overlap(d, s, k) \ {k}
      BY <1>2, <2>1, <3>1
    <3> QED
      BY <3>4, <3>5 DEF r
  <2>5. CASE v \notin KeysOf(s, k)
    <3>1. Lookup(s, k, v, c) = NaN
      BY <2>5, LookupNone
    <3>2. ~ \E q \in s.rows : q[k] = v
      BY <2>5 DEF KeysOf
    <3> QED
      BY <2>2, <2>3, <3>1, <3>2
  <2> QED
    BY <2>4, <2>5
<1> QED
  BY <1>1, <1>2

LEMMA UpdatedFrame ==
  ASSUME NEW d, NEW s, NEW k, Given(d, s, k), Distinct(s, k),
         NEW V \in SUBSET (KeysOf(d, k) \cup KeysOf(s, k)),
         NEW g, BaseFrame(g, d, s, k, V)
  PROVE  LET new == Update(g, s, Overlap(d, s, k), k, k) IN
         /\ TargetFrame(new, d, s, k, V)
         /\ \A i \in DOMAIN new : \E a, b : i = <<a, b>>
<1> DEFINE new == Update(g, s, Overlap(d, s, k), k, k)
           W == Names(d.cols) \cup Names(s.cols)
<1>1. k \in W
  BY DEF Given
<1>2. DOMAIN new = DOMAIN g
  BY DEF Update
<1>3. \A i \in DOMAIN g :
        new[i] = [c \in DOMAIN g[i] |->
          IF c \in Overlap(d, s, k) \ {k} /\ \E r \in s.rows : r[k] = g[i][k]
          THEN Fresh(g[i][c], (CHOOSE r \in s.rows : r[k] = g[i][k])[c])
          ELSE g[i][c]]
  BY DEF Update
<1> HIDE DEF new
<1>4. ASSUME NEW i \in DOMAIN g
      PROVE  new[i] = TargetRow(d, s, k, g[i][k]) /\ new[i][k] = g[i][k]
  <2> DEFINE v == g[i][k]
             B == BaseRow(d, s, k, v)
             T == TargetRow(d, s, k, v)
             n == new[i]
  <2>1. v \in V /\ g[i] = B
    BY DEF BaseFrame
  <2>2. DOMAIN B = W /\ B[k] = v
    BY <1>1 DEF BaseRow
  <2>3. T = [c \in W |-> T[c]]
    BY DEF TargetRow
  <2>4. n = [c \in DOMAIN g[i] |->
          IF c \in Overlap(d, s, k) \ {k} /\ \E r \in s.rows : r[k] = v
          THEN Fresh(g[i][c], (CHOOSE r \in s.rows : r[k] = v)[c])
          ELSE g[i][c]]
    BY <1>3
  <2>5. \A c \in W : T[c] = IF c \in Overlap(d, s, k) \ {k} /\ \E r \in s.rows : r[k] = v
          THEN Fresh(B[c], (CHOOSE r \in s.rows : r[k] = v)[c])
          ELSE B[c]
    BY <2>1, UpdatedCell
  <2> HIDE DEF v, B, T, n
  <2>6. n = T
    BY <2>1, <2>2, <2>3, <2>4, <2>5
  <2>7. n[k] = v
    BY <1>1, <2>1, <2>2, <2>4
  <2> QED
    BY <2>6, <2>7 DEF n, T, v
<1>5. \A i \in DOMAIN new : \E a, b : i = <<a, b>>
  BY <1>2 DEF BaseFrame
<1>6. \A i \in DOMAIN new : new[i][k] \in V /\ new[i] = TargetRow(d, s, k, new[i][k])
  <2> SUFFICES ASSUME NEW i \in DOMAIN g
               PROVE  new[i][k] \in V /\ new[i] = TargetRow(d, s, k, new[i][k])
    BY <1>2
  <2>1. g[i][k] \in V
    BY DEF BaseFrame
  <2> QED
    BY <1>4, <2>1
<1>7. \A v \in V : \E i \in DOMAIN new : new[i][k] = v
  <2> SUFFICES ASSUME NEW v \in V PROVE \E i \in DOMAIN g : new[i][k] = v
    BY <1>2
  <2>1. PICK i \in DOMAIN g : g[i][k] = v
    BY DEF BaseFrame
  <2> QED
    BY <1>4, <2>1
<1> QED
  BY <1>5, <1>6, <1>7 DEF TargetFrame, new

LEMMA MatchedFrame ==
  ASSUME NEW d, NEW s, NEW k, NEW V, NEW g, BaseFrame(g, d, s, k, V)
  PROVE  BaseFrame([i \in Matched(g, s, k, k) |-> g[i]], d, s, k, V \cap KeysOf(s, k))
<1> DEFINE M == Matched(g, s, k, k)
           h == [i \in M |-> g[i]]
<1>1. \A i : i \in M <=> i \in DOMAIN g /\ g[i][k] \in KeysOf(s, k)
  BY DEF Matched, KeysOf
<1> HIDE DEF M
<1>2. \A i \in M : (\E a, b : i = <<a, b>>) /\ h[i][k] \in V \cap KeysOf(s, k)
                   /\ h[i] = BaseRow(d, s, k, h[i][k])
  BY <1>1 DEF BaseFrame
<1>3. ASSUME NEW v \in V \cap KeysOf(s, k) PROVE \E i \in M : h[i][k] = v
  <2>1. PICK i \in DOMAIN g : g[i][k] = v
    BY DEF BaseFrame
  <2> QED
    BY <1>1, <2>1
<1> QED
  BY <1>2, <1>3 DEF BaseFrame, M

\* Appended rows have no value but for the columns that are in both tables:
\* enough, when the source has no other or all its rows have been joined.
LEMMA AppendedFrame ==
  ASSUME NEW d, NEW s, NEW k, Given(d, s, k), Distinct(s, k), NEW V,
         NEW new, TargetFrame(new, d, s, k, V), \A i \in DOMAIN new : \E a, b : i = <<a, b>>,
         \A v \in KeysOf(s, k) \ V : v \notin KeysOf(d, k) /\ New(d, s, k) = {}
  PROVE  TargetFrame(Appended(new, s, Overlap(d, s, k), Names(d.cols) \cup Names(s.cols), k, k),
                     d, s, k, V \cup KeysOf(s, k))
<1> DEFINE W == Names(d.cols) \cup Names(s.cols)
           over == Overlap(d, s, k)
           rest == {r \in s.rows : \A i \in DOMAIN new : new[i][k] # r[k]}
           more == {<<r>> : r \in rest}
           all == Appended(new, s, over, W, k, k)
           row(i) == [c \in W |->
                       IF i \in more
                       THEN (IF c = k THEN i[1][k] ELSE IF c \in over THEN i[1][c] ELSE NaN)
                       ELSE new[i][c]]
<1>1. all = IF more = {} THEN new ELSE [i \in DOMAIN new \cup more |-> row(i)]
  BY DEF Appended
<1>2. \A r \in s.rows : r \in rest <=> r[k] \notin V
  <2> SUFFICES ASSUME NEW r \in s.rows PROVE r \in rest <=> r[k] \notin V
    OBVIOUS
  <2>1. r[k] \in V => \E i \in DOMAIN new : new[i][k] = r[k]
    BY DEF TargetFrame
  <2>2. r[k] \notin V => \A i \in DOMAIN new : new[i][k] # r[k]
    BY DEF TargetFrame
  <2> QED
    BY <2>1, <2>2
<1>3. rest \subseteq s.rows
  OBVIOUS
<1> HIDE DEF rest
<1>4. \A i : i \in more <=> \E r \in rest : i = <<r>>
  OBVIOUS
<1>5. \A i \in DOMAIN new : i \notin more
  BY <1>4, Apart
<1>6. k \in W /\ k \notin over
  BY DEF Given, Overlap
<1>7. \A v : DOMAIN TargetRow(d, s, k, v) = W
  BY DEF TargetRow
<1>8. ASSUME NEW i \in DOMAIN new PROVE row(i) = new[i]
  <2>1. new[i] = TargetRow(d, s, k, new[i][k])
    BY DEF TargetFrame
  <2>2. new[i] = [c \in W |-> new[i][c]]
    BY <2>1 DEF TargetRow
  <2> QED
    BY <1>5, <2>2
<1>9. ASSUME NEW r \in rest
      PROVE  /\ <<r>> \in more /\ r[k] \in KeysOf(s, k)
             /\ row(<<r>>)[k] = r[k] /\ row(<<r>>) = TargetRow(d, s, k, r[k])
  <2> DEFINE v == r[k]
             T == TargetRow(d, s, k, v)
             R == row(<<r>>)
  <2>1. r \in s.rows /\ v \in KeysOf(s, k) /\ v \notin V
    BY <1>2, <1>3 DEF KeysOf
  <2>2. <<r>> \in more /\ <<r>>[1] = r
    BY <1>4
  <2>3. R = [c \in W |-> IF c = k THEN v ELSE IF c \in over THEN r[c] ELSE NaN]
    BY <2>2
  <2>4. v \notin KeysOf(d, k) /\ New(d, s, k) = {}
    BY <2>1
  <2>5. \A c : Lookup(d, k, v, c) = NaN
    BY <2>4, LookupNone
  <2>6. \A c \in Names(s.cols) : Lookup(s, k, v, c) = r[c]
    BY <2>1, LookupIs DEF Distinct
  <2>7. \A c : c \notin Names(s.cols) => Lookup(s, k, v, c) = NaN
    BY LookupNone
  <2>8. \A c \in W : T[c] = IF Lookup(s, k, v, c) # NaN THEN Lookup(s, k, v, c) ELSE Lookup(d, k, v, c)
    BY DEF TargetRow
  <2>9. T = [c \in W |-> T[c]]
    BY DEF TargetRow
  <2>10. \A c \in W : c \in Names(s.cols) <=> c = k \/ c \in over
    BY <2>4 DEF New, Overlap, Given
  <2> HIDE DEF T, R, v, over
  <2>11. \A c \in W : T[c] = IF c \in Names(s.cols) THEN r[c] ELSE NaN
    BY <2>5, <2>6, <2>7, <2>8
  <2>12. \A c \in W : T[c] = IF c = k THEN v ELSE IF c \in over THEN r[c] ELSE NaN
    BY <2>10, <2>11 DEF v
  <2>13. T = R
    BY <2>3, <2>9, <2>12
  <2>14. R[k] = v
    BY <1>6, <2>3
  <2> QED
    BY <2>1, <2>2, <2>13, <2>14 DEF T, R, v
<1> HIDE DEF row, W, over
<1>10. CASE more = {}
  <2>1. all = new
    BY <1>1, <1>10
  <2>2. KeysOf(s, k) \subseteq V
    <3> SUFFICES ASSUME NEW r \in s.rows PROVE r[k] \in V
      BY DEF KeysOf
    <3> QED
      BY <1>2, <1>4, <1>10
  <2>3. V \cup KeysOf(s, k) = V
    BY <2>2
  <2> QED
    BY <2>1, <2>3 DEF W, over
<1>11. CASE more # {}
  <2>1. all = [i \in DOMAIN new \cup more |-> row(i)]
    BY <1>1, <1>11
  <2> HIDE DEF all, more
  <2>2. ASSUME NEW i \in DOMAIN all
        PROVE  all[i][k] \in V \cup KeysOf(s, k) /\ all[i] = TargetRow(d, s, k, all[i][k])
    <3>1. CASE i \in DOMAIN new
      <4>1. all[i] = new[i]
        BY <1>8, <2>1, <3>1
      <4> QED
        BY <3>1, <4>1 DEF TargetFrame
    <3>2. CASE i \in more
      <4>1. PICK r \in rest : i = <<r>>
        BY <1>4, <3>2
      <4>2. all[i] = row(<<r>>)
        BY <2>1, <3>2, <4>1
      <4> QED
        BY <1>9, <4>2
    <3> QED
      BY <2>1, <3>1, <3>2
  <2>3. ASSUME NEW v \in V \cup KeysOf(s, k) PROVE \E i \in DOMAIN all : all[i][k] = v
    <3>1. CASE v \in V
      <4>1. PICK i \in DOMAIN new : new[i][k] = v
        BY <3>1 DEF TargetFrame
      <4>2. i \in DOMAIN all /\ all[i] = new[i]
        BY <1>8, <2>1
      <4> QED
        BY <4>1, <4>2
    <3>2. CASE v \notin V
      <4>1. PICK r \in s.rows : v = r[k]
        BY <3>2 DEF KeysOf
      <4>2. r \in rest
        BY <1>2, <3>2, <4>1
      <4>3. <<r>> \in DOMAIN all /\ all[<<r>>] = row(<<r>>)
        BY <1>9, <2>1, <4>2
      <4> QED
        BY <1>9, <4>1, <4>2, <4>3
    <3> QED
      BY <3>1, <3>2
  <2> QED
    BY <2>2, <2>3 DEF TargetFrame, all, W, over
<1> QED
  BY <1>10, <1>11

LEMMA UntouchedFrame ==
  ASSUME NEW d, NEW s, NEW k, Given(d, s, k), Overlap(d, s, k) = {},
         NEW V \in SUBSET (KeysOf(d, k) \cup KeysOf(s, k)),
         NEW g, BaseFrame(g, d, s, k, V)
  PROVE  TargetFrame(g, d, s, k, V)
<1>1. ASSUME NEW v \in V PROVE BaseRow(d, s, k, v) = TargetRow(d, s, k, v)
  <2> DEFINE W == Names(d.cols) \cup Names(s.cols)
             B == BaseRow(d, s, k, v)
             T == TargetRow(d, s, k, v)
  <2>1. B = [c \in W |-> B[c]]
    BY DEF BaseRow
  <2>2. T = [c \in W |-> T[c]]
    BY DEF TargetRow
  <2>3. \A c \in W : B[c] = T[c]
    BY NotUpdated
  <2> HIDE DEF B, T
  <2>4. B = T
    BY <2>1, <2>2, <2>3
  <2> QED
    BY <2>4 DEF B, T
<1> QED
  BY <1>1 DEF BaseFrame, TargetFrame

\* The rows that are updated, before they are.
LEMMA PartFrame ==
  ASSUME NEW d, NEW s, NEW k, NEW how \in How, Given(d, s, k), OneEach(d, s, k, how)
  PROVE  LET g == StepA(d, s, k, k, how)
             part == IF how \in {"inner", "right"} THEN [i \in Matched(g, s, k, k) |-> g[i]] ELSE g IN
         \E V \in SUBSET (KeysOf(d, k) \cup KeysOf(s, k)) :
            /\ BaseFrame(part, d, s, k, V)
            /\ how \in {"left", "inner"} => V = Selected(d, s, k, how)
            /\ how \in {"outer", "right"} =>
                 /\ V \cup KeysOf(s, k) = Selected(d, s, k, how)
                 /\ \A v \in KeysOf(s, k) \ V : v \notin KeysOf(d, k) /\ New(d, s, k) = {}
<1> DEFINE g == StepA(d, s, k, k, how)
           part == IF how \in {"inner", "right"} THEN [i \in Matched(g, s, k, k) |-> g[i]] ELSE g
           D == KeysOf(d, k)
           S == KeysOf(s, k)
           V == IF New(d, s, k) = {} THEN D ELSE Selected(d, s, k, how)
           U == IF how \in {"inner", "right"} THEN V \cap S ELSE V
<1>1. BaseFrame(g, d, s, k, V)
  BY KeptFrame, JoinedFrame
<1> HIDE DEF g
<1>2. BaseFrame(part, d, s, k, U)
  BY <1>1, MatchedFrame
<1>3. /\ how = "left" => Selected(d, s, k, how) = D
      /\ how = "right" => Selected(d, s, k, how) = S
      /\ how = "inner" => Selected(d, s, k, how) = D \cap S
      /\ how = "outer" => Selected(d, s, k, how) = D \cup S
  BY DEF Selected
<1>4. how = "left" \/ how = "right" \/ how = "inner" \/ how = "outer"
  BY DEF How
<1> HIDE DEF D, S
<1>5. U \in SUBSET (D \cup S)
  BY <1>3, <1>4
<1>6. how \in {"left", "inner"} => U = Selected(d, s, k, how)
  BY <1>3, <1>4
<1>7. how \in {"outer", "right"} =>
        /\ U \cup S = Selected(d, s, k, how)
        /\ \A v \in S \ U : v \notin D /\ New(d, s, k) = {}
  BY <1>3, <1>4
<1> HIDE DEF U, part
<1> QED
  BY <1>2, <1>5, <1>6, <1>7 DEF D, S, part, g

LEMMA JoinedRows ==
  ASSUME NEW d, NEW s, NEW k, NEW how \in How, Given(d, s, k), OneEach(d, s, k, how),
         New(d, s, k) \cup Overlap(d, s, k) # {},
         Overlap(d, s, k) # {} => Distinct(s, k),
         Combine(d, s, k, k, how).kind = "frame"
  PROVE  TargetFrame(Combine(d, s, k, k, how).rows, d, s, k, Selected(d, s, k, how))
<1> DEFINE g == StepA(d, s, k, k, how)
           over == Overlap(d, s, k)
           W == Names(d.cols) \cup Names(s.cols)
           part == IF how \in {"inner", "right"} THEN [i \in Matched(g, s, k, k) |-> g[i]] ELSE g
           new == Update(part, s, over, k, k)
           all == Appended(new, s, over, W, k, k)
           res == Combine(d, s, k, k, how)
<1>1. k \in Names(d.cols) /\ k \in Names(s.cols)
  BY DEF Given
<1>2. Names(d.cols) \cup (IF New(d, s, k) = {} THEN {} ELSE New(d, s, k) \cup {k}) = W
  BY <1>1 DEF New
<1>3. res = StepB(g, d, s, k, k, how)
  BY <1>1 DEF Combine
<1>4. CASE over = {}
  <2>1. res.rows = g
    BY <1>3, <1>4 DEF StepB, Done
  <2>2. New(d, s, k) # {}
    BY <1>4
  <2>3. BaseFrame(g, d, s, k, Selected(d, s, k, how))
    BY <2>2, JoinedFrame
  <2>4. Selected(d, s, k, how) \in SUBSET (KeysOf(d, k) \cup KeysOf(s, k))
    BY DEF Selected, How
  <2> QED
    BY <1>4, <2>1, <2>3, <2>4, UntouchedFrame
<1>5. CASE over # {}
  <2>1. res = PerformOverlapUpdate(g, s, over, W, k, k, how)
    BY <1>2, <1>3, <1>5 DEF StepB
  <2>2. res = IF ~Unique(Rows(s), k) THEN Failed
              ELSE CASE how \in {"inner", "left"} -> Done(new)
                     [] how = "outer" -> Done(all)
                     [] how = "right" -> IF all = new THEN Failed ELSE Done(all)
    BY <2>1 DEF PerformOverlapUpdate
  <2>3. Failed.kind # "frame" /\ Done(new).rows = new /\ Done(all).rows = all
    BY DEF Failed, Done
  <2> HIDE DEF res, new, all
  <2>4. /\ how \in {"inner", "left"} => res.rows = new
        /\ how \in {"outer", "right"} => res.rows = all
    <3>1. res.kind = "frame"
      BY DEF res
    <3>2. Unique(Rows(s), k)
      BY <2>2, <2>3, <3>1
    <3>3. how \in {"inner", "left"} => res = Done(new)
      BY <2>2, <3>2
    <3>4. how = "outer" => res = Done(all)
      BY <2>2, <3>2
    <3>5. how = "right" => res = Done(all)
      <4>1. how = "right" => res = IF all = new THEN Failed ELSE Done(all)
        BY <2>2, <3>2
      <4> QED
        BY <2>3, <3>1, <4>1
    <3> QED
      BY <2>3, <3>3, <3>4, <3>5
  <2>5. Distinct(s, k)
    BY <1>5
  <2>6. PICK V \in SUBSET (KeysOf(d, k) \cup KeysOf(s, k)) :
            /\ BaseFrame(part, d, s, k, V)
            /\ how \in {"left", "inner"} => V = Selected(d, s, k, how)
            /\ how \in {"outer", "right"} =>
                 /\ V \cup KeysOf(s, k) = Selected(d, s, k, how)
                 /\ \A v \in KeysOf(s, k) \ V : v \notin KeysOf(d, k) /\ New(d, s, k) = {}
    BY PartFrame
  <2> HIDE DEF part
  <2>7. TargetFrame(new, d, s, k, V) /\ \A i \in DOMAIN new : \E a, b : i = <<a, b>>
    BY <2>5, <2>6, UpdatedFrame DEF new
  <2>8. how \in {"outer", "right"} => TargetFrame(all, d, s, k, V \cup KeysOf(s, k))
    BY <2>5, <2>6, <2>7, AppendedFrame DEF all
  <2>9. how \in {"inner", "left"} \/ how \in {"outer", "right"}
    BY DEF How
  <2>10. TargetFrame(res.rows, d, s, k, Selected(d, s, k, how))
    BY <2>4, <2>6, <2>7, <2>8, <2>9
  <2> QED
    BY <2>10 DEF res
<1> QED
  BY <1>4, <1>5

LEMMA TargetRows ==
  ASSUME NEW d, NEW s, NEW k, NEW how, NEW g,
         TargetFrame(g, d, s, k, Selected(d, s, k, how))
  PROVE  {g[i] : i \in DOMAIN g} = Promised(d, s, k, how)
<1> DEFINE V == Selected(d, s, k, how)
<1>1. Promised(d, s, k, how) = {TargetRow(d, s, k, v) : v \in V}
  BY DEF Promised, TargetRow
<1>2. \A i \in DOMAIN g : g[i][k] \in V /\ g[i] = TargetRow(d, s, k, g[i][k])
  BY DEF TargetFrame
<1>3. \A v \in V : \E i \in DOMAIN g : g[i] = TargetRow(d, s, k, v)
  BY DEF TargetFrame
<1> HIDE DEF V
<1>4. {g[i] : i \in DOMAIN g} = {TargetRow(d, s, k, v) : v \in V}
  BY <1>2, <1>3
<1> QED
  BY <1>1, <1>4

\* Two rows of the source with a key that is selected are two rows of the join.
LEMMA JoinUnique ==
  ASSUME NEW d, NEW s, NEW k, NEW how \in How, Given(d, s, k), New(d, s, k) # {},
         Unique(StepA(d, s, k, k, how), k)
  PROVE  OneEach(d, s, k, how)
<1> DEFINE g == StepA(d, s, k, k, how)
           P == Pairs(d, s, k, k, how)
           match == {p \in d.rows \X s.rows : p[1][k] = p[2][k]}
<1> SUFFICES ASSUME NEW r1 \in s.rows, NEW r2 \in s.rows, r1[k] = r2[k],
                    r1[k] \in Selected(d, s, k, how), r1 # r2
             PROVE  FALSE
  BY DEF OneEach
<1>1. DOMAIN g = P /\ \A p \in P : g[p] = Joined(d, s, k, k, p)
  BY DEF StepA
<1>2. match \subseteq P
      /\ (how \in {"right", "outer"} =>
           \A p \in {NoRow} \X s.rows : (\A m \in match : m[2] # p[2]) => p \in P)
  BY DEF Pairs
<1>3. \A i, j \in P : i # j => g[i][k] # g[j][k]
  BY <1>1 DEF Unique
<1>4. k \in Names(d.cols) /\ Names(d.cols) \subseteq Name /\ d.rows \subseteq [Names(d.cols) -> Cell]
  BY DEF Given
<1>5. \A r \in d.rows : r # NoRow
  BY <1>4, MergeAssumption DEF Cell
<1>6. \A p : Joined(d, s, k, k, p)[k] = IF p[1] # NoRow THEN p[1][k] ELSE p[2][k]
  BY <1>4 DEF Joined
<1> HIDE DEF g, P
<1>7. CASE r1[k] \in KeysOf(d, k)
  <2>1. PICK r \in d.rows : r1[k] = r[k]
    BY <1>7 DEF KeysOf
  <2>2. <<r, r1>> \in match /\ <<r, r2>> \in match
    BY <2>1
  <2>3. <<r, r1>> \in P /\ <<r, r2>> \in P /\ <<r, r1>> # <<r, r2>>
    BY <1>2, <2>2
  <2>4. g[<<r, r1>>][k] = r[k] /\ g[<<r, r2>>][k] = r[k]
    BY <1>1, <1>5, <1>6, <2>3
  <2> QED
    BY <1>3, <2>3, <2>4
<1>8. CASE r1[k] \notin KeysOf(d, k)
  <2>1. how \in {"right", "outer"}
    BY <1>8 DEF Selected, How
  <2>2. \A m \in match : m[2] # r1 /\ m[2] # r2
    BY <1>8 DEF KeysOf
  <2>3. <<NoRow, r1>> \in P /\ <<NoRow, r2>> \in P /\ <<NoRow, r1>> # <<NoRow, r2>>
    BY <1>2, <2>1, <2>2
  <2>4. g[<<NoRow, r1>>][k] = r1[k] /\ g[<<NoRow, r2>>][k] = r2[k]
    BY <1>1, <1>6, <2>3
  <2> QED
    BY <1>3, <2>3, <2>4
<1> QED
  BY <1>7, <1>8

LEMMA KeyDistinct ==
  ASSUME NEW s, NEW k, Unique(Rows(s), k)
  PROVE  Distinct(s, k)
<1> SUFFICES ASSUME NEW r \in s.rows, NEW q \in s.rows, q[k] = r[k] PROVE q = r
  BY DEF Distinct, Only
<1>1. Rows(s) = [x \in s.rows |-> x]
  BY DEF Rows
<1> QED
  BY <1>1 DEF Unique

\* The rows of a merge are told apart: the key tells those of the source
\* apart, or it is a key of the workflow, that the merge has to leave one.
LEMMA OneOfEach ==
  ASSUME NEW d, NEW s, NEW k, NEW how \in How, Given(d, s, k),
         New(d, s, k) \cup Overlap(d, s, k) # {},
         Combine(d, s, k, k, how).kind = "frame",
         Unique(Rows(s), k) \/ Unique(Combine(d, s, k, k, how).rows, k)
  PROVE  OneEach(d, s, k, how) /\ (Overlap(d, s, k) # {} => Distinct(s, k))
<1> DEFINE g == StepA(d, s, k, k, how)
<1>1. Distinct(s, k) => OneEach(d, s, k, how)
  BY DEF Distinct, OneEach, Only
<1>2. CASE Unique(Rows(s), k)
  BY <1>1, <1>2, KeyDistinct
<1>3. Combine(d, s, k, k, how) = StepB(g, d, s, k, k, how)
  BY DEF Given, Combine
<1>4. CASE Overlap(d, s, k) # {}
  <2>1. Failed.kind # "frame"
    BY DEF Failed
  <2> HIDE DEF g
  <2>2. ~Unique(Rows(s), k) => StepB(g, d, s, k, k, how) = Failed
    BY <1>4 DEF StepB, PerformOverlapUpdate
  <2> QED
    BY <1>2, <1>3, <2>1, <2>2
<1>5. CASE Overlap(d, s, k) = {} /\ ~Unique(Rows(s), k)
  <2>1. Combine(d, s, k, k, how).rows = g
    BY <1>3, <1>5 DEF StepB, Done
  <2>2. New(d, s, k) # {}
    BY <1>5
  <2> HIDE DEF g
  <2>3. Unique(g, k)
    BY <1>5, <2>1
  <2> QED
    BY <1>5, <2>2, <2>3, JoinUnique DEF g
<1> QED
  BY <1>2, <1>4, <1>5

LEMMA MergeIsJoinStep ==
  ASSUME IInv, NEW s \in Session, MergeAccepted(s)
  PROVE  LET src == Source(upload, data[s])  u == data[s] IN
         /\ u.dk = u.sk /\ u.dk \in Keys(table) /\ Len(src.cols) > 1
         /\ u.dk \in keys \/ u.sk \in Keys(src)
         => table'.rows = Promised(table, src, u.dk, u.how)
<1> DEFINE src == Source(upload, data[s])
           k == data[s].dk
           how == data[s].how
           g == Result(s).rows
           now == StringsNow(s)
<1> SUFFICES ASSUME k = data[s].sk, k \in Keys(table), Len(src.cols) > 1,
                    k \in keys \/ k \in Keys(src)
             PROVE  table'.rows = Promised(table, src, k, how)
  OBVIOUS
<1>1. Merging(s) /\ Result(s).kind = "frame" /\ Finish(g, now)
  BY DEF MergeAccepted
<1>2. /\ TableOf(table) /\ table.cols = columns /\ how \in How
      /\ src.cols \in Seq(Name) /\ IsInjective(src.cols)
      /\ src.rows \subseteq [Names(src.cols) -> Cell]
  BY <1>1, MergingIs
<1>3. Result(s) = Combine(table, src, k, k, how)
  BY DEF Result
<1> HIDE DEF src, k, how, now
<1>4. Combine(table, src, k, k, how).kind = "frame"
  BY <1>1, <1>3
<1>5. /\ k \in Names(src.cols) /\ k \in Names(table.cols)
      /\ New(table, src, k) # {} \/ Overlap(table, src, k) # {}
  BY <1>2, <1>4, KeyFound
<1>6. columns \in Seq(Name) /\ IsInjective(columns) /\ keys \subseteq Names(columns)
  BY DEF IInv, StoredInv
<1>7. Given(table, src, k)
  <2>1. Distinct(table, k)
    BY KeyDistinct DEF Keys
  <2>2. \A r1, r2 \in table.rows : r1[k] = r2[k] => r1 = r2
    BY <2>1 DEF Distinct, Only
  <2>3. Names(table.cols) \subseteq Name /\ Names(src.cols) \subseteq Name
    BY <1>2, <1>6, NamesAre
  <2>4. table.rows \subseteq [Names(table.cols) -> Cell]
    BY <1>2 DEF TableOf
  <2> QED
    BY <1>2, <1>5, <2>2, <2>3, <2>4 DEF Given
<1>8. k \in keys => Unique(g, k)
  <2>1. Check(g, texts, now, columns, keys).kind = "frame"
    BY <1>1 DEF Finish
  <2>2. \A c \in Names(columns) : Accepts(g, texts, now, keys, c)
    BY <1>6, <2>1, CheckFrame
  <2> QED
    BY <1>6, <2>2 DEF Accepts
<1>9. Unique(Rows(src), k) \/ Unique(Combine(table, src, k, k, how).rows, k)
  <2>1. k \in Keys(src) => Unique(Rows(src), k)
    BY DEF Keys
  <2> QED
    BY <1>3, <1>8, <2>1
<1>10. \E C \in SUBSET Name : IsFiniteSet(C) /\ g \in [DOMAIN g -> [C -> Cell]]
  BY <1>2, <1>3, <1>4, CombinedAre
<1>11. OneEach(table, src, k, how) /\ (Overlap(table, src, k) # {} => Distinct(src, k))
  BY <1>2, <1>4, <1>5, <1>7, <1>9, OneOfEach
<1>12. TargetFrame(Combine(table, src, k, k, how).rows, table, src, k, Selected(table, src, k, how))
  BY <1>2, <1>4, <1>5, <1>7, <1>11, JoinedRows
<1>13. TargetFrame(g, table, src, k, Selected(table, src, k, how))
  BY <1>3, <1>12
<1> HIDE DEF g
<1>14. {g[i] : i \in DOMAIN g} = Promised(table, src, k, how)
  BY <1>13, TargetRows
<1>15. table'.rows = {g[i] : i \in DOMAIN g}
  BY <1>1, <1>6, <1>10, FinishAre
<1> QED
  BY <1>14, <1>15

\* Whatever happened to the table since the steps began, a merge by a key of
\* the same name that ends well stores the join that the pseudocode of
\* perform_dataframe_upload_merge and perform_overlap_update promises.
THEOREM MergesAreJoins == Spec => MergeIsJoin
<1>1. IInv /\ [Next]_vars =>
        [\A s \in Session :
           LET src == Source(upload, data[s])  u == data[s] IN
           data[s] # None /\ data'[s] = None /\ table # None =>
              (/\ u.dk = u.sk /\ u.dk \in Keys(table) /\ Len(src.cols) > 1
               /\ u.dk \in keys \/ u.sk \in Keys(src)
               => table'.rows = Promised(table, src, u.dk, u.how))]_vars
  BY EndsInMerge, MergeIsJoinStep
<1> QED
  BY <1>1, UploadInvariant, PTL DEF Spec, MergeIsJoin
=============================================================================
