---------------------------- MODULE NamesProofs ----------------------------
(***************************************************************************)
(* For every set of names, columns, actions, conditions and tabs: a text   *)
(* mentions what exists, but for the losses that are known; only columns,  *)
(* copies and files make names overlap; and renaming a column changes the  *)
(* meaning of no text.                                                     *)
(*                                                                         *)
(* A {{ name }} is looked up in the same dictionary as an {% if name %},   *)
(* but the requests that rename substitute one form of mention only.  The  *)
(* invariant therefore says more than the property: what is mentioned is   *)
(* what the editor would offer, in the form in which it offers it, and     *)
(* this in the texts that the pages show as well, which are saved some     *)
(* time, and in what the browser makes of a text when it shows it.         *)
(***************************************************************************)
EXTENDS Names, FiniteSetTheorems, FunctionTheorems, TLAPS

-----------------------------------------------------------------------------
(* The invariant.                                                          *)

\* A page with a text has the action it belongs to, and one of an attribute
\* has the place of the attribute; what a page shows is escaped.
PageInv ==
    \A t \in Tab :
        /\ tab[t].page = "text" => tab[t].action \in Action
        /\ tab[t].page = "attribute" => tab[t].index >= 1
        /\ Raw(tab[t].text) = {}

\* Columns have different names.
ColumnInv == \A c, d \in ColId : c # d /\ colName[c] # None => colName[c] # colName[d]

Covered(a) == Offered(a) \cup gone[a]
MentionInv == \A a \in Action : Mentioned(a) \subseteq Covered(a)

IInv == TypeOK /\ PageInv /\ ColumnInv /\ MentionInv

-----------------------------------------------------------------------------
(* Texts and places.                                                       *)

LEMMA MentionsFinite == IsFiniteSet(Mention)
<1> DEFINE P == {"var", "if"} \X Name
           Q == P \X BOOLEAN
           f == [p \in Q |-> [form |-> p[1][1], name |-> p[1][2], raw |-> p[2]]]
<1>1. IsFiniteSet({"var"}) /\ {"var", "if"} = {"var"} \cup {"if"}
  BY FS_Singleton
<1>2. IsFiniteSet({"var", "if"})
  BY <1>1, FS_AddElement
<1>3. IsFiniteSet(BOOLEAN)
  <2>1. IsFiniteSet({FALSE})
    BY FS_Singleton
  <2>2. IsFiniteSet({FALSE} \cup {TRUE})
    BY <2>1, FS_AddElement
  <2>3. BOOLEAN = {FALSE} \cup {TRUE}
    OBVIOUS
  <2> QED
    BY <2>2, <2>3
<1>4. IsFiniteSet(P)
  BY <1>2, NamesAssumption, FS_Product
<1>5. IsFiniteSet(Q)
  BY <1>3, <1>4, FS_Product
<1>6. f \in Surjection(Q, Mention)
  <2>1. f \in [Q -> Mention]
    BY DEF Mention
  <2>2. ASSUME NEW m \in Mention PROVE \E p \in Q : f[p] = m
    <3>1. <<<<m.form, m.name>>, m.raw>> \in Q /\ f[<<<<m.form, m.name>>, m.raw>>] = m
      BY DEF Mention
    <3> QED
      BY <3>1
  <2> HIDE DEF f, Q
  <2> QED
    BY <2>1, <2>2, Fun_IsSurj
<1> QED
  BY <1>5, <1>6, FS_Surjection

LEMMA TextFinite ==
  ASSUME NEW T \in Text
  PROVE  T \subseteq Mention /\ IsFiniteSet(T) /\ Cardinality(T) \in Nat /\ Cardinality(T) <= MaxMentions
BY MentionsFinite, FS_Subset, FS_CardinalityType DEF Text

\* Mentions of the two forms, escaped or not.
LEMMA FormsOfMention ==
  ASSUME NEW form \in {"var", "if"}, NEW n \in Name
  PROVE  /\ Escaped(form, n) \in Mention /\ Written(form, n) \in Mention
         /\ Unread(form, n) \subseteq Mention /\ Missed(form, n) \subseteq Mention
         /\ Written(form, n) \in {Escaped(form, n)} \cup Unread(form, n)
         /\ Escaped(form, n) \in {Written(form, n)} \cup Missed(form, n)
         /\ Normal({Written(form, n)}) = {Escaped(form, n)}
<1>1. Escaped(form, n) \in Mention /\ Unescaped(form, n) \in Mention
  BY DEF Escaped, Unescaped, Mention
<1>2. /\ Escaped(Escaped(form, n).form, Escaped(form, n).name) = Escaped(form, n)
      /\ Escaped(Unescaped(form, n).form, Unescaped(form, n).name) = Escaped(form, n)
  BY DEF Escaped, Unescaped
<1> QED
  BY <1>1, <1>2 DEF Written, Unread, Missed, Normal

\* A substitution keeps a text a text.
LEMMA Substituted ==
  ASSUME NEW T \in Text, NEW from, NEW to \in Mention
  PROVE  /\ Substitute(T, from, to) \in Text
         /\ \A m \in Substitute(T, from, to) : m = to \/ (m \in T /\ m # from)
<1>1. T \subseteq Mention /\ IsFiniteSet(T) /\ Cardinality(T) \in Nat /\ Cardinality(T) <= MaxMentions
  BY TextFinite
<1>2. CASE from \in T
  <2> DEFINE S == T \ {from}
             R == S \cup {to}
  <2>1. IsFiniteSet(S) /\ Cardinality(S) = Cardinality(T) - 1
    BY <1>1, <1>2, FS_RemoveElement
  <2>2. IsFiniteSet(R) /\ (Cardinality(R) = Cardinality(S) \/ Cardinality(R) = Cardinality(S) + 1)
    BY <2>1, FS_AddElement
  <2>3. R \subseteq Mention /\ Substitute(T, from, to) = R /\ \A m \in R : m = to \/ (m \in T /\ m # from)
    BY <1>1, <1>2 DEF Substitute
  <2> HIDE DEF S, R
  <2>4. Cardinality(R) <= MaxMentions
    BY <1>1, <2>1, <2>2, NamesAssumption
  <2> QED
    BY <2>3, <2>4 DEF Text
<1>3. CASE from \notin T
  BY <1>3 DEF Substitute
<1> QED
  BY <1>2, <1>3

\* What the browser shows of a text is a text without raw mentions.
LEMMA Normalised ==
  ASSUME NEW T \in Text
  PROVE  Normal(T) \in Text /\ Raw(Normal(T)) = {} /\ (Raw(T) = {} => Normal(T) = T)
<1> DEFINE g == [m \in T |-> Escaped(m.form, m.name)]
           R == Normal(T)
<1>1. T \subseteq Mention /\ IsFiniteSet(T) /\ Cardinality(T) \in Nat /\ Cardinality(T) <= MaxMentions
  BY TextFinite
<1>2. R \subseteq Mention /\ Raw(R) = {}
  <2>1. \A m \in T : Escaped(m.form, m.name) \in Mention /\ ~Escaped(m.form, m.name).raw
    BY <1>1 DEF Mention, Escaped
  <2> QED
    BY <2>1 DEF Normal, Raw
<1>3. ASSUME Raw(T) = {} PROVE R = T
  <2>1. \A m \in T : Escaped(m.form, m.name) = m
    BY <1>1, <1>3 DEF Raw, Mention, Escaped
  <2> QED
    BY <2>1 DEF Normal
<1>4. \A m \in T : Escaped(m.form, m.name) \in R
  BY DEF Normal
<1>5. g \in Surjection(T, R)
  <2>1. g \in [T -> R]
    BY <1>4
  <2>2. \A r \in R : \E m \in T : r = Escaped(m.form, m.name)
    BY DEF Normal
  <2>3. \A r \in R : \E m \in T : g[m] = r
    BY <2>2
  <2> HIDE DEF g, R
  <2> QED
    BY <2>1, <2>3, Fun_IsSurj
<1> HIDE DEF R
<1>6. IsFiniteSet(R) /\ Cardinality(R) <= Cardinality(T)
  BY <1>1, <1>5, FS_Surjection
<1>7. Cardinality(R) \in Nat /\ Cardinality(R) <= MaxMentions
  BY <1>1, <1>6, FS_CardinalityType, NamesAssumption
<1>8. R \in Text
  BY <1>2, <1>7 DEF Text
<1> QED
  BY <1>2, <1>3, <1>8 DEF R

\* The i-th attribute exists: the number of names up to a name tells names
\* apart, so that it takes every value up to the number of them.
LEMMA KeyAtIsKey ==
  ASSUME attrs \subseteq Name, NEW i \in 1..Cardinality(attrs)
  PROVE  KeyAt(i) \in attrs
<1> DEFINE n == Cardinality(attrs)
           Upto(k) == {j \in attrs : j <= k}
           rank == [k \in attrs |-> Cardinality(Upto(k))]
<1>1. IsFiniteSet(attrs) /\ attrs \subseteq Nat /\ n \in Nat
  BY NamesAssumption, FS_Subset, FS_CardinalityType
<1>2. ASSUME NEW k \in attrs
      PROVE  IsFiniteSet(Upto(k)) /\ rank[k] = Cardinality(Upto(k)) /\ rank[k] \in 1..n
  <2>1. Upto(k) \subseteq attrs /\ k \in Upto(k)
    BY <1>1
  <2>2. IsFiniteSet(Upto(k)) /\ Cardinality(Upto(k)) <= n
    BY <1>1, <2>1, FS_Subset
  <2>3. Cardinality(Upto(k)) \in Nat /\ Cardinality(Upto(k)) # 0
    BY <2>1, <2>2, FS_CardinalityType, FS_EmptySet
  <2> HIDE DEF n
  <2> QED
    BY <1>1, <2>2, <2>3
<1>3. ASSUME NEW k \in attrs, NEW l \in attrs, k < l PROVE rank[k] # rank[l]
  <2>1. k \in Int /\ l \in Int /\ k < l /\ \A j \in attrs : j \in Int
    BY <1>1, <1>3
  <2>2. \A j \in attrs : j <= k => j <= l
    BY <2>1
  <2>3. Upto(k) \subseteq Upto(l)
    BY <2>2
  <2>4. l \in Upto(l) /\ l \notin Upto(k)
    BY <2>1
  <2> QED
    BY <1>2, <2>3, <2>4, FS_Subset
<1>4. rank \in [attrs -> 1..n]
  BY <1>2
<1> HIDE DEF rank, n
<1>5. rank \in Injection(attrs, 1..n)
  <2>1. \A k, l \in attrs : rank[k] = rank[l] => k = l
    BY <1>1, <1>3
  <2> QED
    BY <1>4, <2>1, Fun_IsInj
<1>6. IsFiniteSet(1..n) /\ Cardinality(1..n) = n
  BY <1>1, FS_Interval
<1>7. rank \in Surjection(attrs, 1..n)
  BY <1>5, <1>6, FS_Injection DEF n
<1>8. i \in 1..n
  BY DEF n
<1>9. PICK k \in attrs : rank[k] = i
  BY <1>7, <1>8 DEF Surjection
<1>10. Cardinality({j \in attrs : j <= k}) = i
  BY <1>2, <1>9
<1> QED
  BY <1>10 DEF KeyAt

\* The page of an attribute that is still there.
LEMMA PlaceIsKey ==
  ASSUME TypeOK, PageInv, NEW t \in Tab, tab[t].page = "attribute",
         tab[t].index <= Cardinality(attrs)
  PROVE  KeyAt(tab[t].index) \in attrs
<1>1. attrs \subseteq Name /\ tab[t].index \in Nat /\ tab[t].index >= 1
  BY DEF TypeOK, PageInv, Page
<1>2. Cardinality(attrs) \in Nat
  BY <1>1, NamesAssumption, FS_Subset, FS_CardinalityType
<1>3. tab[t].index \in 1..Cardinality(attrs)
  BY <1>1, <1>2
<1> QED
  BY <1>1, <1>3, KeyAtIsKey

-----------------------------------------------------------------------------
(* What is mentioned after a step.                                         *)

LEMMA EmptyText == {} \in Text /\ Closed \in Page
<1>1. {} \in Text
  BY FS_EmptySet, NamesAssumption DEF Text
<1> QED
  BY <1>1 DEF Closed, Page

LEMMA InitInv == Init => IInv
<1> SUFFICES ASSUME Init PROVE IInv
  OBVIOUS
<1>1. TypeOK
  <2>1. colName \in [ColId -> Name \cup {None}] /\ attrs \subseteq Name
        /\ gone \in [Action -> SUBSET Mention]
    BY DEF Init
  <2>2. condName \in [Action -> [CondId -> Name \cup {None}]]
    BY DEF Init
  <2>3. text \in [Action -> Text] /\ tab \in [Tab -> Page]
    BY EmptyText DEF Init
  <2> QED
    BY <2>1, <2>2, <2>3 DEF TypeOK
<1>2. PageInv
  BY DEF Init, PageInv, Closed, Raw
<1>3. ColumnInv
  BY NamesAssumption DEF Init, ColumnInv
<1>4. MentionInv
  <2>1. \A t \in Tab : tab[t].text = {}
    BY DEF Init, Closed
  <2>2. \A a \in Action : text[a] = {}
    BY DEF Init
  <2>3. \A a \in Action : Mentioned(a) = {}
    BY <2>1, <2>2 DEF Mentioned, Normal, Shown
  <2> QED
    BY <2>3 DEF MentionInv
<1> QED
  BY <1>1, <1>2, <1>3, <1>4 DEF IInv

\* What is stored, what the browser would show of it, and the pages.
LEMMA CoveredParts ==
  ASSUME IInv, NEW a \in Action
  PROVE  /\ text[a] \in Text /\ text[a] \subseteq Covered(a) /\ Normal(text[a]) \subseteq Covered(a)
         /\ \A T \in SUBSET Tab : Shown(a, T) \subseteq Covered(a)
         /\ \A t \in Tab : tab[t].action = a => tab[t].text \subseteq Covered(a)
<1>1. Mentioned(a) \subseteq Covered(a) /\ text[a] \in Text
  BY DEF IInv, MentionInv, TypeOK
<1>2. \A T \in SUBSET Tab : Shown(a, T) \subseteq Shown(a, Tab)
  BY DEF Shown
<1>3. \A t \in Tab : tab[t].action = a => tab[t].text \subseteq Shown(a, Tab)
  BY DEF Shown
<1> QED
  BY <1>1, <1>2, <1>3 DEF Mentioned

LEMMA MentionedType ==
  ASSUME text' \in [Action -> Text], tab' \in [Tab -> Page], NEW a \in Action
  PROVE  Mentioned(a)' \subseteq Mention
<1>1. text'[a] \in Text /\ \A t \in Tab : tab'[t].text \in Text
  BY DEF Page
<1>2. text'[a] \subseteq Mention /\ Normal(text'[a]) \subseteq Mention
  BY <1>1, TextFinite, Normalised
<1>3. \A t \in Tab : tab'[t].text \subseteq Mention
  BY <1>1, TextFinite
<1> QED
  BY <1>2, <1>3 DEF Mentioned, Shown

\* What is mentioned and not offered any more is given up.
LEMMA GivenUp ==
  ASSUME IInv, text' \in [Action -> Text], tab' \in [Tab -> Page], NEW L, GiveUp(L),
         \A a \in Action : Mentioned(a)' \subseteq Offered(a)' \cup gone[a] \cup L[a]
  PROVE  gone' \in [Action -> SUBSET Mention] /\ MentionInv'
<1>1. \A a \in Action : gone'[a] = gone[a] \cup (L[a] \cap Mentioned(a)')
  BY DEF GiveUp
<1>2. \A a \in Action : gone[a] \subseteq Mention /\ Mentioned(a)' \subseteq Mention
  BY MentionedType DEF IInv, TypeOK
<1>3. gone' \in [Action -> SUBSET Mention]
  BY <1>2 DEF GiveUp
<1>4. \A a \in Action : Mentioned(a)' \subseteq Offered(a)' \cup gone'[a]
  BY <1>1
<1> QED
  BY <1>3, <1>4 DEF MentionInv, Covered

\* Neither a text nor a page changes.
LEMMA Unmoved ==
  ASSUME IInv, UNCHANGED <<text, tab>>, NEW a \in Action, NEW X, Covered(a) \subseteq X
  PROVE  Mentioned(a)' \subseteq X
<1>1. Mentioned(a)' = Mentioned(a)
  BY DEF Mentioned, Shown
<1> QED
  BY <1>1 DEF IInv, MentionInv

\* One page changes, and perhaps a text.
LEMMA Moved ==
  ASSUME IInv, NEW t \in Tab, NEW p \in Page, tab' = [tab EXCEPT ![t] = p],
         NEW a \in Action, NEW X, text'[a] \subseteq X, Normal(text'[a]) \subseteq X,
         Shown(a, Tab \ {t}) \subseteq X, p.action = a => p.text \subseteq X
  PROVE  Mentioned(a)' \subseteq X
<1>1. tab' \in [Tab -> Page] /\ tab'[t] = p /\ \A u \in Tab \ {t} : tab'[u] = tab[u]
  BY DEF IInv, TypeOK
<1>2. ASSUME NEW u \in Tab, tab'[u].action = a PROVE tab'[u].text \subseteq X
  <2>1. CASE u = t
    BY <1>1, <1>2, <2>1
  <2>2. CASE u # t
    <3>1. tab[u].action = a /\ tab'[u].text = tab[u].text
      BY <1>1, <1>2, <2>2
    <3> QED
      BY <2>2, <3>1 DEF Shown
  <2> QED
    BY <2>1, <2>2
<1>3. Shown(a, Tab)' \subseteq X
  BY <1>2 DEF Shown
<1> QED
  BY <1>3 DEF Mentioned

\* One page changes, and it is a page.
LEMMA PageChanged ==
  ASSUME IInv, NEW t \in Tab, NEW p \in Page, tab' = [tab EXCEPT ![t] = p],
         p.page = "text" => p.action \in Action, p.page = "attribute" => p.index >= 1,
         Raw(p.text) = {}
  PROVE  tab' \in [Tab -> Page] /\ PageInv'
<1>1. /\ tab \in [Tab -> Page] /\ tab' \in [Tab -> Page] /\ tab'[t] = p
      /\ \A u \in Tab \ {t} : tab'[u] = tab[u]
  BY DEF IInv, TypeOK
<1>2. ASSUME NEW u \in Tab
      PROVE  /\ tab'[u].page = "text" => tab'[u].action \in Action
             /\ tab'[u].page = "attribute" => tab'[u].index >= 1
             /\ Raw(tab'[u].text) = {}
  BY <1>1 DEF IInv, PageInv
<1> QED
  BY <1>1, <1>2 DEF PageInv

\* A page closes, and no text changes.
LEMMA PageClosed ==
  ASSUME IInv, NEW t \in Tab, tab' = [tab EXCEPT ![t] = Closed], UNCHANGED text
  PROVE  /\ tab' \in [Tab -> Page] /\ PageInv'
         /\ \A a \in Action : Mentioned(a)' \subseteq Covered(a)
<1>1. Closed \in Page /\ Closed.page = "none" /\ Closed.text = {} /\ Raw(Closed.text) = {}
  BY EmptyText DEF Closed, Raw
<1> HIDE DEF Closed
<1>2. ASSUME NEW a \in Action PROVE Mentioned(a)' \subseteq Covered(a)
  <2>1. /\ text'[a] \subseteq Covered(a) /\ Normal(text'[a]) \subseteq Covered(a)
        /\ Shown(a, Tab \ {t}) \subseteq Covered(a)
    BY CoveredParts
  <2> QED
    BY <1>1, <2>1, Moved
<1> QED
  BY <1>1, <1>2, PageChanged

\* A page changes and nothing else.
LEMMA PageOnly ==
  ASSUME IInv, NEW t \in Tab, NEW p \in Page, tab' = [tab EXCEPT ![t] = p],
         UNCHANGED <<colName, attrs, condName, text, gone>>,
         p.page = "text" => p.action \in Action, p.page = "attribute" => p.index >= 1,
         Raw(p.text) = {}, \A a \in Action : p.action = a => p.text \subseteq Covered(a)
  PROVE  IInv'
<1>1. tab' \in [Tab -> Page] /\ PageInv'
  BY PageChanged
<1>2. ASSUME NEW a \in Action PROVE Mentioned(a)' \subseteq Covered(a)'
  <2>1. Covered(a)' = Covered(a)
    BY DEF Covered, Offered, Conditions, Columns
  <2>2. text'[a] \subseteq Covered(a) /\ Normal(text'[a]) \subseteq Covered(a)
        /\ Shown(a, Tab \ {t}) \subseteq Covered(a)
    BY CoveredParts
  <2>3. Mentioned(a)' \subseteq Covered(a)
    BY <2>2, Moved
  <2> QED
    BY <2>1, <2>3
<1> QED
  BY <1>1, <1>2 DEF IInv, TypeOK, ColumnInv, MentionInv

\* The page of a text and what it shows.
LEMMA PageOfText ==
  ASSUME IInv, NEW t \in Tab, tab[t].page = "text"
  PROVE  /\ tab[t] \in Page /\ tab[t].text \in Text /\ tab[t].action \in Action
         /\ Raw(tab[t].text) = {} /\ Normal(tab[t].text) = tab[t].text
         /\ \A a \in Action : a = tab[t].action => tab[t].text \subseteq Covered(a)
<1>1. tab[t] \in Page /\ tab[t].text \in Text
  BY DEF IInv, TypeOK, Page
<1>2. tab[t].action \in Action /\ Raw(tab[t].text) = {}
  BY DEF IInv, PageInv
<1> QED
  BY <1>1, <1>2, Normalised, CoveredParts

-----------------------------------------------------------------------------
(* Columns.                                                                *)

LEMMA ColumnAddInv ==
  ASSUME IInv, NEW c \in ColId, NEW n \in Name, ColumnAdd(c, n)
  PROVE  IInv'
<1>1. TypeOK'
  BY DEF IInv, TypeOK, ColumnAdd
<1>2. Columns \subseteq Columns' /\ ColumnInv'
  <2>1. colName' = [colName EXCEPT ![c] = n] /\ colName[c] = None /\ n # None
        /\ colName \in [ColId -> Name \cup {None}] /\ \A d \in ColId : colName[d] # n
    BY NamesAssumption DEF ColumnAdd, FreeForColumn, Columns, IInv, TypeOK
  <2> QED
    BY <2>1 DEF Columns, ColumnInv, IInv
<1>3. \A a \in Action : Covered(a) \subseteq Covered(a)'
  BY <1>2 DEF Covered, Offered, Conditions, ColumnAdd
<1>4. MentionInv'
  BY <1>3, Unmoved DEF ColumnAdd, MentionInv
<1>5. PageInv'
  BY DEF IInv, PageInv, ColumnAdd
<1> QED
  BY <1>1, <1>2, <1>4, <1>5 DEF IInv

LEMMA ColumnDeleteInv ==
  ASSUME IInv, NEW c \in ColId, NEW used \in [Action -> SUBSET CondId], ColumnDelete(c, used)
  PROVE  IInv'
<1> DEFINE name == colName[c]
           L == [a \in Action |-> {Escaped("var", name)} \cup
                                  {Escaped("if", n) : n \in NamesOf(used, a)}]
<1>1. name \in Name /\ name # None
  BY DEF IInv, TypeOK, ColumnDelete
<1>2. colName' \in [ColId -> Name \cup {None}] /\ ColumnInv' /\ Columns \subseteq Columns' \cup {name}
  BY DEF IInv, TypeOK, ColumnDelete, Columns, ColumnInv
<1>3. condName' \in [Action -> [CondId -> Name \cup {None}]]
  BY DEF IInv, TypeOK, ColumnDelete, Without
<1>4. \A a \in Action : Conditions(a) \subseteq Conditions(a)' \cup NamesOf(used, a)
  BY DEF IInv, TypeOK, ColumnDelete, Without, NamesOf, Conditions
<1>5. ASSUME NEW a \in Action PROVE Offered(a) \subseteq Offered(a)' \cup L[a]
  <2>1. attrs' = attrs
    BY DEF ColumnDelete
  <2>2. ASSUME NEW n \in Columns \cup attrs PROVE Escaped("var", n) \in Offered(a)' \cup L[a]
    BY <1>2, <2>1 DEF Offered
  <2>3. ASSUME NEW n \in Conditions(a) PROVE Escaped("if", n) \in Offered(a)' \cup L[a]
    BY <1>4 DEF Offered
  <2> HIDE DEF L
  <2> QED
    BY <2>2, <2>3 DEF Offered
<1>6. GiveUp(L) /\ UNCHANGED <<attrs, text, tab>>
  BY DEF ColumnDelete
<1> HIDE DEF L, name
<1>7. \A a \in Action : Mentioned(a)' \subseteq Offered(a)' \cup gone[a] \cup L[a]
  BY <1>5, <1>6, Unmoved DEF Covered
<1>8. text' \in [Action -> Text] /\ tab' \in [Tab -> Page]
  BY <1>6 DEF IInv, TypeOK
<1>9. gone' \in [Action -> SUBSET Mention] /\ MentionInv'
  BY <1>6, <1>7, <1>8, GivenUp
<1>10. PageInv'
  BY <1>6 DEF IInv, PageInv
<1> QED
  BY <1>2, <1>3, <1>6, <1>8, <1>9, <1>10 DEF IInv, TypeOK

LEMMA FlushInv == ASSUME IInv, Flush PROVE IInv'
<1> DEFINE L == [a \in Action |-> {Escaped("var", n) : n \in Columns} \cup
                                  {Escaped("if", n) : n \in Conditions(a)}]
<1>1. /\ colName' \in [ColId -> Name \cup {None}] /\ ColumnInv'
      /\ condName' \in [Action -> [CondId -> Name \cup {None}]]
  BY DEF Flush, ColumnInv
<1>2. GiveUp(L) /\ UNCHANGED <<attrs, text, tab>>
  BY DEF Flush
<1>3. \A a \in Action : Offered(a) \subseteq Offered(a)' \cup L[a]
  BY <1>2 DEF Offered
<1> HIDE DEF L
<1>4. \A a \in Action : Mentioned(a)' \subseteq Offered(a)' \cup gone[a] \cup L[a]
  BY <1>2, <1>3, Unmoved DEF Covered
<1>5. text' \in [Action -> Text] /\ tab' \in [Tab -> Page]
  BY <1>2 DEF IInv, TypeOK
<1>6. gone' \in [Action -> SUBSET Mention] /\ MentionInv'
  BY <1>2, <1>4, <1>5, GivenUp
<1>7. PageInv'
  BY <1>2 DEF IInv, PageInv
<1> QED
  BY <1>1, <1>2, <1>5, <1>6, <1>7 DEF IInv, TypeOK

\* The names of the columns, when one of them is renamed.
LEMMA OneColumn ==
  ASSUME IInv, NEW c \in ColId, NEW n \in Name, ColumnEdit(c, n)
  PROVE  /\ colName[c] \in Name /\ colName' \in [ColId -> Name \cup {None}] /\ ColumnInv'
         /\ Columns \subseteq Columns' \cup {colName[c]} /\ n \in Columns'
         /\ colName'[c] = n /\ \A d \in ColId \ {c} : colName'[d] = colName[d]
<1>1. /\ colName \in [ColId -> Name \cup {None}] /\ colName[c] # None
      /\ colName' = [colName EXCEPT ![c] = n] /\ n # None /\ \A d \in ColId : colName[d] # n
  BY NamesAssumption DEF ColumnEdit, FreeForColumn, Columns, IInv, TypeOK
<1> QED
  BY <1>1 DEF Columns, ColumnInv, IInv

\* The texts follow; what the pages show does not, nor what is not escaped.
LEMMA ColumnEditInv ==
  ASSUME IInv, NEW c \in ColId, NEW n \in Name, ColumnEdit(c, n)
  PROVE  IInv'
<1> DEFINE old == colName[c]
           L == LeftByColumn(old, n)
           from == Escaped("var", old)
           to == Written("var", n)
<1>1. /\ old \in Name /\ colName' \in [ColId -> Name \cup {None}] /\ ColumnInv'
      /\ Columns \subseteq Columns' \cup {old} /\ n \in Columns'
  BY OneColumn
<1>2. /\ GiveUp(L) /\ UNCHANGED <<attrs, condName, tab>>
      /\ text' = [a \in Action |-> Substitute(text[a], from, to)]
  BY DEF ColumnEdit
<1>3. /\ from \in Mention /\ to \in Mention /\ to \in {Escaped("var", n)} \cup Unread("var", n)
      /\ Normal({to}) = {Escaped("var", n)}
  BY <1>1, FormsOfMention
<1>4. ASSUME NEW a \in Action
      PROVE  /\ text'[a] \in Text
             /\ \A m \in text'[a] : m = to \/ (m \in text[a] /\ m # from)
             /\ L[a] = ({from} \cap (Shown(a, Tab) \cup Normal(Raw(text[a])))) \cup Unread("var", n)
  <2>1. text[a] \in Text /\ text'[a] = Substitute(text[a], from, to)
    BY <1>2 DEF IInv, TypeOK
  <2> QED
    BY <1>3, <2>1, Substituted DEF LeftByColumn
<1>5. ASSUME NEW a \in Action
      PROVE  Offered(a) \subseteq Offered(a)' \cup {from} /\ Escaped("var", n) \in Offered(a)'
  <2>1. ASSUME NEW k \in Columns \cup attrs PROVE Escaped("var", k) \in Offered(a)' \cup {from}
    BY <1>1, <1>2 DEF Offered
  <2>2. ASSUME NEW k \in Conditions(a) PROVE Escaped("if", k) \in Offered(a)'
    BY <1>2 DEF Offered, Conditions
  <2>3. Escaped("var", n) \in Offered(a)'
    BY <1>1 DEF Offered
  <2> HIDE DEF from
  <2> QED
    BY <2>1, <2>2, <2>3 DEF Offered
<1> HIDE DEF old, L, from, to
<1>6. ASSUME NEW a \in Action PROVE Mentioned(a)' \subseteq Offered(a)' \cup gone[a] \cup L[a]
  <2> DEFINE X == Offered(a)' \cup gone[a] \cup L[a]
  <2>1. /\ text[a] \subseteq Covered(a) /\ Normal(text[a]) \subseteq Covered(a)
        /\ Shown(a, Tab) \subseteq Covered(a) /\ text[a] \in Text
    BY CoveredParts
  <2>2. Covered(a) \subseteq X \cup {from}
    BY <1>5 DEF Covered
  <2>3. to \in X /\ Escaped("var", n) \in X
    BY <1>3, <1>4, <1>5
  <2>4. text'[a] \subseteq X
    BY <1>4, <2>1, <2>2, <2>3
  <2>5. ASSUME NEW m \in text'[a] PROVE Escaped(m.form, m.name) \in X
    <3> DEFINE r == Escaped(m.form, m.name)
    <3> SUFFICES r \in X
      OBVIOUS
    <3>1. CASE m = to
      BY <1>3, <2>3, <3>1 DEF Normal
    <3>2. CASE m \in text[a] /\ m # from
      <4>1. r \in Normal(text[a]) /\ m \in Mention
        BY <2>1, <3>2, TextFinite DEF Normal
      <4>2. CASE r = from /\ m.raw
        <5>1. r \in Normal(Raw(text[a]))
          BY <3>2, <4>2 DEF Normal, Raw
        <5> HIDE DEF r
        <5> QED
          BY <1>4, <4>2, <5>1
      <4>3. CASE ~m.raw
        <5>1. r = m
          BY <4>1, <4>3 DEF Mention, Escaped
        <5> HIDE DEF r
        <5> QED
          BY <2>1, <2>2, <3>2, <5>1
      <4>4. CASE r # from
        BY <2>1, <2>2, <4>1, <4>4
      <4> QED
        BY <4>2, <4>3, <4>4
    <3> QED
      BY <1>4, <3>1, <3>2
  <2>6. Normal(text'[a]) \subseteq X
    BY <2>5 DEF Normal
  <2>7. Shown(a, Tab)' = Shown(a, Tab)
    BY <1>2 DEF Shown
  <2>8. Shown(a, Tab) \subseteq X
    BY <1>4, <2>1, <2>2
  <2> HIDE DEF X
  <2>9. Mentioned(a)' \subseteq X
    BY <2>4, <2>6, <2>7, <2>8 DEF Mentioned
  <2> QED
    BY <2>9 DEF X
<1>7. text' \in [Action -> Text] /\ tab' \in [Tab -> Page]
  BY <1>2, <1>4 DEF IInv, TypeOK
<1>8. gone' \in [Action -> SUBSET Mention] /\ MentionInv'
  BY <1>2, <1>6, <1>7, GivenUp
<1>9. PageInv'
  BY <1>2 DEF IInv, PageInv
<1> QED
  BY <1>1, <1>2, <1>7, <1>8, <1>9 DEF IInv, TypeOK

-----------------------------------------------------------------------------
(* Attributes.                                                             *)

LEMMA AttributeCreateInv ==
  ASSUME IInv, NEW n \in Name, AttributeCreate(n)
  PROVE  IInv'
<1>1. TypeOK' /\ PageInv' /\ ColumnInv'
  BY DEF IInv, TypeOK, PageInv, ColumnInv, AttributeCreate
<1>2. \A a \in Action : Covered(a) \subseteq Covered(a)'
  BY DEF Covered, Offered, Conditions, Columns, AttributeCreate
<1>3. MentionInv'
  BY <1>2, Unmoved DEF AttributeCreate, MentionInv
<1> QED
  BY <1>1, <1>3 DEF IInv

LEMMA OpenAttributeInv ==
  ASSUME IInv, NEW t \in Tab, NEW i \in 1..MaxAttrs, OpenAttribute(t, i)
  PROVE  IInv'
<1> DEFINE p == [Closed EXCEPT !.page = "attribute", !.index = i]
<1>1. i \in Nat /\ i >= 1
  BY NamesAssumption
<1>2. p \in Page /\ p.page = "attribute" /\ p.index >= 1 /\ p.text = {} /\ Raw(p.text) = {}
  BY <1>1, EmptyText DEF Closed, Page, Raw
<1>3. tab' = [tab EXCEPT ![t] = p] /\ UNCHANGED <<colName, attrs, condName, text, gone>>
  BY DEF OpenAttribute
<1> HIDE DEF p
<1>4. \A a \in Action : p.text \subseteq Covered(a)
  BY <1>2
<1> QED
  BY <1>2, <1>3, <1>4, PageOnly

\* The attribute goes, or another takes its place.
LEMMA AttributeLeft ==
  ASSUME IInv, NEW t \in Tab, tab' = [tab EXCEPT ![t] = Closed],
         UNCHANGED <<colName, condName, text>>, attrs' \subseteq Name,
         NEW key, NEW S, GiveUp(Everywhere(S)),
         \A n \in attrs : n \in attrs' \/ Escaped("var", n) \in S
  PROVE  IInv'
<1> DEFINE L == Everywhere(S)
<1>1. tab' \in [Tab -> Page] /\ PageInv' /\ \A a \in Action : Mentioned(a)' \subseteq Covered(a)
  BY PageClosed
<1>2. Columns' = Columns /\ \A a \in Action : Conditions(a)' = Conditions(a)
  BY DEF Columns, Conditions
<1>3. \A a \in Action : Offered(a) \subseteq Offered(a)' \cup S /\ L[a] = S
  BY <1>2 DEF Offered, Everywhere
<1>4. text' \in [Action -> Text]
  BY DEF IInv, TypeOK
<1> HIDE DEF L
<1>5. \A a \in Action : Mentioned(a)' \subseteq Offered(a)' \cup gone[a] \cup L[a]
  BY <1>1, <1>3 DEF Covered
<1>6. GiveUp(L)
  BY DEF L
<1>7. gone' \in [Action -> SUBSET Mention] /\ MentionInv'
  BY <1>1, <1>4, <1>5, <1>6, GivenUp
<1> QED
  BY <1>1, <1>4, <1>7 DEF IInv, TypeOK, ColumnInv

LEMMA AttributeEditInv ==
  ASSUME IInv, NEW t \in Tab, NEW n \in Name, AttributeEdit(t, n)
  PROVE  IInv'
<1> DEFINE key == KeyAt(tab[t].index)
           S == IF n = key THEN {} ELSE {Escaped("var", key)}
<1>1. key \in attrs /\ attrs \subseteq Name
  BY PlaceIsKey DEF IInv, TypeOK, AttributeEdit
<1>2. /\ attrs' = (attrs \ {key}) \cup {n} /\ tab' = [tab EXCEPT ![t] = Closed]
      /\ UNCHANGED <<colName, condName, text>> /\ GiveUp(Everywhere(S))
  BY DEF AttributeEdit
<1> HIDE DEF key
<1>3. \A k \in attrs : k \in attrs' \/ Escaped("var", k) \in S
  BY <1>2
<1>4. attrs' \subseteq Name
  BY <1>1, <1>2
<1> HIDE DEF S
<1> QED
  BY <1>2, <1>3, <1>4, AttributeLeft

LEMMA AttributeDeleteInv ==
  ASSUME IInv, NEW t \in Tab, AttributeDelete(t)
  PROVE  IInv'
<1> DEFINE key == KeyAt(tab[t].index)
           S == {Escaped("var", key)}
<1>1. key \in attrs /\ attrs \subseteq Name
  BY PlaceIsKey DEF IInv, TypeOK, AttributeDelete
<1>2. /\ attrs' = attrs \ {key} /\ tab' = [tab EXCEPT ![t] = Closed]
      /\ UNCHANGED <<colName, condName, text>> /\ GiveUp(Everywhere(S))
  BY DEF AttributeDelete
<1> HIDE DEF key
<1>3. \A k \in attrs : k \in attrs' \/ Escaped("var", k) \in S
  BY <1>2
<1>4. attrs' \subseteq Name
  BY <1>1, <1>2
<1> HIDE DEF S
<1> QED
  BY <1>2, <1>3, <1>4, AttributeLeft

-----------------------------------------------------------------------------
(* Pages.                                                                  *)

LEMMA OpenTextInv ==
  ASSUME IInv, NEW t \in Tab, NEW a \in Action, OpenText(t, a)
  PROVE  IInv'
<1> DEFINE N == Normal(text[a])
           p == [Closed EXCEPT !.page = "text", !.action = a, !.text = N]
<1>1. N \in Text /\ Raw(N) = {} /\ N \subseteq Covered(a)
  BY CoveredParts, Normalised
<1>2. tab' = [tab EXCEPT ![t] = p] /\ UNCHANGED <<colName, attrs, condName, text, gone>>
  BY DEF OpenText
<1> HIDE DEF N
<1>3. p \in Page /\ p.page = "text" /\ p.action = a /\ p.text = N
  BY <1>1, EmptyText DEF Closed, Page
<1> HIDE DEF p
<1> QED
  BY <1>1, <1>2, <1>3, PageOnly

LEMMA EditInv ==
  ASSUME IInv, NEW t \in Tab, NEW m \in Mention, Edit(t, m)
  PROVE  IInv'
<1> DEFINE T == IF m \in tab[t].text THEN tab[t].text \ {m} ELSE tab[t].text \cup {m}
           p == [tab[t] EXCEPT !.text = T]
<1>1. PICK a \in Action : a = tab[t].action
  BY PageOfText DEF Edit
<1>2. /\ tab[t].page = "text" /\ tab[t] \in Page /\ Raw(tab[t].text) = {}
      /\ tab[t].text \subseteq Covered(a)
  BY <1>1, PageOfText DEF Edit
<1>3. /\ T \in Text /\ tab' = [tab EXCEPT ![t] = p] /\ m \in tab[t].text \cup Offered(a)
      /\ UNCHANGED <<colName, attrs, condName, text, gone>>
  BY <1>1 DEF Edit, IInv, TypeOK
<1>4. T \subseteq Covered(a) /\ Raw(T) = {}
  <2>1. T \subseteq tab[t].text \cup {m}
    OBVIOUS
  <2>2. \A x \in Offered(a) : ~x.raw
    BY DEF Offered, Escaped
  <2> HIDE DEF T
  <2> QED
    BY <1>2, <1>3, <2>1, <2>2 DEF Covered, Raw
<1> HIDE DEF T
<1>5. p \in Page /\ p.page = "text" /\ p.action = a /\ p.text = T
  BY <1>1, <1>2, <1>3 DEF Page
<1> HIDE DEF p
<1> QED
  BY <1>1, <1>2, <1>3, <1>4, <1>5, PageOfText, PageOnly

LEMMA SaveContentInv ==
  ASSUME IInv, NEW t \in Tab, SaveContent(t)
  PROVE  IInv'
<1>1. PICK a \in Action : a = tab[t].action
  BY PageOfText DEF SaveContent
<1> DEFINE P == tab[t].text
<1>2. P \in Text /\ Normal(P) = P /\ P \subseteq Covered(a)
  BY <1>1, PageOfText DEF SaveContent
<1>3. text' = [text EXCEPT ![a] = P] /\ UNCHANGED <<colName, attrs, condName, tab, gone>>
  BY <1>1 DEF SaveContent
<1> HIDE DEF P
<1>4. text' \in [Action -> Text] /\ text'[a] = P /\ \A b \in Action \ {a} : text'[b] = text[b]
  BY <1>2, <1>3 DEF IInv, TypeOK
<1>5. ASSUME NEW b \in Action PROVE Mentioned(b)' \subseteq Covered(b)'
  <2>1. Covered(b)' = Covered(b) /\ Shown(b, Tab)' = Shown(b, Tab)
    BY <1>3 DEF Covered, Offered, Conditions, Columns, Shown
  <2>2. text'[b] \subseteq Covered(b) /\ Normal(text'[b]) \subseteq Covered(b)
        /\ Shown(b, Tab) \subseteq Covered(b)
    BY <1>2, <1>4, CoveredParts
  <2> QED
    BY <2>1, <2>2 DEF Mentioned
<1> QED
  BY <1>3, <1>4, <1>5 DEF IInv, TypeOK, PageInv, ColumnInv, MentionInv

LEMMA CloseInv ==
  ASSUME IInv, NEW t \in Tab, Close(t)
  PROVE  IInv'
<1>1. Closed \in Page /\ Closed.page = "none" /\ Closed.text = {} /\ Raw(Closed.text) = {}
  BY EmptyText DEF Closed, Raw
<1>2. tab' = [tab EXCEPT ![t] = Closed] /\ UNCHANGED <<colName, attrs, condName, text, gone>>
  BY DEF Close
<1> HIDE DEF Closed
<1>3. \A a \in Action : Closed.text \subseteq Covered(a)
  BY <1>1
<1> QED
  BY <1>1, <1>2, <1>3, PageOnly

-----------------------------------------------------------------------------
(* Conditions.                                                             *)

\* Names of conditions, when one of them changes.
LEMMA OneCondition ==
  ASSUME TypeOK, NEW a \in Action, NEW k \in CondId, NEW n \in Name \cup {None},
         condName' = [condName EXCEPT ![a][k] = n]
  PROVE  /\ condName' \in [Action -> [CondId -> Name \cup {None}]]
         /\ Conditions(a) \subseteq Conditions(a)' \cup {condName[a][k]}
         /\ Conditions(a)' \subseteq Conditions(a) \cup ({n} \ {None})
         /\ n # None => n \in Conditions(a)'
         /\ \A b \in Action \ {a} : Conditions(b)' = Conditions(b)
<1>1. /\ condName \in [Action -> [CondId -> Name \cup {None}]]
      /\ condName' \in [Action -> [CondId -> Name \cup {None}]]
      /\ condName'[a] = [condName[a] EXCEPT ![k] = n]
      /\ \A b \in Action \ {a} : condName'[b] = condName[b]
  BY DEF TypeOK
<1>2. condName'[a][k] = n /\ \A l \in CondId \ {k} : condName'[a][l] = condName[a][l]
  BY <1>1
<1> QED
  BY <1>1, <1>2 DEF Conditions

\* What is offered then.
LEMMA OfferedWithCondition ==
  ASSUME IInv, NEW a \in Action, NEW k \in CondId, NEW n \in Name \cup {None},
         condName' = [condName EXCEPT ![a][k] = n], UNCHANGED <<colName, attrs>>
  PROVE  /\ Offered(a) \subseteq Offered(a)' \cup {Escaped("if", condName[a][k])}
         /\ condName[a][k] = None => Offered(a) \subseteq Offered(a)'
         /\ n # None => Escaped("if", n) \in Offered(a)'
         /\ \A b \in Action \ {a} : Offered(b)' = Offered(b)
<1> DEFINE old == condName[a][k]
<1>1. /\ Conditions(a) \subseteq Conditions(a)' \cup {old} /\ None \notin Conditions(a)
      /\ n # None => n \in Conditions(a)'
      /\ \A b \in Action \ {a} : Conditions(b)' = Conditions(b)
  <2>1. None \notin Conditions(a)
    BY DEF Conditions
  <2> QED
    BY <2>1, OneCondition DEF IInv
<1>2. Columns' = Columns
  BY DEF Columns
<1> HIDE DEF old
<1>3. ASSUME NEW b \in Action, b # a PROVE Offered(b)' = Offered(b)
  BY <1>1, <1>2, <1>3 DEF Offered
<1>4. n # None => Escaped("if", n) \in Offered(a)'
  BY <1>1 DEF Offered
<1>5. ASSUME NEW c \in Conditions(a) PROVE Escaped("if", c) \in Offered(a)' \cup ({Escaped("if", old)})
  BY <1>1 DEF Offered
<1>6. ASSUME NEW c \in Conditions(a), old = None PROVE Escaped("if", c) \in Offered(a)'
  BY <1>1, <1>6 DEF Offered
<1>7. ASSUME NEW c \in Columns \cup attrs PROVE Escaped("var", c) \in Offered(a)'
  BY <1>2 DEF Offered
<1>8. Offered(a) \subseteq Offered(a)' \cup {Escaped("if", old)}
  BY <1>5, <1>7 DEF Offered
<1>9. old = None => Offered(a) \subseteq Offered(a)'
  BY <1>6, <1>7 DEF Offered
<1> QED
  BY <1>3, <1>4, <1>8, <1>9 DEF old

\* A text is saved from a page, which then shows N.
LEMMA SavedAndReloaded ==
  ASSUME IInv, NEW t \in Tab, tab[t].page = "text", NEW a \in Action, a = tab[t].action,
         NEW T \in Text, text' = [text EXCEPT ![a] = T],
         NEW N \in Text, Raw(N) = {}, tab' = [tab EXCEPT ![t].text = N]
  PROVE  text' \in [Action -> Text] /\ tab' \in [Tab -> Page] /\ PageInv'
<1> DEFINE p == [tab[t] EXCEPT !.text = N]
<1>1. text' \in [Action -> Text] /\ text'[a] = T /\ \A b \in Action \ {a} : text'[b] = text[b]
  BY DEF IInv, TypeOK
<1>2. p \in Page /\ p.page = "text" /\ p.action = a /\ p.text = N
  BY PageOfText DEF Page
<1>3. tab' = [tab EXCEPT ![t] = p]
  BY DEF IInv, TypeOK
<1> HIDE DEF p
<1> QED
  BY <1>1, <1>2, <1>3, PageChanged

LEMMA OthersStay ==
  ASSUME IInv, NEW t \in Tab, tab[t].page = "text", NEW a \in Action, a = tab[t].action,
         NEW T \in Text, text' = [text EXCEPT ![a] = T],
         NEW N \in Text, Raw(N) = {}, tab' = [tab EXCEPT ![t].text = N],
         NEW b \in Action, b # a
  PROVE  Mentioned(b)' \subseteq Covered(b)
<1> DEFINE p == [tab[t] EXCEPT !.text = N]
<1>1. text' \in [Action -> Text] /\ text'[a] = T /\ \A c \in Action \ {a} : text'[c] = text[c]
  BY DEF IInv, TypeOK
<1>2. p \in Page /\ p.page = "text" /\ p.action = a /\ p.text = N
  BY PageOfText DEF Page
<1>3. tab' = [tab EXCEPT ![t] = p]
  BY DEF IInv, TypeOK
<1> HIDE DEF p
<1>4. text'[b] = text[b] /\ p.action # b
  BY <1>1, <1>2
<1>5. text'[b] \subseteq Covered(b) /\ Normal(text'[b]) \subseteq Covered(b)
      /\ Shown(b, Tab \ {t}) \subseteq Covered(b)
  BY <1>4, CoveredParts
<1>6. p.action = b => p.text \subseteq Covered(b)
  BY <1>4
<1> QED
  BY <1>2, <1>3, <1>5, <1>6, Moved

LEMMA MentionedThen ==
  ASSUME IInv, NEW t \in Tab, tab[t].page = "text", NEW a \in Action, a = tab[t].action,
         NEW T \in Text, text' = [text EXCEPT ![a] = T],
         NEW N \in Text, Raw(N) = {}, tab' = [tab EXCEPT ![t].text = N],
         NEW X, T \subseteq X, Normal(T) \subseteq X, N \subseteq X, Shown(a, Tab \ {t}) \subseteq X
  PROVE  Mentioned(a)' \subseteq X
<1> DEFINE p == [tab[t] EXCEPT !.text = N]
<1>1. text' \in [Action -> Text] /\ text'[a] = T /\ \A b \in Action \ {a} : text'[b] = text[b]
  BY DEF IInv, TypeOK
<1>2. p \in Page /\ p.page = "text" /\ p.action = a /\ p.text = N
  BY PageOfText DEF Page
<1>3. tab' = [tab EXCEPT ![t] = p]
  BY DEF IInv, TypeOK
<1> HIDE DEF p
<1>4. text'[a] \subseteq X /\ Normal(text'[a]) \subseteq X /\ p.text \subseteq X
  BY <1>1, <1>2
<1> QED
  BY <1>2, <1>3, <1>4, Moved

\* Where the names of columns and attributes stay and nothing is given up.
LEMMA ConditionKept ==
  ASSUME IInv, NEW a \in Action, NEW k \in CondId, NEW n \in Name, condName[a][k] = None,
         condName' = [condName EXCEPT ![a][k] = n], UNCHANGED <<colName, attrs, gone>>,
         text' \in [Action -> Text], tab' \in [Tab -> Page], PageInv',
         \A b \in Action : Mentioned(b)' \subseteq Covered(b)
  PROVE  IInv'
<1>1. n \in Name \cup {None} /\ TypeOK
  BY DEF IInv
<1>2. condName' \in [Action -> [CondId -> Name \cup {None}]]
  BY <1>1, OneCondition
<1>3. \A b \in Action : Offered(b) \subseteq Offered(b)'
  BY <1>1, OfferedWithCondition
<1>4. \A b \in Action : Covered(b) \subseteq Covered(b)'
  BY <1>3 DEF Covered
<1>5. MentionInv'
  BY <1>4 DEF MentionInv
<1> QED
  BY <1>2, <1>5 DEF IInv, TypeOK, ColumnInv

LEMMA ConditionCreateInv ==
  ASSUME IInv, NEW t \in Tab, NEW k \in CondId, NEW n \in Name, ConditionCreate(t, k, n)
  PROVE  IInv'
<1>1. PICK a \in Action : a = tab[t].action
  BY PageOfText DEF ConditionCreate
<1> DEFINE P == tab[t].text
<1>2. /\ tab[t].page = "text" /\ P \in Text /\ Raw(P) = {} /\ Normal(P) = P /\ P \subseteq Covered(a)
  BY <1>1, PageOfText DEF ConditionCreate
<1>3. /\ condName[a][k] = None /\ condName' = [condName EXCEPT ![a][k] = n]
      /\ text' = [text EXCEPT ![a] = P] /\ Reload(t, a)
      /\ UNCHANGED <<colName, attrs, gone>>
  BY <1>1 DEF ConditionCreate
<1> HIDE DEF P
<1>4. tab' = [tab EXCEPT ![t].text = P]
  <2>1. text'[a] = P
    BY <1>3 DEF IInv, TypeOK
  <2> QED
    BY <1>2, <1>3, <2>1 DEF Reload
<1>5. /\ P \subseteq Covered(a) /\ Normal(P) \subseteq Covered(a)
      /\ Shown(a, Tab \ {t}) \subseteq Covered(a)
  BY <1>2, CoveredParts
<1>6. text' = [text EXCEPT ![a] = P]
  BY <1>3
<1>7. text' \in [Action -> Text] /\ tab' \in [Tab -> Page] /\ PageInv'
  BY <1>1, <1>2, <1>4, <1>6, SavedAndReloaded
<1>8. Mentioned(a)' \subseteq Covered(a)
  BY <1>1, <1>2, <1>4, <1>5, <1>6, MentionedThen
<1>9. \A b \in Action \ {a} : Mentioned(b)' \subseteq Covered(b)
  BY <1>1, <1>2, <1>4, <1>6, OthersStay
<1> QED
  BY <1>3, <1>7, <1>8, <1>9, ConditionKept

LEMMA ConditionCloneInv ==
  ASSUME IInv, NEW t \in Tab, NEW k \in CondId, NEW l \in CondId, NEW n \in Name,
         ConditionClone(t, k, l, n)
  PROVE  IInv'
<1>1. PICK a \in Action : a = tab[t].action
  BY PageOfText DEF ConditionClone
<1> DEFINE P == tab[t].text
           T == text'[a]
<1>2. /\ tab[t].page = "text" /\ P \in Text /\ Normal(P) = P /\ P \subseteq Covered(a)
  BY <1>1, PageOfText DEF ConditionClone
<1>3. /\ condName[a][l] = None /\ condName' = [condName EXCEPT ![a][l] = n]
      /\ text' \in {text, [text EXCEPT ![a] = P]}
      /\ Reload(t, a) \/ tab' = [tab EXCEPT ![t].text = Normal(text[a])]
      /\ UNCHANGED <<colName, attrs, gone>>
  BY <1>1 DEF ConditionClone
<1>4. /\ text[a] \in Text /\ text[a] \subseteq Covered(a) /\ Normal(text[a]) \subseteq Covered(a)
      /\ Shown(a, Tab \ {t}) \subseteq Covered(a)
  BY CoveredParts
<1> HIDE DEF P
<1>5. T \in {text[a], P} /\ text' = [text EXCEPT ![a] = T]
  BY <1>3 DEF IInv, TypeOK
<1> HIDE DEF T
<1>6. T \in Text /\ T \subseteq Covered(a) /\ Normal(T) \subseteq Covered(a)
  BY <1>2, <1>4, <1>5
<1>7. PICK N : N \in {Normal(T), Normal(text[a])} /\ tab' = [tab EXCEPT ![t].text = N]
  BY <1>3 DEF Reload, T
<1>8. N \in Text /\ Raw(N) = {} /\ N \subseteq Covered(a)
  BY <1>4, <1>6, <1>7, Normalised
<1>9. text' \in [Action -> Text] /\ tab' \in [Tab -> Page] /\ PageInv'
  BY <1>1, <1>2, <1>5, <1>6, <1>7, <1>8, SavedAndReloaded
<1>10. text' = [text EXCEPT ![a] = T] /\ tab' = [tab EXCEPT ![t].text = N] /\ tab[t].page = "text"
  BY <1>2, <1>5, <1>7
<1>11. Mentioned(a)' \subseteq Covered(a)
  <2>1. Shown(a, Tab \ {t}) \subseteq Covered(a)
    BY <1>4
  <2> QED
    BY <1>1, <1>6, <1>8, <1>10, <2>1, MentionedThen
<1>12. ASSUME NEW b \in Action, b # a PROVE Mentioned(b)' \subseteq Covered(b)
  BY <1>1, <1>6, <1>8, <1>10, <1>12, OthersStay
<1> QED
  BY <1>3, <1>9, <1>11, <1>12, ConditionKept

LEMMA ConditionDeleteInv ==
  ASSUME IInv, NEW t \in Tab, NEW k \in CondId, ConditionDelete(t, k)
  PROVE  IInv'
<1>1. PICK a \in Action : a = tab[t].action
  BY PageOfText DEF ConditionDelete
<1> DEFINE P == tab[t].text
           L == In(a, {Escaped("if", condName[a][k])})
<1>2. /\ tab[t].page = "text" /\ P \in Text /\ Raw(P) = {} /\ Normal(P) = P /\ P \subseteq Covered(a)
  BY <1>1, PageOfText DEF ConditionDelete
<1>3. /\ condName' = [condName EXCEPT ![a][k] = None]
      /\ text' = [text EXCEPT ![a] = P] /\ Reload(t, a)
      /\ UNCHANGED <<colName, attrs>> /\ GiveUp(L)
  BY <1>1 DEF ConditionDelete
<1>4. L[a] = {Escaped("if", condName[a][k])}
  BY DEF In
<1> HIDE DEF P, L
<1>5. tab' = [tab EXCEPT ![t].text = P] /\ text' = [text EXCEPT ![a] = P]
  <2>1. text'[a] = P
    BY <1>3 DEF IInv, TypeOK
  <2> QED
    BY <1>2, <1>3, <2>1 DEF Reload
<1>6. None \in Name \cup {None} /\ TypeOK
  BY DEF IInv
<1>7. condName' \in [Action -> [CondId -> Name \cup {None}]]
  BY <1>3, <1>6, OneCondition
<1>8. /\ Offered(a) \subseteq Offered(a)' \cup L[a]
      /\ \A b \in Action \ {a} : Offered(b)' = Offered(b)
  BY <1>3, <1>4, <1>6, OfferedWithCondition
<1>9. text' \in [Action -> Text] /\ tab' \in [Tab -> Page] /\ PageInv'
  BY <1>1, <1>2, <1>5, SavedAndReloaded
<1>10. Shown(a, Tab \ {t}) \subseteq Covered(a)
  BY CoveredParts
<1>11. Mentioned(a)' \subseteq Covered(a)
  BY <1>1, <1>2, <1>5, <1>10, MentionedThen
<1>12. ASSUME NEW b \in Action, b # a PROVE Mentioned(b)' \subseteq Covered(b)
  BY <1>1, <1>2, <1>5, <1>12, OthersStay
<1>13. \A b \in Action : Mentioned(b)' \subseteq Offered(b)' \cup gone[b] \cup L[b]
  BY <1>8, <1>11, <1>12 DEF Covered
<1>14. gone' \in [Action -> SUBSET Mention] /\ MentionInv'
  BY <1>3, <1>9, <1>13, GivenUp
<1> QED
  BY <1>3, <1>7, <1>9, <1>14 DEF IInv, TypeOK, ColumnInv

\* The text saved is the one the page shows, which follows; what other pages
\* show does not, nor what is escaped where the form looks for the name itself.
LEMMA ConditionEditInv ==
  ASSUME IInv, NEW t \in Tab, NEW k \in CondId, NEW n \in Name, ConditionEdit(t, k, n)
  PROVE  IInv'
<1>1. PICK a \in Action : a = tab[t].action
  BY PageOfText DEF ConditionEdit
<1> DEFINE old == condName[a][k]
           P == tab[t].text
           from == Written("if", old)
           to == Written("if", n)
           T == Substitute(P, from, to)
           L == LeftByCondition(t, old, n)
           X == Offered(a)' \cup gone[a] \cup L[a]
<1>2. /\ tab[t].page = "text" /\ P \in Text /\ Raw(P) = {} /\ P \subseteq Covered(a)
  BY <1>1, PageOfText DEF ConditionEdit
<1>3. /\ old # None /\ condName' = [condName EXCEPT ![a][k] = n]
      /\ text' = [text EXCEPT ![a] = T] /\ Reload(t, a)
      /\ UNCHANGED <<colName, attrs>> /\ GiveUp(L)
  BY <1>1 DEF ConditionEdit
<1>4. n \in Name \cup {None} /\ n # None /\ TypeOK /\ old \in Name
  BY <1>3, NamesAssumption DEF IInv, TypeOK
<1>5. L[a] = ({Escaped("if", old)} \cap Shown(a, Tab \ {t})) \cup Missed("if", old) \cup Unread("if", n)
  BY <1>1 DEF LeftByCondition, In
<1>6. /\ from \in Mention /\ to \in Mention /\ to \in {Escaped("if", n)} \cup Unread("if", n)
      /\ Escaped("if", old) \in {from} \cup Missed("if", old)
      /\ Normal({to}) = {Escaped("if", n)}
  BY <1>4, FormsOfMention
<1>7. condName' \in [Action -> [CondId -> Name \cup {None}]]
  BY <1>3, <1>4, OneCondition
<1>8. /\ Offered(a) \subseteq Offered(a)' \cup {Escaped("if", old)} /\ Escaped("if", n) \in Offered(a)'
      /\ \A b \in Action \ {a} : Offered(b)' = Offered(b)
  BY <1>3, <1>4, OfferedWithCondition
<1>9. T \in Text /\ \A m \in T : m = to \/ (m \in P /\ m # from)
  BY <1>2, <1>6, Substituted
<1> HIDE DEF old, P, from, to, T, L
<1>10. Covered(a) \subseteq X \cup {Escaped("if", old)} /\ to \in X /\ Escaped("if", n) \in X
  BY <1>5, <1>6, <1>8 DEF Covered
<1>11. \A m \in P : m # from => m \in X
  BY <1>2, <1>5, <1>6, <1>10
<1>12. T \subseteq X
  BY <1>9, <1>10, <1>11
<1>13. Normal(T) \subseteq X
  <2>1. ASSUME NEW m \in T PROVE Escaped(m.form, m.name) \in X
    <3>1. CASE m = to
      BY <1>6, <1>10, <3>1 DEF Normal
    <3>2. CASE m \in P /\ m # from
      <4>1. Escaped(m.form, m.name) \in Normal(P) /\ Normal(P) = P
        BY <1>2, <3>2, Normalised DEF Normal
      <4>2. Escaped(m.form, m.name) = m
        BY <1>2, <3>2, TextFinite DEF Raw, Mention, Escaped
      <4>3. m \in X
        BY <1>11, <3>2
      <4> HIDE DEF X
      <4> QED
        BY <4>2, <4>3
    <3> QED
      BY <1>9, <3>1, <3>2
  <2> HIDE DEF X
  <2> QED
    BY <2>1 DEF Normal
<1>14. Shown(a, Tab \ {t}) \subseteq X
  <2>1. Shown(a, Tab \ {t}) \subseteq Covered(a)
    BY CoveredParts
  <2> QED
    BY <1>5, <1>10, <2>1
<1>15. text' = [text EXCEPT ![a] = T] /\ tab' = [tab EXCEPT ![t].text = Normal(T)]
  <2>1. text'[a] = T
    BY <1>3 DEF IInv, TypeOK
  <2> QED
    BY <1>3, <2>1 DEF Reload
<1> DEFINE N == Normal(T)
<1>16. N \in Text /\ Raw(N) = {} /\ N \subseteq X /\ tab' = [tab EXCEPT ![t].text = N]
  BY <1>9, <1>13, <1>15, Normalised
<1> HIDE DEF N, X
<1>17. text' \in [Action -> Text] /\ tab' \in [Tab -> Page] /\ PageInv'
  BY <1>1, <1>2, <1>9, <1>15, <1>16, SavedAndReloaded
<1>18. Mentioned(a)' \subseteq X
  <2>1. Normal(T) \subseteq X /\ Shown(a, Tab \ {t}) \subseteq X /\ T \subseteq X
    BY <1>12, <1>13, <1>14
  <2>2. T \in Text /\ text' = [text EXCEPT ![a] = T]
    BY <1>9, <1>15
  <2> QED
    BY <1>1, <1>2, <1>16, <2>1, <2>2, MentionedThen
<1>19. ASSUME NEW b \in Action, b # a PROVE Mentioned(b)' \subseteq Covered(b)
  BY <1>1, <1>2, <1>9, <1>15, <1>16, <1>19, OthersStay
<1>20. ASSUME NEW b \in Action PROVE Mentioned(b)' \subseteq Offered(b)' \cup gone[b] \cup L[b]
  BY <1>8, <1>18, <1>19 DEF Covered, X
<1>21. gone' \in [Action -> SUBSET Mention] /\ MentionInv'
  BY <1>3, <1>17, <1>20, GivenUp
<1> QED
  BY <1>3, <1>7, <1>17, <1>21 DEF IInv, TypeOK, ColumnInv

-----------------------------------------------------------------------------
(* A file with an action.                                                  *)

LEMMA ImportActionInv ==
  ASSUME IInv, NEW a \in Action, NEW k \in CondId, NEW n \in Name, NEW u \in Name,
         NEW T \in Text, ImportAction(a, k, n, u, T)
  PROVE  IInv'
<1> DEFINE known == Offered(a) \cup {Escaped("if", n), Escaped("var", u)}
           L == In(a, Mention \ known)
<1>1. /\ condName' = [condName EXCEPT ![a][k] = n] /\ text' = [text EXCEPT ![a] = T]
      /\ UNCHANGED <<attrs, tab>> /\ GiveUp(L) /\ Conditions(a) = {}
  BY DEF ImportAction, Unmade
<1>2. /\ colName' \in [ColId -> Name \cup {None}] /\ ColumnInv'
      /\ Columns \subseteq Columns' /\ u \in Columns'
  <2>1. colName \in [ColId -> Name \cup {None}] /\ u # None
    BY NamesAssumption DEF IInv, TypeOK
  <2>2. CASE u \in Columns /\ colName' = colName
    BY <2>1, <2>2 DEF IInv, ColumnInv, Columns
  <2>3. CASE u \notin Columns /\ \E c \in ColId : colName[c] = None /\ colName' = [colName EXCEPT ![c] = u]
    <3>1. PICK c \in ColId : colName[c] = None /\ colName' = [colName EXCEPT ![c] = u]
      BY <2>3
    <3>2. \A d \in ColId : colName[d] # u
      BY <2>1, <2>3 DEF Columns
    <3> QED
      BY <2>1, <3>1, <3>2 DEF IInv, ColumnInv, Columns
  <2> QED
    BY <2>2, <2>3 DEF ImportAction
<1>3. n \in Name \cup {None} /\ n # None /\ TypeOK
  BY NamesAssumption DEF IInv
<1>4. /\ condName' \in [Action -> [CondId -> Name \cup {None}]] /\ n \in Conditions(a)'
      /\ \A b \in Action \ {a} : Conditions(b)' = Conditions(b)
  BY <1>1, <1>3, OneCondition
<1>5. ASSUME NEW b \in Action PROVE Offered(b) \subseteq Offered(b)'
  <2>1. Conditions(b) \subseteq Conditions(b)'
    BY <1>1, <1>4
  <2>2. Columns \cup attrs \subseteq Columns' \cup attrs'
    BY <1>1, <1>2
  <2> QED
    BY <2>1, <2>2 DEF Offered
<1>6. known \subseteq Offered(a)'
  <2>1. Escaped("if", n) \in Offered(a)' /\ Escaped("var", u) \in Offered(a)'
    BY <1>2, <1>4 DEF Offered
  <2> QED
    BY <1>5, <2>1
<1>7. L[a] = Mention \ known
  BY DEF In
<1> HIDE DEF L, known
<1>8. text' \in [Action -> Text] /\ tab' \in [Tab -> Page] /\ PageInv'
      /\ \A b \in Action \ {a} : text'[b] = text[b]
  BY <1>1 DEF IInv, TypeOK, PageInv
<1>9. ASSUME NEW b \in Action PROVE Mentioned(b)' \subseteq Offered(b)' \cup gone[b] \cup L[b]
  <2>1. CASE b = a
    <3>1. Mentioned(a)' \subseteq Mention
      BY <1>8, MentionedType
    <3> QED
      BY <1>6, <1>7, <2>1, <3>1
  <2>2. CASE b # a
    <3>1. Mentioned(b)' = Mentioned(b)
      BY <1>1, <1>8, <2>2 DEF Mentioned, Shown
    <3> QED
      BY <1>5, <3>1 DEF IInv, MentionInv, Covered
  <2> QED
    BY <2>1, <2>2
<1>10. gone' \in [Action -> SUBSET Mention] /\ MentionInv'
  BY <1>1, <1>8, <1>9, GivenUp
<1> QED
  BY <1>1, <1>2, <1>4, <1>8, <1>10 DEF IInv, TypeOK

-----------------------------------------------------------------------------
(* The theorems.                                                           *)

LEMMA ColumnStepInv == ASSUME IInv, ColumnStep PROVE IInv'
BY ColumnAddInv, ColumnEditInv, ColumnDeleteInv, FlushInv DEF ColumnStep

LEMMA CopyStepInv == ASSUME IInv, CopyStep PROVE IInv'
BY ConditionCloneInv, ImportActionInv DEF CopyStep

LEMMA NextInv == IInv /\ [Next]_vars => IInv'
<1> SUFFICES ASSUME IInv, [Next]_vars PROVE IInv'
  OBVIOUS
<1>1. CASE UNCHANGED vars
  <2>1. \A a \in Action : Mentioned(a)' = Mentioned(a) /\ Covered(a)' = Covered(a)
    BY <1>1 DEF vars, Mentioned, Shown, Covered, Offered, Conditions, Columns
  <2> QED
    BY <1>1, <2>1 DEF vars, IInv, TypeOK, PageInv, ColumnInv, MentionInv
<1>2. CASE Next
  BY <1>2, ColumnStepInv, CopyStepInv, AttributeCreateInv, OpenTextInv, EditInv, SaveContentInv,
     CloseInv, OpenAttributeInv, AttributeEditInv, AttributeDeleteInv,
     ConditionCreateInv, ConditionEditInv, ConditionDeleteInv DEF Next
<1> QED
  BY <1>1, <1>2

\* The inductive invariant: types, pages, and that all a text mentions, stored
\* or shown, is offered or given up (save_condition_form, rename_df_column).
THEOREM NamesInvariant == Spec => []IInv
<1>1. Init => IInv
  BY InitInv
<1>2. IInv /\ [Next]_vars => IInv'
  BY NextInv
<1> QED
  BY <1>1, <1>2, PTL DEF Spec

\* Every variable keeps its type, texts their bound, whatever is renamed.
THEOREM NamesTypeCorrect == Spec => []TypeOK
<1>1. IInv => TypeOK
  BY DEF IInv
<1> QED
  BY <1>1, NamesInvariant, PTL

\* A saved text mentions something that exists, but for what was deleted, or
\* renamed while a page showed it or by names that HTML escapes, or was an
\* attribute, or came with a file (rename_df_column, Action.rename_variable,
\* save_condition_form).
THEOREM TextsMentionWhatExists == Spec => []MentionsDefined
<1>1. ASSUME IInv, NEW a \in Action, NEW m \in text[a], m \notin gone[a] PROVE Defined(a, m)
  <2>1. m \in Offered(a)
    BY <1>1, CoveredParts DEF Covered
  <2>2. ASSUME NEW n \in Columns \cup attrs, m = Escaped("var", n) PROVE Defined(a, m)
    BY <2>2 DEF Escaped, Defined
  <2>3. ASSUME NEW n \in Conditions(a), m = Escaped("if", n) PROVE Defined(a, m)
    BY <2>3 DEF Escaped, Defined
  <2> QED
    BY <2>1, <2>2, <2>3 DEF Offered
<1>2. IInv => MentionsDefined
  BY <1>1 DEF MentionsDefined
<1> QED
  BY <1>2, NamesInvariant, PTL

\* No form about attributes or conditions makes two names overlap, whatever is
\* open in which tab: their checks cover each other (save_attribute_form,
\* save_condition_form, AttributeItemForm.clean).
THEOREM OverlapsComeFromUnchecked == Spec => OverlapFromUnchecked
<1>1. ASSUME IInv, NamesDistinct, Next PROVE ColumnStep \/ CopyStep \/ NamesDistinct'
  <2>1. ASSUME NEW n \in Name, AttributeCreate(n) PROVE NamesDistinct'
    <3>1. n \notin Columns \cup AllConditions /\ attrs' = attrs \cup {n}
      BY <2>1 DEF AttributeCreate, FreeForAttribute
    <3>2. Columns' = Columns /\ AllConditions' = AllConditions
      BY <2>1 DEF AttributeCreate, Columns, AllConditions, Conditions
    <3> QED
      BY <1>1, <3>1, <3>2 DEF NamesDistinct
  <2>2. ASSUME NEW t \in Tab, NEW n \in Name, AttributeEdit(t, n) PROVE NamesDistinct'
    <3>1. n \notin Columns \cup AllConditions /\ attrs' \subseteq attrs \cup {n}
      BY <2>2 DEF AttributeEdit, FreeForAttribute
    <3>2. Columns' = Columns /\ AllConditions' = AllConditions
      BY <2>2 DEF AttributeEdit, Columns, AllConditions, Conditions
    <3> QED
      BY <1>1, <3>1, <3>2 DEF NamesDistinct
  <2>3. ASSUME NEW t \in Tab, AttributeDelete(t) PROVE NamesDistinct'
    <3>1. attrs' \subseteq attrs
      BY <2>3 DEF AttributeDelete
    <3>2. Columns' = Columns /\ AllConditions' = AllConditions
      BY <2>3 DEF AttributeDelete, Columns, AllConditions, Conditions
    <3> QED
      BY <1>1, <3>1, <3>2 DEF NamesDistinct
  <2>4. ASSUME NEW a \in Action, NEW k \in CondId, NEW n \in Name \cup {None},
               condName' = [condName EXCEPT ![a][k] = n], UNCHANGED <<colName, attrs>>,
               n \in Columns \cup attrs => n = None
        PROVE  NamesDistinct'
    <3>1. \A b \in Action : Conditions(b)' \subseteq Conditions(b) \cup ({n} \ {None})
      BY <1>1, <2>4, OneCondition DEF IInv
    <3>2. AllConditions' \subseteq AllConditions \cup ({n} \ {None})
      BY <3>1 DEF AllConditions
    <3>3. Columns' = Columns
      BY <2>4 DEF Columns
    <3> QED
      BY <1>1, <2>4, <3>2, <3>3 DEF NamesDistinct
  <2>5. ASSUME NEW t \in Tab, NEW k \in CondId, NEW n \in Name,
               ConditionCreate(t, k, n) \/ ConditionEdit(t, k, n)
        PROVE  NamesDistinct'
    <3>1. PICK a \in Action : a = tab[t].action
      BY <1>1, <2>5, PageOfText DEF ConditionCreate, ConditionEdit
    <3>2. /\ condName' = [condName EXCEPT ![a][k] = n] /\ UNCHANGED <<colName, attrs>>
          /\ n \notin Columns \cup attrs
      BY <2>5, <3>1 DEF ConditionCreate, ConditionEdit, FreeForCondition
    <3> QED
      BY <2>4, <3>2
  <2>6. ASSUME NEW t \in Tab, NEW k \in CondId, ConditionDelete(t, k) PROVE NamesDistinct'
    <3>1. PICK a \in Action : a = tab[t].action
      BY <1>1, <2>6, PageOfText DEF ConditionDelete
    <3>2. condName' = [condName EXCEPT ![a][k] = None] /\ UNCHANGED <<colName, attrs>>
      BY <2>6, <3>1 DEF ConditionDelete
    <3> QED
      BY <2>4, <3>2
  <2>7. ASSUME NEW t \in Tab,
               \/ \E a \in Action : OpenText(t, a)
               \/ \E m \in Mention : Edit(t, m)
               \/ SaveContent(t) \/ Close(t)
               \/ \E i \in 1..MaxAttrs : OpenAttribute(t, i)
        PROVE  NamesDistinct'
    <3>1. UNCHANGED <<colName, attrs, condName>>
      BY <2>7 DEF OpenText, Edit, SaveContent, Close, OpenAttribute
    <3> QED
      BY <1>1, <3>1 DEF NamesDistinct, Columns, AllConditions, Conditions
  <2> QED
    BY <1>1, <2>1, <2>2, <2>3, <2>5, <2>6, <2>7 DEF Next
<1>2. IInv /\ [Next]_vars => [NamesDistinct /\ ~NamesDistinct' => ColumnStep \/ CopyStep]_vars
  BY <1>1
<1> QED
  BY <1>2, NamesInvariant, PTL DEF Spec, OverlapFromUnchecked

\* The mentions of a column that is renamed, and the others.
LEMMA Exchanged ==
  ASSUME NEW T, NEW from, NEW to, to \notin T, from # to
  PROVE  /\ to \in Substitute(T, from, to) <=> from \in T
         /\ \A m : m \notin {from, to} => (m \in Substitute(T, from, to) <=> m \in T)
BY DEF Substitute

LEMMA DifferentMentions ==
  ASSUME NEW f, NEW g, NEW m, NEW n, f # g \/ m # n
  PROVE  Escaped(f, m) # Escaped(g, n)
BY DEF Escaped

\* The name of a column changes when the column is edited.
LEMMA RenamedByEdit ==
  ASSUME IInv, Next, NEW c \in ColId, colName[c] # None, colName'[c] \notin {colName[c], None}
  PROVE  colName'[c] \in Name /\ ColumnEdit(c, colName'[c])
<1>1. colName \in [ColId -> Name \cup {None}]
  BY DEF IInv, TypeOK
<1>2. ASSUME NEW d \in ColId, NEW n \in Name, ColumnEdit(d, n) PROVE d = c /\ n = colName'[c]
  BY <1>1, <1>2 DEF ColumnEdit
<1>3. ASSUME NEW d \in ColId, NEW n \in Name, ColumnAdd(d, n) PROVE FALSE
  BY <1>1, <1>3 DEF ColumnAdd
<1>4. ASSUME NEW d \in ColId, NEW used \in [Action -> SUBSET CondId], ColumnDelete(d, used) PROVE FALSE
  BY <1>1, <1>4 DEF ColumnDelete
<1>5. ~Flush
  BY DEF Flush
<1>6. ASSUME NEW a \in Action, NEW k \in CondId, NEW n \in Name, NEW u \in Name, NEW T \in Text,
             ImportAction(a, k, n, u, T)
      PROVE  FALSE
  BY <1>1, <1>6 DEF ImportAction
<1>7. ~ColumnStep /\ ~CopyStep => colName' = colName
  BY DEF Next, AttributeCreate, OpenText, Edit, SaveContent, Close, OpenAttribute,
         AttributeEdit, AttributeDelete, ConditionCreate, ConditionEdit, ConditionDelete
<1>8. CopyStep => colName' = colName
  BY <1>6 DEF CopyStep, ConditionClone
<1> QED
  BY <1>2, <1>3, <1>4, <1>5, <1>7, <1>8 DEF ColumnStep

\* Renaming a column changes the meaning of no text, where names do not overlap
\* and the new name is one that the text can be found by
\* (Action.rename_variable).
THEOREM RenamingKeepsMeaning == Spec => RenameKeepsMeaning
<1> DEFINE Kept(c, a) ==
             LET new == colName'[c] IN
             /\ NamesDistinct /\ NamesDistinct'
             /\ colName[c] # None /\ new \notin {colName[c], None} \cup Special
             /\ Escaped("var", new) \notin gone[a]
             => Meaning(a)' = Meaning(a)
<1>1. ASSUME IInv, Next, NEW c \in ColId, NEW a \in Action, NamesDistinct, NamesDistinct',
             colName[c] # None, colName'[c] \notin {colName[c], None} \cup Special,
             Escaped("var", colName'[c]) \notin gone[a]
      PROVE  Meaning(a)' = Meaning(a)
  <2> DEFINE old == colName[c]
             new == colName'[c]
             from == Escaped("var", old)
             to == Escaped("var", new)
  <2>1. new \in Name /\ ColumnEdit(c, new)
    BY <1>1, RenamedByEdit
  <2>2. UNCHANGED <<attrs, condName>> /\ text'[a] = Substitute(text[a], from, to) /\ old # new
    BY <1>1, <2>1 DEF ColumnEdit, Written
  <2>3. /\ old \in Columns /\ new \in Columns' /\ new \notin Columns
        /\ \A d \in ColId \ {c} : colName'[d] = colName[d]
        /\ \A d \in ColId \ {c} : colName[d] # None => colName[d] \notin {old, new}
    <3>1. new \in Columns' /\ \A d \in ColId \ {c} : colName'[d] = colName[d]
      BY <1>1, <2>1, OneColumn
    <3>2. old \in Columns /\ new \notin Columns
      BY <1>1, <2>1 DEF ColumnEdit, FreeForColumn, Columns
    <3>3. \A d \in ColId \ {c} : colName[d] # None => colName[d] # old
      BY <1>1 DEF IInv, ColumnInv
    <3>4. \A d \in ColId : colName[d] # None => colName[d] # new
      BY <3>2 DEF Columns
    <3> QED
      BY <3>1, <3>2, <3>3, <3>4
  <2>4. old \notin attrs /\ new \notin attrs
    BY <1>1, <2>2, <2>3 DEF NamesDistinct
  <2> HIDE DEF old, new
  <2>5. to \notin text[a] /\ from # to
    <3>1. \A n \in Columns \cup attrs : Escaped("var", n) # to
      BY <2>3, <2>4, DifferentMentions
    <3>2. \A n \in Conditions(a) : Escaped("if", n) # to
      BY DifferentMentions
    <3>3. to \notin Offered(a)
      BY <3>1, <3>2 DEF Offered
    <3>4. to \notin gone[a]
      BY <1>1 DEF new
    <3> QED
      BY <1>1, <2>2, <3>3, <3>4, CoveredParts, DifferentMentions DEF Covered
  <2>6. /\ to \in text'[a] <=> from \in text[a]
        /\ \A m : m \notin {from, to} => (m \in text'[a] <=> m \in text[a])
    BY <2>2, <2>5, Exchanged
  <2>7. \A d \in ColId :
          (colName'[d] # None /\ Escaped("var", colName'[d]) \in text'[a]) <=>
          (colName[d] # None /\ Escaped("var", colName[d]) \in text[a])
    <3>1. ASSUME NEW d \in ColId, d # c, colName[d] # None
          PROVE  Escaped("var", colName[d]) \in text'[a] <=> Escaped("var", colName[d]) \in text[a]
      <4>1. Escaped("var", colName[d]) \notin {from, to}
        BY <2>3, <3>1, DifferentMentions
      <4> QED
        BY <2>6, <4>1
    <3>2. colName[c] = old /\ colName'[c] = new /\ old # None /\ new # None
      BY <1>1 DEF old, new
    <3> QED
      BY <2>3, <2>6, <3>1, <3>2
  <2>8. \A n \in attrs : Escaped("var", n) \in text'[a] <=> Escaped("var", n) \in text[a]
    <3>1. \A n \in attrs : Escaped("var", n) \notin {from, to}
      BY <2>4, DifferentMentions
    <3> QED
      BY <2>6, <3>1
  <2>9. \A n : Escaped("if", n) \in text'[a] <=> Escaped("if", n) \in text[a]
    <3>1. \A n : Escaped("if", n) \notin {from, to}
      BY DifferentMentions
    <3> QED
      BY <2>6, <3>1
  <2> QED
    BY <2>2, <2>7, <2>8, <2>9 DEF Meaning
<1>2. IInv /\ [Next]_vars => [\A c \in ColId, a \in Action : Kept(c, a)]_vars
  BY <1>1
<1> HIDE DEF Kept
<1>3. Spec => [][\A c \in ColId, a \in Action : Kept(c, a)]_vars
  BY <1>2, NamesInvariant, PTL DEF Spec
<1> QED
  BY <1>3 DEF RenameKeepsMeaning, Kept

=============================================================================
