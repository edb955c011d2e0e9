---------------------------- MODULE OrderedTable ----------------------------
(***************************************************************************)
(* What the user of the column views sees: a list of column names without  *)
(* repetition, into which a column is inserted, from which one is removed, *)
(* in which one is renamed and moved while the others keep their order,    *)
(* and which grows at the end when data is merged.                         *)
(***************************************************************************)
EXTENDS SequencesExt

CONSTANT Item       \* column names

VARIABLE order      \* the columns, in the order they are shown

Init == order = <<>>

Unused == Item \ Range(order)

Add(c, i) ==
    /\ c \in Unused
    /\ order' = InsertAt(order, i, c)

Delete(i) == order' = RemoveAt(order, i)

\* The i-th column becomes the j-th, under its own name or an unused one.
Relocate(i, j, c) ==
    /\ c \in Unused \cup {order[i]}
    /\ order' = InsertAt(RemoveAt(order, i), j, c)

\* New columns go after the existing ones.
Grow ==
    /\ order' \in Seq(Item)
    /\ IsStrictPrefix(order, order')
    /\ IsInjective(order')

Clear == order' = <<>>

Next ==
    \/ \E c \in Item, i \in 1..Len(order) + 1 : Add(c, i)
    \/ \E i \in DOMAIN order : Delete(i)
    \/ \E i, j \in DOMAIN order, c \in Item : Relocate(i, j, c)
    \/ Grow
    \/ Clear

Spec == Init /\ [][Next]_order
=============================================================================
