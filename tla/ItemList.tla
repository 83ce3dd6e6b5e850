------------------------------ MODULE ItemList ------------------------------
(***************************************************************************)
(* What a list of the list system promises its callers: a sequence of      *)
(* distinct items that can be extended at the end, extended in front of a  *)
(* given item, shortened at any item and emptied.  Nothing here mentions   *)
(* links; Ring.tla is the linked representation list.c and list.h build.   *)
(***************************************************************************)
EXTENDS Sequences, Naturals

CONSTANT Items

VARIABLE order   \* the items of the list, first to last

IndexOf(s, i) == CHOOSE k \in 1..Len(s) : s[k] = i
Holds(s)      == {s[k] : k \in 1..Len(s)}

(***************************************************************************)
(* InsertedAt(s, k, i): i becomes the k-th item, the later ones move up.   *)
(* RemovedAt(s, k): the k-th item leaves, the later ones move down.        *)
(***************************************************************************)
InsertedAt(s, k, i) ==
  [n \in 1..(Len(s) + 1) |-> IF n < k THEN s[n] ELSE IF n = k THEN i ELSE s[n - 1]]
RemovedAt(s, k) ==
  [n \in 1..(Len(s) - 1) |-> IF n < k THEN s[n] ELSE s[n + 1]]

Init == order = << >>

Insert(k, i) ==
  /\ i \notin Holds(order)
  /\ k \in 1..(Len(order) + 1)
  /\ order' = InsertedAt(order, k, i)

Remove(k) ==
  /\ k \in 1..Len(order)
  /\ order' = RemovedAt(order, k)

\* An item of the list changes its place.
Move(j, k) ==
  /\ j \in 1..Len(order) /\ k \in 1..Len(order)
  /\ order' = InsertedAt(RemovedAt(order, j), k, order[j])

Free == order' = << >>

Next ==
  \/ \E i \in Items, k \in 1..(Len(order) + 1) : Insert(k, i)
  \/ \E k \in 1..Len(order) : Remove(k)
  \/ \E j, k \in 1..Len(order) : Move(j, k)
  \/ Free

Spec == Init /\ [][Next]_order
=============================================================================
