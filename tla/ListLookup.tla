----------------------------- MODULE ListLookup -----------------------------
(***************************************************************************)
(* What the walks over a list return: ListAtItem, ListFoundIndex, and the  *)
(* sequence of items a forward walk visits.  The walks start at            *)
(* Last->Next and go on until they are back there; they are defined on the *)
(* links alone, so that "the walk sees the sequence" is a statement about  *)
(* the links.                                                              *)
(***************************************************************************)
EXTENDS Ring, FiniteSets

\* Items are blocks of memory: there are finitely many.
ASSUME ItemsAssumption == IsFiniteSet(Items)

\* The k-th item a forward walk meets; NULL once it has fallen off a broken ring.
Met ==
  LET met[k \in 1..(Cardinality(Items) + 1)] ==
        IF k = 1 THEN Next[Last]
        ELSE IF met[k - 1] = NULL THEN NULL ELSE Next[met[k - 1]]
  IN met

\* How many items the loop "do ... while ( a != b )" visits; 0: it never returns.
Round ==
  IF \E m \in 1..Cardinality(Items) : Met[m + 1] = Met[1]
  THEN CHOOSE m \in 1..Cardinality(Items) :
         Met[m + 1] = Met[1] /\ \A j \in 2..m : Met[j] # Met[1]
  ELSE 0

Walk == IF Last = NULL THEN << >> ELSE [k \in 1..Round |-> Met[k]]

\* ListAtItem: the Index-th item, counted from 1 (Index is unsigned: 0 counts down for ever).
ListAtItem(Index) == IF Index \in 1..Len(Walk) THEN Walk[Index] ELSE NULL

\* ListFoundIndex, of the item that holds the data looked for; -1 is what 2^32-1 compares to.
ListFoundIndex(i) ==
  IF Last = NULL THEN 0
  ELSE IF i \in Abs!Holds(Walk)
       THEN CHOOSE k \in 1..Len(Walk) : Walk[k] = i /\ \A j \in 1..(k - 1) : Walk[j] # i
       ELSE -1
-----------------------------------------------------------------------------
(***************************************************************************)
(* ListAtItem and ListFoundIndex are inverse to each other on a list that  *)
(* is not empty, whatever sequence of insertions, removals and drops made  *)
(* it: GetIndexItem and ListviewSelectIndex (listview.c) depend on it.     *)
(***************************************************************************)
IndexRoundTrip ==
  Last # NULL =>
    /\ \A i \in Members : ListAtItem(ListFoundIndex(i)) = i
    /\ \A k \in 0..(Cardinality(Items) + 1) :
         IF k \in 1..Len(order) THEN ListFoundIndex(ListAtItem(k)) = k ELSE ListAtItem(k) = NULL

(***************************************************************************)
(* The links implement the abstract list: seen through a forward walk,     *)
(* every operation of list.c is one operation of ItemList or no change.    *)
(***************************************************************************)
Walked == INSTANCE ItemList WITH order <- Walk
ImplementsItemList == Walked!Spec
=============================================================================
