----------------------------- MODULE RingOrder ------------------------------
(***************************************************************************)
(* A list that is changed and sorted: Ring and ListOrder together.  The    *)
(* sort knows the list by its links alone: its two loops start at          *)
(* Last->Next and go along Next until they are back there.  ListOrder      *)
(* counts places; AtPlaces says that it may.                               *)
(*                                                                         *)
(* Between two sorts ListOrder's variables stand for a list of one item    *)
(* that has been sorted: nothing of a sort outlives the call.              *)
(***************************************************************************)
EXTENDS ListLookup, ListOrder

VARIABLES pa, pb   \* a and b of ListOrderByData; NULL when no sort runs

allVars == <<vars, orderVars, pa, pb>>

OnePlace ==
  LET d == CHOOSE d \in Data : TRUE
  IN [ties |-> FALSE, n |-> 1, item |-> <<d>>, from |-> <<1>>]

NoSort ==
  /\ ties = OnePlace.ties /\ n = OnePlace.n /\ item = OnePlace.item
  /\ a = 1 /\ b = 1 /\ done = TRUE
  /\ first = OnePlace.item /\ from = OnePlace.from
  /\ pa = NULL /\ pb = NULL

ListInit == Init /\ NoSort

\* list.c does not poll: while a sort runs, nobody else has the list.
ListOperation ==
  /\ pa = NULL
  /\ Step
  /\ UNCHANGED <<orderVars, pa, pb>>

\* ListOrderByData is called on a list with any contents.
SortCall ==
  /\ pa = NULL /\ cursor = NULL /\ Last # NULL
  /\ Len(order) \in Lengths
  /\ ties' \in BOOLEAN
  /\ n' = Len(order)
  /\ item' \in [1..Len(order) -> Data]
  /\ a' = 1 /\ b' = 1 /\ done' = FALSE
  /\ first' = item' /\ from' = [i \in 1..Len(order) |-> i]
  /\ pa' = Next[Last] /\ pb' = Next[Last]
  /\ UNCHANGED vars

\* Mutant of Loops: the outer loop ends at Last, as it would with a test before its last round.
LoopsToLast ==
  LET c == Next[Last]
  IN \/ Next[pb] # c /\ pb' = Next[pb] /\ UNCHANGED pa
     \/ Next[pb] = c /\ pa # Prev[Last] /\ pa' = Next[pa] /\ pb' = pa'
     \/ Next[pb] = c /\ pa = Prev[Last] /\ pa' = c /\ pb' = c

\* b = b->Next until c, then a = a->Next until c.
Loops ==
  LET c == Next[Last]
  IN \/ Next[pb] # c /\ pb' = Next[pb] /\ UNCHANGED pa
     \/ Next[pb] = c /\ Next[pa] # c /\ pa' = Next[pa] /\ pb' = pa'
     \/ Next[pb] = c /\ Next[pa] = c /\ pa' = c /\ pb' = c

SortStep ==
  /\ pa # NULL /\ ~done
  /\ Compare
  /\ Loops
  /\ UNCHANGED vars

SortReturns ==
  /\ pa # NULL /\ done
  /\ ties' = OnePlace.ties /\ n' = OnePlace.n /\ item' = OnePlace.item
  /\ a' = 1 /\ b' = 1 /\ UNCHANGED done
  /\ first' = OnePlace.item /\ from' = OnePlace.from
  /\ pa' = NULL /\ pb' = NULL
  /\ UNCHANGED vars

ListNext == ListOperation \/ SortCall \/ SortStep \/ SortReturns

\* The loops of list.c run to their ends.
ListSpec ==
  /\ ListInit /\ [][ListNext]_allVars
  /\ WF_allVars(pa = NULL /\ FreeListStep /\ UNCHANGED <<orderVars, pa, pb>>)
  /\ WF_allVars(SortStep)
-----------------------------------------------------------------------------
(***************************************************************************)
(* The pointers of the sort are at the items ListOrder counts, and back at *)
(* the first one together when it is done: its loops visit each pair of    *)
(* items once, whatever insertions, removals and drops made the ring       *)
(* (list.c:241-261).                                                       *)
(***************************************************************************)
AtPlaces ==
  pa # NULL =>
    IF done THEN pa = order[1] /\ pb = order[1]
    ELSE n = Len(order) /\ pa = order[a] /\ pb = order[b]

\* Whoever goes along the links of a list, to look up or to sort, meets its items at their places.
WalksAgree == AtPlaces /\ IndexRoundTrip

\* Every loop of list.c over a list comes back to where it began.
ListCallsEnd == FreeListEnds /\ OrderEnds
=============================================================================
