-------------------------------- MODULE Ring --------------------------------
(***************************************************************************)
(* The linked list of list.h and list.c (PBList, PSList and PList share    *)
(* it): a circle of items with one pointer, Last, into it.  Timers,        *)
(* applications, symbols, registry keys and widgets are all kept in such   *)
(* circles.                                                                *)
(*                                                                         *)
(* "order" is a history variable: the sequence the callers of the list     *)
(* believe in, changed as ItemList.tla says.  RingInv relates it to the    *)
(* links, so that a wrong link assignment shows as a violation.            *)
(*                                                                         *)
(* The code checks none of its arguments; that an item added is in no list *)
(* and an item removed is in this one is the callers' obligation and is a  *)
(* guard here.                                                             *)
(***************************************************************************)
EXTENDS Integers, Sequences

CONSTANTS Items, NULL

ASSUME NullAssumption == NULL \notin Items

VARIABLES
  Last,      \* PBList.Last: the last item, or NULL when the list is empty
  Next,      \* PBListItem.Next of every item (kept when an item leaves)
  Prev,      \* PBListItem.Prev of every item (kept when an item leaves)
  order,     \* history: the list as a sequence
  cursor,    \* "a" of FreeList while it runs, NULL otherwise
  freed      \* the items FreeList has freed so far

vars == <<Last, Next, Prev, order, cursor, freed>>

Abs == INSTANCE ItemList

Members == Abs!Holds(order)

Init ==
  /\ Last = NULL
  /\ Next \in [Items -> {NULL}]
  /\ Prev \in [Items -> {NULL}]
  /\ order = << >>
  /\ cursor = NULL
  /\ freed = {}

Idle == cursor = NULL /\ UNCHANGED <<cursor, freed>>
-----------------------------------------------------------------------------
(***************************************************************************)
(* The link assignments, on a ring given by its three parts.               *)
(***************************************************************************)
Alone(i, nx, pv) == [last |-> i, next |-> [nx EXCEPT ![i] = i], prev |-> [pv EXCEPT ![i] = i]]

\* Mutant of LinkBefore: b->Prev is not assigned.
LinkBeforeOneWay(i, b, last, nx, pv) ==
  [last |-> last, next |-> [[nx EXCEPT ![i] = b] EXCEPT ![pv[b]] = i],
   prev |-> [pv EXCEPT ![i] = pv[b]]]

\* i goes between b and the item before b; Last does not move.
LinkBefore(i, b, last, nx, pv) ==
  LET p  == pv[b]
      n1 == [nx EXCEPT ![i] = b]
      p1 == [pv EXCEPT ![i] = p]
  IN [last |-> last, next |-> [n1 EXCEPT ![p] = i], prev |-> [p1 EXCEPT ![b] = i]]

\* i goes behind the last item and becomes the last one.
LinkLast(i, last, nx, pv) ==
  IF last = NULL THEN Alone(i, nx, pv)
  ELSE LET f  == nx[last]
           n1 == [nx EXCEPT ![i] = f]
           p1 == [pv EXCEPT ![i] = last]
       IN [last |-> i, next |-> [n1 EXCEPT ![last] = i], prev |-> [p1 EXCEPT ![f] = i]]

\* The neighbours of i are linked to each other; i keeps its own links.
Unlink(i, last, nx, pv) ==
  IF nx[i] = i THEN [last |-> NULL, next |-> nx, prev |-> pv]
  ELSE [last |-> IF last = i THEN pv[i] ELSE last,
        next |-> [nx EXCEPT ![pv[i]] = nx[i]],
        prev |-> [pv EXCEPT ![nx[i]] = pv[i]]]

Becomes(r) == Last' = r.last /\ Next' = r.next /\ Prev' = r.prev
-----------------------------------------------------------------------------
(***************************************************************************)
(* The operations.                                                         *)
(***************************************************************************)
\* BListAddItem, and ListAddItemBefore without a place.
AddItem(i) ==
  /\ Idle
  /\ i \notin Members
  /\ Becomes(LinkLast(i, Last, Next, Prev))
  /\ order' = Append(order, i)

\* ListAddItemBefore with a place b in the list.
AddItemBefore(i, b) ==
  /\ Idle
  /\ i \notin Members /\ b \in Members
  /\ Becomes(LinkBefore(i, b, Last, Next, Prev))
  /\ order' = Abs!InsertedAt(order, Abs!IndexOf(order, b), i)

\* BListRemoveItemEx
RemoveItem(i) ==
  /\ Idle
  /\ i \in Members
  /\ Becomes(Unlink(i, Last, Next, Prev))
  /\ order' = Abs!RemovedAt(order, Abs!IndexOf(order, i))

(***************************************************************************)
(* A list view drops the dragged item b behind the pointed item a: it      *)
(* removes b, moves Last to b itself when a is the last item, and asks for *)
(* b to be inserted before a->Next.  A drop above an item is a RemoveItem  *)
(* and an AddItemBefore; one over no item is not modelled where the view   *)
(* points behind it (a is then NULL), and appends b otherwise.             *)
(***************************************************************************)
DropBehind(b, a) ==
  /\ Idle
  /\ a \in Members /\ b \in Members /\ a # b
  /\ LET r == Unlink(b, Last, Next, Prev)
         l == IF a = r.last THEN b ELSE r.last
     IN Becomes(LinkBefore(b, r.next[a], l, r.next, r.prev))
  /\ LET s == Abs!RemovedAt(order, Abs!IndexOf(order, b))
     IN order' = Abs!InsertedAt(s, Abs!IndexOf(s, a) + 1, b)

(***************************************************************************)
(* FreeList and KickList walk backwards from Last, reading a->Prev before  *)
(* a is freed, until they are back at the item they started from.          *)
(***************************************************************************)
FreeListStart ==
  /\ cursor = NULL /\ Last # NULL
  /\ cursor' = Last
  /\ UNCHANGED <<Last, Next, Prev, order, freed>>

\* Mutant of FreeListStep: the walk ends one item early.
FreeListStepEarly ==
  /\ cursor # NULL
  /\ IF Prev[cursor] # Next[Last]
     THEN /\ cursor' = Prev[cursor]
          /\ freed' = freed \cup {cursor}
          /\ UNCHANGED <<Last, order>>
     ELSE cursor' = NULL /\ freed' = {} /\ Last' = NULL /\ order' = << >>
  /\ UNCHANGED <<Next, Prev>>

\* Mutant of FreeListStep: the first item stays behind, alone.
FreeListStepKeepsFirst ==
  /\ cursor # NULL
  /\ IF Prev[cursor] # Last
     THEN /\ cursor' = Prev[cursor]
          /\ freed' = freed \cup {cursor}
          /\ UNCHANGED <<Last, Next, Prev, order>>
     ELSE /\ Becomes(Alone(cursor, Next, Prev))
          /\ order' = <<cursor>> /\ cursor' = NULL /\ freed' = {}

FreeListStep ==
  /\ cursor # NULL
  /\ LET n == Prev[cursor]
     IN IF n # Last
        THEN /\ cursor' = n
             /\ freed' = freed \cup {cursor}
             /\ UNCHANGED <<Last, order>>
        ELSE /\ cursor' = NULL   \* the list itself is freed; a new one is empty
             /\ freed' = {}
             /\ Last' = NULL
             /\ order' = << >>
  /\ UNCHANGED <<Next, Prev>>

Step ==
  \/ \E i \in Items : AddItem(i)
  \/ \E i, b \in Items : AddItemBefore(i, b)
  \/ \E i \in Items : RemoveItem(i)
  \/ \E a, b \in Items : DropBehind(b, a)
  \/ FreeListStart
  \/ FreeListStep

Spec == Init /\ [][Step]_vars
FairSpec == Spec /\ WF_vars(FreeListStep)
-----------------------------------------------------------------------------
(***************************************************************************)
(* Properties.                                                             *)
(***************************************************************************)
\* Every variable has its type: the variables of TBList and TBListItem.
TypeOK ==
  /\ Last \in Items \cup {NULL}
  /\ Next \in [Items -> Items \cup {NULL}]
  /\ Prev \in [Items -> Items \cup {NULL}]
  /\ order \in Seq(Items)
  /\ cursor \in Items \cup {NULL}
  /\ freed \in SUBSET Items

After(k)  == IF k = Len(order) THEN 1 ELSE k + 1
Before(k) == IF k = 1 THEN Len(order) ELSE k - 1

\* No item is in the list twice.
Distinct == \A j, k \in 1..Len(order) : order[j] = order[k] => j = k

(***************************************************************************)
(* The links and Last represent the sequence the callers believe in: Last  *)
(* is its last item, Next and Prev lead to the neighbours and close the    *)
(* circle.  Every walk of the program (do ... while ( a != b )) relies on  *)
(* it, in both directions.                                                 *)
(***************************************************************************)
Represents ==
  /\ IF order = << >> THEN Last = NULL ELSE Last = order[Len(order)]
  /\ \A k \in 1..Len(order) : /\ Next[order[k]] = order[After(k)]
                              /\ Prev[order[k]] = order[Before(k)]

RingInv == Distinct /\ Represents

(***************************************************************************)
(* FreeList frees no item twice and reads no link of an item it has freed: *)
(* what it has freed is exactly what lies behind the cursor.               *)
(***************************************************************************)
FreedBehindCursor ==
  IF cursor = NULL THEN freed = {}
  ELSE \E k \in 1..Len(order) : /\ cursor = order[k]
                                /\ freed = {order[j] : j \in (k + 1)..Len(order)}

\* FreeList ends only with every item of the list freed (list.c, FreeList).
FreeListFreesAll ==
  [][cursor # NULL /\ cursor' = NULL => freed \cup {cursor} = Members]_vars

\* FreeList comes to its end: the circle leads it back to where it started.
FreeListEnds == cursor # NULL ~> cursor = NULL

\* FreeList and KickList follow no freed link, and free each item of the list once.
FreesAllOnce == []FreedBehindCursor /\ FreeListFreesAll
=============================================================================
