----------------------------- MODULE ListOrder ------------------------------
(***************************************************************************)
(* ListOrderByData and ListOrderByItem: an exchange sort in the ring.  The *)
(* items stay where they are linked; what follows their Next and Prev      *)
(* (Data, DataType, Key, FreeData) is exchanged.                           *)
(*                                                                         *)
(* The comparators of this code rank what they compare: file views by size *)
(* or time answer 1 to equals (ties), those by name answer 0; the tree of  *)
(* directories answers -1 unless both are directories, so that files are   *)
(* not ranked.  An item without Data is not ranked either.                 *)
(*                                                                         *)
(* The list is not empty: the guard at list.c:240 joins its tests with &&  *)
(* and never refuses one, and Last->Next of an empty list is read.         *)
(***************************************************************************)
EXTENDS Integers

CONSTANTS
  Data,     \* what items hold; NULL may be among it
  Ranked,   \* the data the comparator ranks
  Rank,     \* their ranks
  Lengths   \* the lengths of the lists

ASSUME ComparatorAssumption ==
  Ranked \subseteq Data /\ Rank \in [Ranked -> Int]
ASSUME LengthAssumption == Lengths \subseteq Nat \ {0}

VARIABLES
  ties,    \* the comparator answers 1 to equals
  n,       \* the number of items
  item,    \* the contents of the items, from Last->Next to Last
  a, b,    \* the two places that are compared
  done,    \* it has returned
  first,   \* history: the contents at the call
  from     \* history: where the contents of each item were at the call

orderVars == <<ties, n, item, a, b, done, first, from>>
-----------------------------------------------------------------------------
OrderInit ==
  /\ ties \in BOOLEAN
  /\ n \in Lengths
  /\ item \in [1..n -> Data]
  /\ a = 1 /\ b = 1 /\ done = FALSE
  /\ first = item /\ from = [i \in 1..n |-> i]

\* comparator(x, y) > 0.
Above(x, y) ==
  /\ x \in Ranked /\ y \in Ranked
  /\ Rank[x] > Rank[y] \/ (ties /\ Rank[x] = Rank[y])

\* Mutant of Exchanged: the contents of a are lost.
ExchangedHalf(f) == [f EXCEPT ![a] = f[b]]

\* The three memcpy.
Exchanged(f) == [f EXCEPT ![a] = f[b], ![b] = f[a]]

\* Mutant of Onward: the outer loop begins anew.
OnwardAgain ==
  \/ b < n /\ b' = b + 1 /\ UNCHANGED <<a, done>>
  \/ b = n /\ a < n /\ a' = a + 1 /\ b' = a + 1 /\ UNCHANGED done
  \/ b = n /\ a = n /\ a' = 1 /\ b' = 1 /\ UNCHANGED done

\* b = b->Next until c, then a = a->Next until c.
Onward ==
  \/ b < n /\ b' = b + 1 /\ UNCHANGED <<a, done>>
  \/ b = n /\ a < n /\ a' = a + 1 /\ b' = a + 1 /\ UNCHANGED done
  \/ b = n /\ a = n /\ done' = TRUE /\ UNCHANGED <<a, b>>

\* One comparison, and the exchange it asks for.
Compare ==
  /\ ~done
  /\ IF Above(item[a], item[b])
     THEN item' = Exchanged(item) /\ from' = Exchanged(from)
     ELSE UNCHANGED <<item, from>>
  /\ Onward
  /\ UNCHANGED <<ties, n, first>>

\* The call alone; RingOrder makes it on a ring.
OrderSpec == OrderInit /\ [][Compare]_orderVars
-----------------------------------------------------------------------------
OrderTypeOK ==
  /\ ties \in BOOLEAN /\ n \in Lengths /\ item \in [1..n -> Data]
  /\ a \in 1..n /\ b \in a..n /\ done \in BOOLEAN
  /\ first \in [1..n -> Data] /\ from \in [1..n -> 1..n]

InOrder(i, j) ==
  item[i] \in Ranked /\ item[j] \in Ranked => Rank[item[i]] <= Rank[item[j]]

(***************************************************************************)
(* ListOrderByData leaves the list in the comparator's order, though it    *)
(* compares each item with itself, exchanges equals, and steps over items  *)
(* it does not compare (list.c:237-263).                                   *)
(***************************************************************************)
Sorted == done => \A i, j \in 1..n : i < j => InOrder(i, j)

(***************************************************************************)
(* No item's contents are lost or doubled by the exchanges, and what the   *)
(* comparator does not rank stays where it was (list.c:253-255).           *)
(***************************************************************************)
SameItems ==
  /\ \A i \in 1..n : item[i] = first[from[i]]
  /\ \A i, j \in 1..n : from[i] = from[j] => i = j
  /\ \A i \in 1..n : item[i] \notin Ranked => from[i] = i

(***************************************************************************)
(* While it works, what lies before a is in its place, and a holds the     *)
(* least of what it has been compared with.                                *)
(***************************************************************************)
Partly ==
  /\ \A i, j \in 1..n : i < a /\ i < j => InOrder(i, j)
  /\ \A j \in 1..n : a < j /\ j < b => InOrder(a, j)

\* The two loops end (list.c:258-261).
OrderEnds == ~done ~> done

\* What the two sorts are called for: the comparator's order, of the same contents.
SortsInPlace == Sorted /\ SameItems
=============================================================================
