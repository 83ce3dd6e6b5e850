------------------------------ MODULE RectList ------------------------------
(***************************************************************************)
(* The lists of rectangles of metrics.c: the zones a widget has to draw.   *)
(* The ring is given as the sequence from its first to its last item (Ring *)
(* shows that the links amount to this); the walks keep their cursor and   *)
(* their count, because they change the list they walk.                    *)
(*                                                                         *)
(* "zone" is a history variable: the pixels the calls so far ask for.      *)
(***************************************************************************)
EXTENDS Rects

CONSTANTS
  Plane,    \* the pixels looked at, a set of points
  Inputs,    \* the rectangles the callers pass
  MaxLen     \* bound: no call is made on a list longer than this

VARIABLES
  list,      \* the list, from Last->ListNext to Last
  call,      \* what runs: "none", "removeH", "removeV" or "add"
  r,         \* its rectangle (of a removal; Nowhere when none runs)
  a,         \* its cursor, an index into list
  c,         \* its count of items still to visit
  adding,    \* the rectangles AddZoneInList is still to be called with
  zone       \* history: the pixels the list ought to cover

listVars == <<list, call, r, a, c, adding, zone>>

\* The callers pass rectangles with pixels, or Nowhere, which none of the others reaches: what
\* a widget shows is clipped to the desktop, which begins at 0, 0.
InputsOnScreen ==
  /\ Plane \subseteq Point /\ Inputs \subseteq Rect
  /\ \A w, e \in Inputs : NonEmpty(w) /\ ~NonEmpty(e) => ~RectOverlay(w, e)

ASSUME InputsAssumption == InputsOnScreen

PointsOf(rect) == {p \in Plane : PointInRect(p, rect)}
Covered(rects) == UNION {PointsOf(rect) : rect \in ToSet(rects)}

ListInit ==
  /\ list = << >> /\ zone = {}
  /\ call = "none" /\ r = Nowhere /\ a = 0 /\ c = 0 /\ adding = << >>

Idle == call = "none" /\ Len(list) <= MaxLen

\* The items of a sequence at the places in chosen, in their order.
Chosen(rects, chosen) ==
  LET upTo[n \in 0 .. Len(rects)] ==
        IF n = 0 THEN << >>
        ELSE upTo[n - 1] \o When(n \in chosen, rects[n])
  IN upTo[Len(rects)]

\* The rectangles of a sequence that _AddRectInList appends.
Kept(rects) == Chosen(rects, {i \in DOMAIN rects : NonEmpty(rects[i])})

\* Those for which RectOverlay(t, rect).
Met(rects, rect) == Chosen(rects, {i \in DOMAIN rects : RectOverlay(rects[i], rect)})

\* a = a->ListNext
Following(i) == IF i = Len(list) THEN 1 ELSE i + 1

\* The walks of metrics.c begin with the last item.
LastFirst == IF list = << >> THEN << >> ELSE <<Last(list)>> \o Front(list)
-----------------------------------------------------------------------------
NewListFromRect(rect) ==
  /\ Idle
  /\ list' = Kept(<<rect>>)
  /\ zone' = PointsOf(rect)
  /\ UNCHANGED <<call, r, a, c, adding>>

NewListFromRectList ==
  /\ Idle
  /\ list' = Kept(LastFirst)
  /\ UNCHANGED <<call, r, a, c, adding, zone>>

NewListFromRectListIntersept(rect) ==
  /\ Idle
  /\ LET met == Met(LastFirst, rect)
     IN list' = Kept([i \in DOMAIN met |-> RectIntersept(rect, met[i])])
  /\ zone' = zone \cap PointsOf(rect)
  /\ UNCHANGED <<call, r, a, c, adding>>

\* RemoveZoneInList (variant "removeH") and RemoveZoneInListV ("removeV").
RemoveZone(rect, variant) ==
  /\ Idle
  /\ zone' = zone \ PointsOf(rect)
  /\ IF list = << >> THEN UNCHANGED <<call, r, a, c>>
     ELSE call' = variant /\ r' = rect /\ a' = Len(list) /\ c' = Len(list)
  /\ UNCHANGED <<list, adding>>

Pieces(t, rect) ==
  Kept(IF call = "removeH" THEN AddBminusAHPref(t, rect) ELSE AddBminusAVPref(t, rect))

\* The end of a round: c--, and out of the loop when nothing is left to visit.
Counted ==
  /\ c' = c - 1
  /\ IF c = 1 THEN call' = "none" /\ r' = Nowhere ELSE UNCHANGED <<call, r>>

AtEnd(cursor) == IF c = 1 THEN 0 ELSE cursor

\* Mutant of RemoveStep: n is read after the pieces have been appended.
RemoveStepReadsLate ==
  /\ call \in {"removeH", "removeV"}
  /\ LET t     == list[a]
         grown == list \o Pieces(t, r)
         n     == IF a = Len(grown) THEN 1 ELSE a + 1
     IN IF RectOverlay(t, r)
        THEN list' = RemoveAt(grown, a) /\ a' = AtEnd(IF n > a THEN n - 1 ELSE n)
        ELSE list' = list /\ a' = AtEnd(Following(a))
  /\ Counted
  /\ UNCHANGED <<adding, zone>>

\* Mutant of RemoveStep: only the items that are replaced are counted.
RemoveStepCountsMet ==
  /\ call \in {"removeH", "removeV"}
  /\ LET t == list[a]
         n == Following(a)
     IN IF RectOverlay(t, r)
        THEN /\ list' = RemoveAt(list \o Pieces(t, r), a)
             /\ a' = AtEnd(IF n > a THEN n - 1 ELSE n)
             /\ Counted
        ELSE a' = n /\ UNCHANGED <<list, call, r, c>>
  /\ UNCHANGED <<adding, zone>>

(***************************************************************************)
(* One round of the loop.  The pieces go behind the last item, n has been  *)
(* read before, and leaving out item a moves the items behind it up.       *)
(***************************************************************************)
RemoveStep ==
  /\ call \in {"removeH", "removeV"}
  /\ LET t == list[a]
         n == Following(a)
     IN IF RectOverlay(t, r)
        THEN list' = RemoveAt(list \o Pieces(t, r), a) /\ a' = AtEnd(IF n > a THEN n - 1 ELSE n)
        ELSE list' = list /\ a' = AtEnd(n)
  /\ Counted
  /\ UNCHANGED <<adding, zone>>

AddZoneInList(rect) ==
  /\ Idle
  /\ call' = "add" /\ adding' = <<rect>>
  /\ zone' = zone \cup PointsOf(rect)
  /\ UNCHANGED <<list, r, a, c>>

(***************************************************************************)
(* One call of AddZoneInList.  When an item overlaps, the rest is added by *)
(* calls of the same function (AddZoneInListEx), each to its end before    *)
(* the next one: the rests come first in "adding".                         *)
(***************************************************************************)
AddStep ==
  /\ call = "add"
  /\ LET rect == Head(adding)
         met  == Met(LastFirst, rect)
     IN IF met # << >>
        THEN adding' = AddBminusAHPref(rect, Head(met)) \o Tail(adding) /\ list' = list
        ELSE adding' = Tail(adding) /\ list' = list \o Kept(<<rect>>)
  /\ call' = IF adding' = << >> THEN "none" ELSE "add"
  /\ UNCHANGED <<r, a, c, zone>>
-----------------------------------------------------------------------------
Calls ==
  \/ NewListFromRectList
  \/ \E rect \in Inputs :
       \/ NewListFromRect(rect)
       \/ NewListFromRectListIntersept(rect)
       \/ RemoveZone(rect, "removeH")
       \/ RemoveZone(rect, "removeV")
       \/ AddZoneInList(rect)

Steps == RemoveStep \/ AddStep

\* A list may grow too long for another call, and then nothing more happens.
Full == call = "none" /\ Len(list) > MaxLen /\ UNCHANGED listVars

ListNext == Calls \/ Steps \/ Full

ListSpec == ListInit /\ [][ListNext]_listVars

\* A call runs to its end: nothing in metrics.c polls.
ListFairSpec == ListSpec /\ WF_listVars(Steps)
-----------------------------------------------------------------------------
(***************************************************************************)
(* Properties.                                                             *)
(***************************************************************************)

\* The variables have their types, and a running walk is inside the list.
ListTypeOK ==
  /\ list \in Seq(Rect) /\ adding \in Seq(Rect) /\ r \in Rect
  /\ call \in {"none", "removeH", "removeV", "add"}
  /\ zone \subseteq Plane
  /\ c \in Nat /\ a \in Nat
  /\ call \in {"removeH", "removeV"} => a \in DOMAIN list /\ c \in 1 .. Len(list)
  /\ call = "add" => adding # << >>

(***************************************************************************)
(* No pixel is in two rectangles of a list, and none of them is empty: the *)
(* widgets blend and blit each rectangle once.                             *)
(***************************************************************************)
Disjoint ==
  /\ \A i \in DOMAIN list : NonEmpty(list[i])
  /\ \A i, j \in DOMAIN list : i # j => ~RectOverlay(list[i], list[j])

\* When no call runs, the list covers exactly the pixels that were asked for.
CoversZone == call = "none" => Covered(list) = zone

(***************************************************************************)
(* While a removal runs, only pixels of its rectangle are still to go, and *)
(* while an addition runs, the rests of the rectangle are what is missing. *)
(***************************************************************************)
CoversMeanwhile ==
  /\ call \in {"removeH", "removeV"} => Covered(list) \ PointsOf(r) = zone
  /\ call = "add" => Covered(list) \cup Covered(adding) = zone

\* Every call comes to its end, the recursion of AddZoneInList included.
CallsEnd == call # "none" ~> call = "none"

\* A list of rectangles is disjoint and exact between the calls, and on its way to be within.
ListsAreExact == ListTypeOK /\ Disjoint /\ CoversZone /\ CoversMeanwhile
=============================================================================
