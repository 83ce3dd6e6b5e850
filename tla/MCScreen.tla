------------------------------ MODULE MCScreen ------------------------------
(***************************************************************************)
(* A desktop of 4 by 3 pixels with a window that has a stretching and a    *)
(* fixed child, and a tab book of two pages that overlaps it; and a list   *)
(* of rectangles on 3 by 2 pixels, "nowhere" among them.                   *)
(*                                                                         *)
(* The lists live for one paint and share no variable with the widgets:    *)
(* every behaviour is one of the widgets' or one of a list's, and the      *)
(* other part stays as it began.                                           *)
(***************************************************************************)
EXTENDS Screen, RectList, TLC

VARIABLE subject   \* what the behaviour is about

ListPlane == [x : 0 .. 2, y : 0 .. 1]
ListInputs == {Nowhere}
              \cup {RectAssign(p.x, p.y, q.x, q.y) : <<p, q>> \in
                      {pq \in ListPlane \X ListPlane : pq[1].x <= pq[2].x /\ pq[1].y <= pq[2].y}}

MCPixels  == [x : 0 .. 3, y : 0 .. 2]
MCWidgets == {"desk", "win", "list", "book", "page1", "page2"}
MCLayout  == [w \in MCWidgets |->
                CASE w = "desk" -> <<"book", "win">>
                  [] w = "win"  -> <<"list">>
                  [] w = "book" -> <<"page1", "page2">>
                  [] OTHER -> << >>]
MCRel0  == "desk" :> RectAssign(0, 0, 3, 2) @@ "win" :> RectAssign(0, 0, 2, 2)
           @@ "list" :> RectAssign(0, 0, 1, 0) @@ "book" :> RectAssign(2, 1, 3, 1)
           @@ "page1" :> RectAssign(0, 0, 0, 0) @@ "page2" :> RectAssign(1, 0, 1, 0)
MCArea0 == "desk" :> RectAssign(0, 0, 3, 2) @@ "win" :> RectAssign(1, 1, 2, 2)
           @@ "list" :> RectAssign(0, 0, 1, 0) @@ "book" :> RectAssign(0, 0, 1, 0)
           @@ "page1" :> RectAssign(0, 0, 0, 0) @@ "page2" :> RectAssign(0, 0, 0, 0)
MCMagnets == [w \in MCWidgets |-> IF w = "list" THEN {"auto", "right"} ELSE {}]
MCHidden0 == {"page2"}
MCBooks   == {"book"}
MCMoves   == {<<"win", 1, 0>>, <<"win", -1, 0>>, <<"list", 0, -1>>, <<"list", 0, 1>>}
MCSizes   == {<<"win", 1, 0>>, <<"win", -1, -1>>}
MCPlaces  == {<<"win", RectAssign(0, 0, 3, 2)>>}
MCRoom    == RectAssign(-1, -1, 3, 2)

allVars  == <<screenVars, listVars, subject>>

MCInit == ScreenInit /\ ListInit /\ subject \in {"widgets", "list"}

OfWidgets == subject = "widgets" /\ ScreenNext /\ UNCHANGED <<listVars, subject>>
OfLists   == subject = "list" /\ ListNext /\ UNCHANGED <<screenVars, subject>>

MCNext == OfWidgets \/ OfLists

\* A call on a list runs to its end: nothing in metrics.c polls.
MCSpec ==
  /\ MCInit /\ [][MCNext]_allVars
  /\ WF_allVars(subject = "list" /\ Steps /\ UNCHANGED <<screenVars, subject>>)
=============================================================================
