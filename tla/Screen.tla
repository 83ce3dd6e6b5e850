------------------------------- MODULE Screen -------------------------------
(***************************************************************************)
(* What the widgets of widget.c leave on the screen.  The screen is never  *)
(* painted anew: an operation moves, raises, shows or removes a widget and *)
(* then paints the parts it believes to have changed.  Each paint clips    *)
(* the widget against those in front of it (WidgetGenerateCache), on       *)
(* coordinates that are stored with the widgets and have to be kept up to  *)
(* date (WidgetRefreshAbsolutePos).                                        *)
(*                                                                         *)
(* Lists of rectangles appear as the sets of pixels they cover (RectList   *)
(* shows that they cover them, once each); the ring of a widget's children *)
(* as a sequence whose first element is Last->Next, the one in front.      *)
(***************************************************************************)
EXTENDS WidgetNames, Rects, FiniteSets

CONSTANTS
  Pixels,         \* the screen
  Layout,         \* Layout[w]: the children of w at the beginning
  Rel0, Area0,    \* their Relative and ChildArea
  Hidden0,        \* the widgets that begin without WFVisible
  Magnets,        \* Magnets[w]: the WF_ resize flags of w
  Books,          \* the widgets that are tab books
  Moves, Sizes,   \* bound: <<o, dx, dy>> of the calls that move and that resize
  Places,         \* bound: <<o, r>> of the calls that place
  Room,           \* bound: both corners of every Relative stay in it
  TinyWidgets,    \* boundary: a widget may come to show exactly 2 by 2 pixels
  ScrolledOut,    \* boundary: nothing of a widget's ChildArea may be in sight
  MoveHidden      \* boundary: a widget below a hidden one may be moved

ASSUME FiniteAssumption == IsFiniteSet(Widgets)
\* The desktop is as large as the screen, and stays visible.
ASSUME PixelsAssumption ==
  /\ Pixels \subseteq Point /\ \A p \in Pixels : PointInRect(p, Rel0[DeskTop])
  /\ DeskTop \notin Hidden0
ASSUME CoordinatesAssumption ==
  /\ Rel0 \in [Widgets -> Rect] /\ Area0 \in [Widgets -> Rect]
  /\ \A m \in Moves \cup Sizes : m[2] \in Int /\ m[3] \in Int
  /\ \A m \in Places : m[2] \in Rect
\* WidgetInsert gives every widget but the desktop one parent, and it is one place among its children.
ASSUME LayoutAssumption ==
  /\ Layout \in [Widgets -> Seq(Widgets)]
  /\ \A v, w \in Widgets : \A i \in DOMAIN Layout[v], j \in DOMAIN Layout[w] :
       Layout[v][i] = Layout[w][j] => v = w /\ i = j
  /\ \E depth \in [Widgets -> 0 .. Cardinality(Widgets)] :
       /\ \A v \in Widgets : \A c \in ToSet(Layout[v]) : depth[c] = depth[v] + 1
       /\ \A w \in Widgets : w = DeskTop <=> \A v \in Widgets : w \notin ToSet(Layout[v])

VARIABLES
  kids,       \* the children of each widget, the one in front first
  Relative,   \* TWidget.Relative
  ChildArea,  \* TWidget.ChildArea
  pos,        \* TWidget.Absolute, DrawAbsolute and ChildDrawAbs
  visible,    \* the widgets with WFVisible
  screen      \* history: whose picture each pixel shows

screenVars == <<kids, Relative, ChildArea, pos, visible, screen>>

PixelsOf(r) == {p \in Pixels : PointInRect(p, r)}

\* TWidget.Parent of a widget in the tree; NULL for the desktop.
Parent ==
  [w \in Widgets |->
     IF \E p \in Widgets : w \in ToSet(Layout[p])
     THEN CHOOSE p \in Widgets : w \in ToSet(Layout[p]) ELSE NULL]

\* A widget, its parent, and so on up.
Line[w \in Widgets] == IF Parent[w] = NULL THEN {w} ELSE {w} \cup Line[Parent[w]]

\* The children s without w.
Others(s, w) == RemoveAt(s, CHOOSE i \in DOMAIN s : s[i] = w)

Below(o) == {w \in Widgets : o \in Line[w]}

\* The widgets on the desktop: windows come and go with all their children.
InTree(tree) == {w \in Widgets : \A i \in Line[w] \ {DeskTop} : i \in ToSet(tree[Parent[i]])}
-----------------------------------------------------------------------------
(***************************************************************************)
(* Coordinates.                                                            *)
(***************************************************************************)

\* WidgetRefreshAbsolutePosEx of one widget, its parent's coordinates given.
Placed(rel, area, parentArea, parent) ==
  LET abs  == RectMove(rel, RectMove(parentArea, parent.abs.a).a)
      draw == IF RectOverlay(abs, parent.child) THEN RectIntersept(abs, parent.child) ELSE Nowhere
  IN [abs |-> abs, draw |-> draw, child |-> RectIntersept(RectMove(area, abs.a), draw)]

\* Mutant of Refreshed: the children keep their coordinates.
RefreshedAlone(o, rel, area, lost) ==
  [pos EXCEPT ![o] = Placed(rel[o], area[o], area[Parent[o]], pos[Parent[o]])]

(***************************************************************************)
(* WidgetRefreshAbsolutePos(o): o and everything below it.  WidgetSetRect  *)
(* refreshes the children zone by zone, and there is no zone in an empty   *)
(* ChildArea: the children of the widgets "lost" stay as they are.         *)
(***************************************************************************)
Refreshed(o, rel, area, lost) ==
  LET New[w \in Widgets] ==
        IF w \notin Below(o) \/ \E p \in lost : p \in Line[w] \ {w} THEN pos[w]
        ELSE Placed(rel[w], area[w], area[Parent[w]], New[Parent[w]])
  IN New

SelfRelative(r) == RectAssign(0, 0, r.b.x - r.a.x, r.b.y - r.a.y)

\* ChildArea grows with the widget (WidgetSetRect).
AreaFor(w, r) ==
  [ChildArea[w] EXCEPT
     !.b = [x |-> r.b.x - r.a.x - Relative[w].b.x + @.x + Relative[w].a.x,
            y |-> r.b.y - r.a.y - Relative[w].b.y + @.y + Relative[w].a.y]]

(***************************************************************************)
(* _ResizeZone for a child w: without spliters there is one zone, the old  *)
(* child area z, and it becomes nz.                                        *)
(***************************************************************************)
Stuck(w, z, nz) ==
  LET dx == z.b.x - nz.b.x
      dy == z.b.y - nz.b.y
      r  == Relative[w]
      m  == Magnets[w]
  IN RectAssign(
       r.a.x - (IF {"right", "fixedwidth"} \subseteq m THEN dx ELSE 0),
       r.a.y - (IF {"bottom", "fixedheight"} \subseteq m THEN dy ELSE 0),
       r.b.x - (IF "right" \in m THEN dx ELSE 0),
       r.b.y - (IF "bottom" \in m THEN dy ELSE 0))

\* WidgetSetRect(o, r): the new Relative and ChildArea, with those of the
\* children that are resized along.
Resized(o, r) ==
  LET New[w \in Widgets] ==
        LET p == Parent[w]
            z == SelfRelative(ChildArea[p])
            n == Stuck(w, z, SelfRelative(New[p].area))
        IN CASE w = o -> [rel |-> r, area |-> AreaFor(w, r), set |-> TRUE]
             [] w # o /\ w \in Below(o) /\ New[p].set /\ "auto" \in Magnets[w]
                  /\ NonEmpty(z) /\ RectOverlay(z, Relative[w]) ->
                  [rel |-> n, area |-> AreaFor(w, n), set |-> TRUE]
             [] OTHER -> [rel |-> Relative[w], area |-> ChildArea[w], set |-> FALSE]
  IN New
-----------------------------------------------------------------------------
(***************************************************************************)
(* Painting, on a tree, coordinates and visibility given as values, so     *)
(* that an operation paints with what it has just assigned.                *)
(***************************************************************************)
Tree(tr, ps, vis) ==
  [kids |-> tr, pos |-> ps, visible |-> vis,
   on |-> InTree(tr), px |-> [w \in Widgets |-> PixelsOf(ps[w].draw)]]

\* The siblings WidgetGenerateCacheExBrothers passes before it meets w.
InFront(t, w) ==
  LET p == Parent[w] IN
  IF p = NULL THEN {}
  ELSE {t.kids[p][i] : i \in {j \in DOMAIN t.kids[p] :
                                \E k \in DOMAIN t.kids[p] : j < k /\ t.kids[p][k] = w}}

\* Mutant of Covering: only the brothers of the widget itself are in front.
CoveringNear(t, o) == ToSet(t.kids[o]) \cup InFront(t, o)

\* What covers o: its children and, on each level up, those in front.
Covering(t, o) ==
  ToSet(t.kids[o]) \cup UNION {InFront(t, w) : w \in Line[o]}

\* WidgetGenerateCache and WidgetRefresh: the pixels painted with the picture
\* of o.  "all" says that no rectangle and no list is given.
Cache(t, o, zone, all) ==
  LET d == t.pos[o].draw IN
  IF o \notin t.visible \/ (all /\ d.a.x - d.b.x + 1 = 0 /\ d.a.y - d.b.y + 1 = 0) THEN {}
  ELSE (zone \cap t.px[o])
         \ UNION {t.px[w] : w \in Covering(t, o) \cap t.visible}

WidgetCheckVisible(t, o) == Line[o] \subseteq t.visible

\* The widgets between w and o, both included.
Between(w, o) == Line[w] \cap Below(o)

\* A pass over the widgets in S; children are painted after their parent.
Painted(t, sc, S, zone, all) ==
  LET px == [w \in S |-> Cache(t, w, zone, all)] IN
  [p \in Pixels |->
     LET by == {w \in S : p \in px[w]} IN
     IF by = {} THEN sc[p]
     ELSE CHOOSE w \in by : \A v \in by : Cardinality(Line[v]) <= Cardinality(Line[w])]

WidgetDrawAll(t, sc, o) ==
  IF ~WidgetCheckVisible(t, o) THEN sc
  ELSE Painted(t, sc, {w \in Below(o) \cap t.on : Between(w, o) \subseteq t.visible}, Pixels, TRUE)

WidgetDrawOnRect(t, sc, o, r) ==
  LET Reached(w) == \A x \in Between(w, o) : x \in t.visible /\ RectOverlay(t.pos[x].draw, r) IN
  IF ~WidgetCheckVisible(t, o) THEN sc
  ELSE Painted(t, sc, {w \in Below(o) \cap t.on : Reached(w)}, PixelsOf(r), FALSE)

\* Does not ask whether o's own parents are visible.
WidgetDrawOnRectListEx(t, sc, o, list) ==
  LET Reached(w) == \A x \in Between(w, o) : x \in t.visible /\ list \cap t.px[x] # {} IN
  Painted(t, sc, {w \in Below(o) \cap t.on : Reached(w)}, list, FALSE)
-----------------------------------------------------------------------------
\* The coordinates everything begins with.
Pos0[w \in Widgets] ==
  IF w = DeskTop THEN [abs |-> Rel0[DeskTop], draw |-> Rel0[DeskTop], child |-> Rel0[DeskTop]]
  ELSE Placed(Rel0[w], Area0[w], Area0[Parent[w]], Pos0[Parent[w]])

\* The bounds and boundaries on where an operation may leave the widgets.
Tiny(d) == d.b.x - d.a.x = 1 /\ d.b.y - d.a.y = 1
Allowed(tree, rel, area, ps) ==
  /\ \A w \in Widgets : NonEmpty(rel[w]) /\ PointInRect(rel[w].a, Room) /\ PointInRect(rel[w].b, Room)
  /\ \A w \in InTree(tree) : ~TinyWidgets => ~Tiny(ps[w].draw)
  /\ \A w \in InTree(tree) : ~ScrolledOut /\ tree[w] # << >> =>
       NonEmpty(area[w]) /\ RectOverlay(RectMove(area[w], ps[w].abs.a), ps[w].draw)

ASSUME PlacesAssumption == Allowed(Layout, Rel0, Area0, Pos0)

ScreenInit ==
  /\ kids = Layout /\ Relative = Rel0 /\ ChildArea = Area0 /\ pos = Pos0
  /\ visible = Widgets \ Hidden0
  /\ screen = WidgetDrawAll(Tree(kids, pos, visible), [p \in Pixels |-> NULL], DeskTop)

(***************************************************************************)
(* The common part of WidgetMove, WidgetResize and WidgetSetMetrics: place *)
(* the widget, paint it, and let the parent paint what it no longer hides. *)
(***************************************************************************)
\* Mutant of Place: the parent is not asked to paint.
PlaceLeavesTrail(o, r) ==
  LET new  == Resized(o, r)
      rel  == [w \in Widgets |-> new[w].rel]
      area == [w \in Widgets |-> new[w].area]
      lost == {w \in Widgets : new[w].set /\ ~NonEmpty(SelfRelative(ChildArea[w]))}
      ps   == Refreshed(o, rel, area, lost)
  IN /\ Allowed(kids, rel, area, ps)
     /\ Relative' = rel /\ ChildArea' = area /\ pos' = ps
     /\ screen' = WidgetDrawAll(Tree(kids, ps, visible), screen, o)
     /\ UNCHANGED <<kids, visible>>

Place(o, r) ==
  LET new  == Resized(o, r)
      rel  == [w \in Widgets |-> new[w].rel]
      area == [w \in Widgets |-> new[w].area]
      lost == {w \in Widgets : new[w].set /\ ~NonEmpty(SelfRelative(ChildArea[w]))}
      ps   == Refreshed(o, rel, area, lost)
      t    == Tree(kids, ps, visible)
      bare == PixelsOf(pos[o].draw) \ PixelsOf(ps[o].draw)
  IN /\ Allowed(kids, rel, area, ps)
     /\ Relative' = rel /\ ChildArea' = area /\ pos' = ps
     /\ screen' = WidgetDrawOnRectListEx(t, WidgetDrawAll(t, screen, o), Parent[o], bare)
     /\ UNCHANGED <<kids, visible>>

Movable(o) ==
  /\ o \in InTree(kids) \ {DeskTop}
  /\ ~MoveHidden => Line[Parent[o]] \subseteq visible

WidgetMove(o, dX, dY) ==
  LET r == RectMove(Relative[o], [x |-> dX, y |-> dY]) IN
  Movable(o) /\ Place(o, r)

WidgetResize(o, dW, dH) ==
  LET r == [Relative[o] EXCEPT !.b = [x |-> @.x + dW, y |-> @.y + dH]] IN
  Movable(o) /\ Place(o, r)

\* w and h are the second corner, as the callers pass it (maximize, minimize).
WidgetSetMetrics(o, r) == Movable(o) /\ Place(o, r)

\* The code reads o->Last->Next after unlinking: an only child has no place.
WidgetSetFirst(o) ==
  /\ Movable(o) /\ Len(kids[Parent[o]]) > 1
  /\ kids' = [kids EXCEPT ![Parent[o]] = <<o>> \o Others(@, o)]
  /\ pos' = Refreshed(o, Relative, ChildArea, {})
  /\ screen' = WidgetDrawAll(Tree(kids', pos', visible), screen, o)
  /\ UNCHANGED <<Relative, ChildArea, visible>>

\* WidgetInsert into the desktop, and the WidgetDrawAll of whoever inserts.
InsertWindow(i) ==
  /\ i \in ToSet(Layout[DeskTop]) \ ToSet(kids[DeskTop])
  /\ kids' = [kids EXCEPT ![DeskTop] = <<i>> \o @]
  /\ LET ps == Refreshed(i, Relative, ChildArea, {}) IN
       /\ Allowed(kids', Relative, ChildArea, ps)
       /\ pos' = ps
  /\ screen' = WidgetDrawAll(Tree(kids', pos', visible), screen, i)
  /\ UNCHANGED <<Relative, ChildArea, visible>>

\* _WidgetRemove; the repaint of siblings that follows when i was selected
\* goes as far as the first selectable one.
RemoveWindow(i) ==
  /\ i \in ToSet(kids[DeskTop])
  /\ kids' = [kids EXCEPT ![DeskTop] = Others(@, i)]
  /\ LET t  == Tree(kids', pos, visible)
         After[n \in 0 .. Len(kids'[DeskTop])] ==
           IF n = 0 THEN WidgetDrawOnRect(t, screen, DeskTop, pos[i].draw)
           ELSE WidgetDrawAll(t, After[n - 1], kids'[DeskTop][n])
     IN \E n \in 0 .. Len(kids'[DeskTop]) : screen' = After[n]
  /\ UNCHANGED <<Relative, ChildArea, pos, visible>>

\* The page that was current loses WFVisible.
TabBookSelectTab(o, t) ==
  /\ o \in InTree(kids)
  /\ t \in ToSet(kids[o]) \ visible
  /\ visible' = (visible \ ToSet(kids[o])) \cup {t}
  /\ screen' = WidgetDrawAll(Tree(kids, pos, visible'), screen, o)
  /\ UNCHANGED <<kids, Relative, ChildArea, pos>>

ScreenNext ==
  \/ \E m \in Moves : WidgetMove(m[1], m[2], m[3])
  \/ \E m \in Sizes : WidgetResize(m[1], m[2], m[3])
  \/ \E m \in Places : WidgetSetMetrics(m[1], m[2])
  \/ \E o \in Widgets : WidgetSetFirst(o) \/ InsertWindow(o) \/ RemoveWindow(o)
  \/ \E o \in Books : \E t \in ToSet(kids[o]) : TabBookSelectTab(o, t)

ScreenSpec == ScreenInit /\ [][ScreenNext]_screenVars
-----------------------------------------------------------------------------
(***************************************************************************)
(* Properties.                                                             *)
(***************************************************************************)

\* The variables have their types, and a widget has at most one parent, once.
ScreenTypeOK ==
  /\ kids \in [Widgets -> Seq(Widgets)]
  /\ Relative \in [Widgets -> Rect] /\ ChildArea \in [Widgets -> Rect]
  /\ pos \in [Widgets -> [abs : Rect, draw : Rect, child : Rect]]
  /\ visible \subseteq Widgets
  /\ screen \in [Pixels -> Widgets]
  /\ \A v \in Widgets : Cardinality(ToSet(kids[v])) = Len(kids[v])
  /\ \A v, w \in Widgets : ToSet(kids[v]) \cap ToSet(kids[w]) # {} => v = w

\* From the desktop down, the child in front whose rectangle contains p.
Descend(p, rect) ==
  LET Hit(o) == {i \in DOMAIN kids[o] : kids[o][i] \in visible /\ PointInRect(p, rect[kids[o][i]])}
      Under[o \in Widgets] ==
        IF Hit(o) = {} THEN o
        ELSE Under[kids[o][CHOOSE i \in Hit(o) : \A j \in Hit(o) : i <= j]]
  IN Under[DeskTop]

Shown(p) == Descend(p, [w \in Widgets |-> pos[w].draw])

\* TopWidgetUnderPoint: the widget that gets the mouse.
TopWidgetUnderPoint(p) == Descend(p, [w \in Widgets |-> pos[w].abs])

(***************************************************************************)
(* However the screen came about, it looks as if it had been painted from  *)
(* back to front: the partial repaints of moves, resizes, raises, removals *)
(* and tab changes add up.                                                 *)
(***************************************************************************)
ScreenIsTop == \A p \in Pixels : screen[p] = Shown(p)

(***************************************************************************)
(* The mouse goes to the widget one sees under it, except where a widget   *)
(* reaches out of its parent's child area and is not drawn at all.         *)
(***************************************************************************)
HitIsDrawn ==
  \A p \in Pixels :
    LET w == TopWidgetUnderPoint(p) IN PointInRect(p, pos[w].draw) => screen[p] = w

(***************************************************************************)
(* The stored coordinates are those one gets by computing all of them anew *)
(* from Relative and ChildArea.                                            *)
(***************************************************************************)
CoordinatesFresh ==
  \A w \in InTree(kids) \ {DeskTop} :
    pos[w] = Placed(Relative[w], ChildArea[w], ChildArea[Parent[w]], pos[Parent[w]])

\* What is stored about the widgets is what their tree says.
WidgetsOK == ScreenTypeOK /\ CoordinatesFresh
=============================================================================
