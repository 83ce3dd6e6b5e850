------------------------------ MODULE Widgets -------------------------------
(***************************************************************************)
(* The tree of the widgets.  The children of a widget are a ring in the    *)
(* order of their height on the screen: Last is the lowest one, Last->Next *)
(* the highest.  Windows are what can be selected; the one that is         *)
(* selected comes to the top.  A popup menu lies on the desktop and points *)
(* to the popup it has opened (Child), which MenuViewFreeEx disposes of    *)
(* with it.  The panel of desktop.app lies below them all.                 *)
(*                                                                         *)
(* DisposeAllAppWidgets, which the loader calls for each application that  *)
(* ends, walks the tree while it disposes of widgets.  It is followed step *)
(* by step, since the walk reads the rings it changes.                     *)
(***************************************************************************)
EXTENDS Naturals, FiniteSetsExt, SequencesExt

CONSTANTS
  Widget, NULL,
  DeskTop, Panel,
  Windows,      \* WFSelectable; they lie on the desktop
  Popups,       \* the menus on the desktop
  Owner,        \* AppOwner, for each widget
  NoShell,      \* boundary: desktop.app has closed, or was not started: there is no panel
  UnderMenus,   \* boundary: a window opens or changes by itself while a menu is open
  OpenMenus,    \* boundary: an application ends while its menu has a submenu open
  Behind        \* boundary: a widget is inserted in a window that lies below another

Controls == Widget \ (Windows \cup Popups \cup {DeskTop, Panel})

ASSUME WidgetAssumption ==
  /\ IsFiniteSet(Widget)
  /\ {DeskTop, Panel} \subseteq Widget /\ DeskTop # Panel /\ NULL \notin Widget
  /\ Windows \subseteq Widget /\ Popups \subseteq Widget /\ Windows \cap Popups = {}
  /\ {DeskTop, Panel} \cap (Windows \cup Popups) = {}
  /\ Owner[Panel] # Owner[DeskTop]

VARIABLES
  s,          \* the tree: last, next, prev, parent; live; sel (WFSelected); child (TMenuView.Child)
  walk,       \* _DisposeAllAppWidgets: a frame [o, a, n] for each level
  app         \* the application that ends

vars == <<s, walk, app>>
-----------------------------------------------------------------------------
\* RemoveWidgetEx.
RemoveWidgetEx(st, i) ==
  LET o == st.parent[i]
  IN IF st.next[i] = i THEN [st EXCEPT !.last[o] = NULL, !.parent[i] = NULL]
     ELSE [st EXCEPT !.prev[st.next[i]] = st.prev[i], !.next[st.prev[i]] = st.next[i],
                     !.last[o] = IF @ = i THEN st.prev[i] ELSE @, !.parent[i] = NULL]

First(st, o) == IF st.last[o] = NULL THEN NULL ELSE st.next[st.last[o]]

\* Mutant of InsertFirst: the widget is linked to itself, as when it is the first child.
InsertAlone(st, o, i) ==
  [st EXCEPT !.next[i] = i, !.prev[i] = i, !.last[o] = IF @ = NULL THEN i ELSE @, !.parent[i] = o]

\* _WidgetInsertBefore before the highest child of o: every caller inserts there.
InsertFirst(st, o, i) ==
  IF st.last[o] = NULL THEN [st EXCEPT !.next[i] = i, !.prev[i] = i, !.last[o] = i, !.parent[i] = o]
  ELSE LET b == First(st, o)
           linked == [st EXCEPT !.prev[i] = st.prev[b], !.next[i] = b]
       IN [linked EXCEPT !.next[st.prev[b]] = i, !.prev[b] = i, !.parent[i] = o]

\* _WidgetSetFirstEx.  It reads the highest of the others: there must be one.
SetFirstEx(st, i) == InsertFirst(RemoveWidgetEx(st, i), st.parent[i], i)

Brothers(st, w) == {c \in Widget \ {w} : st.parent[c] = st.parent[w]}

\* Mutant of Select: the window is selected where it lies.
SelectUnraised(st, w) ==
  [st EXCEPT !.sel = (@ \cup ({w} \cap Windows)) \ (Brothers(st, w) \cap Windows)]

(***************************************************************************)
(* WidgetSelect of a child of the desktop: a window that was not selected  *)
(* is, and its handler of WEvNotifySelect raises it (WidgetSetFirst, whose *)
(* own WidgetSelect does what follows once more); its brothers no longer   *)
(* are.                                                                    *)
(***************************************************************************)
Select(st, w) ==
  LET raised == IF w \in Windows \ st.sel
                THEN [SetFirstEx(st, w) EXCEPT !.sel = @ \cup {w}] ELSE st
  IN [raised EXCEPT !.sel = @ \ (Brothers(st, w) \cap Windows)]

\* WidgetSelect: the widget, then its parents.  Only the children of the desktop, and no
\* brothers of a control, can be selected.
Selected(st, o) ==
  IF o = DeskTop THEN st ELSE Select(st, IF st.parent[o] = DeskTop THEN o ELSE st.parent[o])

\* The highest of o's children that can be selected.
Highest(st, o) ==
  LET n == Cardinality({c \in Widget : st.parent[c] = o})
      at[k \in 0..n] == IF k = 0 THEN First(st, o) ELSE st.next[at[k - 1]]
      found == {k \in 0..n : at[k] \in Windows}
  IN IF found = {} THEN NULL ELSE at[Min(found)]

\* _WidgetRemove: when the selected window goes, the highest window left is selected.
Removed(st, i) ==
  LET without == RemoveWidgetEx(st, i)
      next == Highest(without, st.parent[i])
  IN IF i \in st.sel /\ next # NULL THEN Select(without, next) ELSE without

\* o and all below it: the controls lie in the windows.
Below(st, o) == {w \in st.live : w = o \/ st.parent[w] = o}

\* The popup m, the one opened from it, and so on; then NULL.
Opened(st, m) ==
  LET at[k \in 0..Cardinality(Popups)] ==
        IF k = 0 THEN m ELSE IF at[k - 1] = NULL THEN NULL ELSE st.child[at[k - 1]]
  IN at

\* They are removed one after the other.
Unlinked(st, m) ==
  LET out[k \in 0..Cardinality(Popups)] ==
        IF k = 0 THEN Removed(st, m)
        ELSE IF Opened(st, m)[k] = NULL THEN out[k - 1] ELSE Removed(out[k - 1], Opened(st, m)[k])
  IN out[Cardinality(Popups)]

Freed(st, gone) ==
  LET cleared(f) == [c \in Widget |-> IF c \in gone THEN NULL ELSE f[c]]
  IN [st EXCEPT !.live = @ \ gone, !.sel = @ \ gone,
                !.last = cleared(@), !.next = cleared(@), !.prev = cleared(@),
                !.parent = cleared(@), !.child = cleared(@)]

(***************************************************************************)
(* WidgetDispose: the widget is removed, all below it is freed, and        *)
(* MenuViewFreeEx disposes of the submenu of a popup in the same way.      *)
(***************************************************************************)
Disposed(st, w) ==
  Freed(Unlinked(st, w), Below(st, w) \cup {Opened(st, w)[k] : k \in 0..Cardinality(Popups)})

\* MenuDisposeFromMe: a submenu goes with all it opened and its parent lets go of it; a
\* menu that was opened alone goes as a whole.
MenuDisposed(st, m) ==
  Disposed([st EXCEPT !.child = [p \in Widget |-> IF @[p] = m THEN NULL ELSE @[p]]], m)

\* CreateWidget and _WidgetInsert: i comes to the top of o, whose windows are no longer
\* selected; o is, if it is a window, wherever it lies.
Inserted(st, o, i) ==
  LET in == InsertFirst(st, o, i)
  IN [in EXCEPT !.live = @ \cup {i},
                !.sel = (@ \ (Brothers(in, i) \cap Windows)) \cup ({o} \cap Windows)]
-----------------------------------------------------------------------------
Empty ==
  LET none == [w \in Widget |-> NULL]
  IN [last |-> none, next |-> none, prev |-> none, parent |-> none, child |-> none,
      live |-> {DeskTop}, sel |-> {}]

\* desktop.app, which starts first, has put its panel on the desktop.
Init ==
  /\ s \in {Inserted(Empty, DeskTop, Panel)} \cup (IF NoShell THEN {Empty} ELSE {})
  /\ walk = << >> /\ app = NULL

Open == s.live \cap Popups

\* Outside DisposeAllAppWidgets the tree becomes st.
Becomes(st) == walk = << >> /\ s' = st /\ UNCHANGED <<walk, app>>

\* A program opens a window.
OpenWindow(w) ==
  /\ w \in Windows \ s.live /\ DeskTop \in s.live
  /\ Open # {} => UnderMenus
  /\ Becomes(Inserted(s, DeskTop, w))

\* A program inserts a widget in its window.
InsertWidget(o, i) ==
  /\ o \in Windows \cap s.live /\ i \in Controls \ s.live /\ Owner[i] = Owner[o]
  /\ o # Highest(s, DeskTop) => Behind
  /\ Open # {} => UnderMenus
  /\ Becomes(Inserted(s, o, i))

\* PopUpMenuEx for a menu that is opened alone.
PopUpMenu(m) ==
  /\ m \in Popups \ s.live /\ Open = {}
  /\ Becomes(Inserted(s, DeskTop, m))

\* PopUpMenuEx from a menu: the submenu it had open goes first.
PopUpSubMenu(o, m) ==
  /\ m \in Popups \ s.live /\ o \in Open /\ Owner[m] = Owner[o]
  /\ LET st == IF s.child[o] = NULL THEN s ELSE MenuDisposed(s, s.child[o])
     IN Becomes([Inserted(st, DeskTop, m) EXCEPT !.child[o] = m])

\* A click elsewhere, or the choice of an item.
MenuDisposeFromMe(m) ==
  /\ m \in Open
  /\ Becomes(MenuDisposed(s, m))

\* A click: WidgetEventHandler selects the widget.  The menus have gone, or it is on one.
WidgetSelect(o) ==
  /\ o \in s.live /\ (Open # {} => o \in Open)
  /\ Becomes(Selected(s, o))

\* A click on the taskbar raises a window of the list.
WidgetSetFirst(o) ==
  /\ o \in s.live \cap Windows /\ Open = {}
  /\ Becomes(Selected(SetFirstEx(s, o), o))

\* WM_CLOSE, or a program disposes of a widget of its own.
WidgetDispose(w) ==
  /\ w \in s.live \cap (Windows \cup Controls) /\ (Open # {} => UnderMenus)
  /\ Becomes(Disposed(s, w))
-----------------------------------------------------------------------------
\* DisposeAllAppWidgets: DeskTop is another's, and the walk begins with its lowest child.
DisposeAllAppWidgets(p) ==
  /\ walk = << >> /\ p # Owner[DeskTop] /\ p # Owner[Panel]
  /\ s.last[DeskTop] # NULL
  /\ (\E m \in Open : Owner[m] = p /\ s.child[m] # NULL) => OpenMenus
  /\ walk' = <<[o |-> DeskTop, a |-> s.last[DeskTop], n |-> NULL]>>
  /\ app' = p
  /\ UNCHANGED s

Top == walk[Len(walk)]

\* n = a->Next, before the widget is visited.
Read == [walk EXCEPT ![Len(walk)].n = s.next[Top.a]]

\* A widget comes in turn, and it is the application's or it is not.
Visit(mine) ==
  /\ walk # << >> /\ Top.n = NULL /\ Top.a \in s.live
  /\ (Owner[Top.a] = app) = mine

WalkDisposes ==
  /\ Visit(TRUE)
  /\ s' = Disposed(s, Top.a) /\ walk' = Read
  /\ UNCHANGED app

\* It has children: they are walked before the next.
WalkEnters ==
  /\ Visit(FALSE) /\ s.last[Top.a] # NULL
  /\ UNCHANGED <<s, app>>
  /\ walk' = Append(Read, [o |-> Top.a, a |-> s.last[Top.a], n |-> NULL])

WalkPasses ==
  /\ Visit(FALSE) /\ s.last[Top.a] = NULL
  /\ UNCHANGED <<s, app>>
  /\ walk' = Read

\* Mutant of WalkNext: the end is a NULL, as of a list that is no ring.
WalkNextToNull ==
  /\ walk # << >> /\ Top.n # NULL
  /\ walk' = [walk EXCEPT ![Len(walk)].a = Top.n, ![Len(walk)].n = NULL]
  /\ UNCHANGED <<s, app>>

\* The level ends with the Last of now.
WalkNext ==
  /\ walk # << >> /\ Top.n # NULL
  /\ walk' = IF Top.n = s.last[Top.o] THEN Front(walk)
             ELSE [walk EXCEPT ![Len(walk)].a = Top.n, ![Len(walk)].n = NULL]
  /\ app' = IF walk' = << >> THEN NULL ELSE app
  /\ UNCHANGED s

Walking == WalkDisposes \/ WalkEnters \/ WalkPasses \/ WalkNext

Next ==
  \/ \E w \in Widget :
       \/ OpenWindow(w) \/ PopUpMenu(w) \/ MenuDisposeFromMe(w)
       \/ WidgetSelect(w) \/ WidgetSetFirst(w) \/ WidgetDispose(w)
       \/ \E i \in Widget : InsertWidget(w, i) \/ PopUpSubMenu(w, i)
  \/ \E w \in Widget : DisposeAllAppWidgets(Owner[w])
  \/ Walking

Spec == Init /\ [][Next]_vars
FairSpec == Spec /\ WF_vars(Walking)
-----------------------------------------------------------------------------
Link == [Widget -> Widget \cup {NULL}]

\* Every variable has its type.
TypeOK ==
  /\ s \in [last : Link, next : Link, prev : Link, parent : Link, child : Link,
            live : SUBSET Widget, sel : SUBSET Windows]
  /\ s.sel \subseteq s.live
  /\ walk \in Seq([o : Widget, a : Widget, n : Widget \cup {NULL}])
  /\ app \in {NULL} \cup {Owner[w] : w \in Widget}

(***************************************************************************)
(* The children of a widget are one ring in both directions that holds its *)
(* Last, whatever was inserted, raised and removed (RemoveWidgetEx,        *)
(* _WidgetInsertBefore, WidgetDisposeEx).                                  *)
(***************************************************************************)
ChildrenAreRings ==
  \A o \in s.live :
    LET kids == {c \in Widget : s.parent[c] = o}
        at[k \in 0..Cardinality(kids)] == IF k = 0 THEN s.last[o] ELSE s.next[at[k - 1]]
    IN IF kids = {} THEN s.last[o] = NULL
       ELSE /\ kids \subseteq s.live
            /\ {at[k] : k \in 0..Cardinality(kids)} = kids /\ at[Cardinality(kids)] = s.last[o]
            /\ \A c \in kids : s.prev[s.next[c]] = c

\* The window that has the selection, which the keyboard and the title bar go by, is the
\* highest of the windows, and no other is selected with it (WidgetSelect, _WidgetInsert,
\* _WidgetRemove).
SelectedOnTop ==
  s.sel # {} => s.sel = {Highest(s, DeskTop)}

\* A popup points to a submenu that is still there: MenuViewFreeEx disposes of it unseen.
SubMenusLive == \A m \in Open : s.child[m] # NULL => s.child[m] \in s.live

\* A window that may be raised has a brother: _WidgetSetFirstEx reads the Next of the Last
\* that is left once the window is out of the ring.
NeverAlone == \A w \in Windows \cap s.live : s.next[w] # w

\* DisposeAllAppWidgets is never at a widget that one of its own disposals has freed.
WalkReadsLive ==
  \A k \in DOMAIN walk : walk[k].o \in s.live /\ (walk[k].n = NULL => walk[k].a \in s.live)

\* When an application has ended, none of its widgets is left in the tree: their handlers
\* would be called in the code that the loader frees next.
AllDisposed == [][(walk # << >> /\ walk' = << >>) => \A w \in s.live : Owner[w] # app]_vars

\* The walk over a tree it changes comes to an end: the ring it follows still holds the
\* Last at which it stops.
WalkEnds == walk # << >> ~> walk = << >>

\* The tree of widgets is whole: its rings, the pointers from popup to popup, and those that
\* the walk follows.
TreeOK == TypeOK /\ ChildrenAreRings /\ NeverAlone /\ SubMenusLive /\ WalkReadsLive

\* An application that ends takes all its widgets with it, by a walk that comes to an end
\* (DisposeAllAppWidgets).
EndsWhole == AllDisposed /\ WalkEnds
=============================================================================
