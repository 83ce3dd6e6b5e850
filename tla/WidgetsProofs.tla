--------------------------- MODULE WidgetsProofs ----------------------------
(***************************************************************************)
(* Proofs about the tree of the widgets, for every finite set of widgets.  *)
(*                                                                         *)
(* The children of each widget are ranked, the lowest rank for the highest *)
(* on the screen: Next goes from rank to rank, and back from the Last.     *)
(* Removing a widget leaves the ranks as they are, and one that comes to   *)
(* the top gets a rank below all others.  A popup is never raised, so that *)
(* the submenu it opens ranks below it, and the popups opened one from the *)
(* other are never a circle.                                               *)
(***************************************************************************)
EXTENDS Widgets, Links

Tree == [last : Link, next : Link, prev : Link, parent : Link, child : Link,
         live : SUBSET Widget, sel : SUBSET Windows]

\* The links of a tree are rings by the ranks r, which end somewhere below.
Ranks(st, r) ==
  /\ st \in Tree /\ Ringed(Widget, NULL, st, r)
  /\ \E b \in Int : \A w \in Widget : b < r[w]

\* What lies where.
Placed(st) ==
  /\ DeskTop \in st.live /\ st.sel \subseteq st.live
  /\ \A c \in Widget : st.parent[c] # NULL =>
       /\ c \in st.live \ {DeskTop} /\ st.parent[c] \in st.live
       /\ IF c \in Controls THEN st.parent[c] \in Windows /\ Owner[st.parent[c]] = Owner[c]
          ELSE st.parent[c] = DeskTop

\* Every widget that is there has a parent.
Whole(st) == \A c \in st.live \ {DeskTop} : st.parent[c] # NULL

\* The popups, and the popups opened from them.
MenusOK(st, r) ==
  \A m \in Widget : st.child[m] # NULL =>
    /\ m \in Popups \cap st.live /\ st.child[m] \in Popups \cap st.live
    /\ Owner[st.child[m]] = Owner[m] /\ r[st.child[m]] < r[m]
    /\ \A p \in Widget : st.child[p] = st.child[m] => p = m

\* No window ranks below one that is selected.
SelTop(st, r) ==
  \A w \in st.sel, d \in Windows :
    st.parent[w] # NULL /\ st.parent[d] # NULL => r[w] <= r[d]

\* The tree between two steps.
Sound(st, r) ==
  /\ Ranks(st, r) /\ Placed(st) /\ Whole(st) /\ MenusOK(st, r)
  /\ ~Behind => SelTop(st, r)

\* The panel lies below all the others on the desktop.
PanelLow(st, r) ==
  /\ Panel \in st.live
  /\ \A c \in Widget : st.parent[c] = DeskTop => r[c] <= r[Panel]

Frame == [o : Widget, a : Widget, n : Widget \cup {NULL}]

\* The walk of an application that ends: it spares the desktop and the panel, and its
\* popups have no submenu open.
Walks ==
  /\ walk \in Seq(Frame) /\ app \in {NULL} \cup {Owner[w] : w \in Widget}
  /\ walk # << >> => /\ app # Owner[DeskTop] /\ app # Owner[Panel]
                     /\ \A m \in Open : Owner[m] = app => s.child[m] = NULL

\* Each frame is at a child of a widget that is not the application's.
FramesOK ==
  \A k \in DOMAIN walk :
    /\ walk[k].o \in s.live /\ Owner[walk[k].o] # app
    /\ IF k = 1 THEN walk[k].o = DeskTop ELSE walk[k].o \in Windows
    /\ s.parent[IF walk[k].n = NULL THEN walk[k].a ELSE walk[k].n] = walk[k].o
    /\ k < Len(walk) => walk[k].n # NULL

\* The widgets of the application that are left on the desktop are still ahead of the walk,
\* which begins at the panel and goes on from the highest child.
Ahead(f, r) ==
  \/ f.a = Panel /\ f.n = NULL
  \/ \A c \in Widget : s.parent[c] = DeskTop /\ Owner[c] = app =>
       r[IF f.n = NULL THEN f.a ELSE f.n] <= r[c]

\* While a menu is open no window is selected.
MenusFirst == Open # {} => s.sel = {}

Inv ==
  /\ Walks /\ FramesOK /\ (~UnderMenus => MenusFirst)
  /\ \E r : /\ Sound(s, r) /\ PanelLow(s, r)
            /\ ~UnderMenus /\ walk # << >> => Ahead(walk[1], r)

LEMMA Sorts ==
  /\ Widget = Windows \cup Popups \cup Controls \cup {DeskTop, Panel}
  /\ Windows \cap Popups = {} /\ Windows \cap Controls = {} /\ Popups \cap Controls = {}
  /\ {DeskTop, Panel} \cap (Windows \cup Popups \cup Controls) = {}
  /\ DeskTop \in Widget /\ Panel \in Widget /\ DeskTop # Panel /\ NULL \notin Widget
  /\ IsFiniteSet(Widget) /\ Windows \subseteq Widget /\ Popups \subseteq Widget
  /\ Controls \subseteq Widget
BY WidgetAssumption DEF Controls

LEMMA TreeLinks ==
  ASSUME NEW st \in Tree
  PROVE  LinksTyped(Widget, NULL, st)
BY DEF Tree, LinksTyped, LinkSet, Link

(***************************************************************************)
(* The operations on the rings.                                            *)
(***************************************************************************)
\* RemoveWidgetEx takes the widget out of its ring, and changes nothing else.
LEMMA RemoveRanks ==
  ASSUME NEW st, NEW r, Ranks(st, r), NEW i \in Widget, st.parent[i] # NULL
  PROVE  /\ Ranks(RemoveWidgetEx(st, i), r)
         /\ RemoveWidgetEx(st, i).parent = [st.parent EXCEPT ![i] = NULL]
         /\ RemoveWidgetEx(st, i).live = st.live /\ RemoveWidgetEx(st, i).sel = st.sel
         /\ RemoveWidgetEx(st, i).child = st.child
<1> DEFINE o == st.parent[i]
<1>1. st \in Tree /\ NULL \notin Widget
  BY Sorts DEF Ranks
<1>2. o \in Widget /\ st.next[i] \in Widget /\ st.prev[i] \in Widget
      /\ st.next[st.prev[i]] = i /\ st.prev[st.next[i]] = i
  BY <1>1 DEF Ranks, Ringed, RoundTrips, Tree, Link
<1>3. PICK z : z = [st EXCEPT !.last = [st.last EXCEPT ![o] =
                                  IF st.next[i] = i THEN NULL
                                  ELSE IF st.last[o] = i THEN st.prev[i] ELSE st.last[o]],
                              !.next = [st.next EXCEPT ![st.prev[i]] = st.next[i]],
                              !.prev = [st.prev EXCEPT ![st.next[i]] = st.prev[i]],
                              !.parent = [st.parent EXCEPT ![i] = NULL]]
  OBVIOUS
<1>4. z \in Tree
  BY <1>1, <1>2, <1>3 DEF Tree, Link
<1>5. /\ z.last = [st.last EXCEPT ![o] = IF st.next[i] = i THEN NULL
                     ELSE IF st.last[o] = i THEN st.prev[i] ELSE st.last[o]]
      /\ z.next = [st.next EXCEPT ![st.prev[i]] = st.next[i]]
      /\ z.prev = [st.prev EXCEPT ![st.next[i]] = st.prev[i]]
      /\ z.parent = [st.parent EXCEPT ![i] = NULL]
      /\ z.live = st.live /\ z.sel = st.sel /\ z.child = st.child
  BY <1>1, <1>3 DEF Tree
<1>6. Ringed(Widget, NULL, z, r)
  <2>1. Loses(st, z, i, NULL)
    BY <1>5 DEF Loses
  <2> QED
    BY <1>2, <1>4, <2>1, RingLoses, TreeLinks DEF Ranks
<1>7. RemoveWidgetEx(st, i) = z
  <2>1. CASE st.next[i] = i
    <3>1. st.prev[i] = i
      BY <1>2, <2>1
    <3>2. /\ [st.next EXCEPT ![st.prev[i]] = st.next[i]] = st.next
          /\ [st.prev EXCEPT ![st.next[i]] = st.prev[i]] = st.prev
      BY <1>1, <2>1, <3>1 DEF Tree, Link
    <3>3. z = [st EXCEPT !.last = [st.last EXCEPT ![o] = NULL],
                         !.parent = [st.parent EXCEPT ![i] = NULL]]
      BY <1>1, <1>3, <2>1, <3>2 DEF Tree
    <3> QED
      BY <1>1, <2>1, <3>3 DEF RemoveWidgetEx, Tree
  <2>2. CASE st.next[i] # i
    BY <1>1, <1>3, <2>2 DEF RemoveWidgetEx, Tree
  <2> QED
    BY <2>1, <2>2
<1> QED
  BY <1>4, <1>5, <1>6, <1>7 DEF Ranks

\* InsertFirst makes a widget the highest child: it gets a rank below all others.
LEMMA InsertRanks ==
  ASSUME NEW st, NEW r, Ranks(st, r), NEW i \in Widget, st.parent[i] = NULL,
         NEW o \in Widget, NEW n \in Int, \A w \in Widget : n < r[w]
  PROVE  /\ Ranks(InsertFirst(st, o, i), [r EXCEPT ![i] = n])
         /\ InsertFirst(st, o, i).parent = [st.parent EXCEPT ![i] = o]
         /\ InsertFirst(st, o, i).live = st.live /\ InsertFirst(st, o, i).sel = st.sel
         /\ InsertFirst(st, o, i).child = st.child
<1> DEFINE z == InsertFirst(st, o, i)
           t == [r EXCEPT ![i] = n]
<1>1. st \in Tree /\ NULL \notin Widget /\ Ringed(Widget, NULL, st, r) /\ r \in [Widget -> Int]
  BY Sorts DEF Ranks, Ringed
<1>2. \E b \in Int : \A w \in Widget : b < t[w]
  <2>1. n - 1 \in Int /\ \A w \in Widget : n - 1 < t[w]
    BY <1>1
  <2> QED
    BY <2>1
<1>5. t \in [Widget -> Int] /\ t[i] = n /\ \A w \in Widget \ {i} : t[w] = r[w]
  BY <1>1
<1> HIDE DEF t
<1>3. CASE st.last[o] = NULL
  <2>1. z = [st EXCEPT !.next = [st.next EXCEPT ![i] = i], !.prev = [st.prev EXCEPT ![i] = i],
                       !.last = [st.last EXCEPT ![o] = i], !.parent = [st.parent EXCEPT ![i] = o]]
    BY <1>1, <1>3 DEF InsertFirst, Tree
  <2>2. z \in Tree
    <3> HIDE DEF z
    <3> QED
      BY <1>1, <2>1 DEF Tree, Link
  <2>3. /\ z.last = [st.last EXCEPT ![o] = i] /\ z.next = [st.next EXCEPT ![i] = i]
        /\ z.prev = [st.prev EXCEPT ![i] = i] /\ z.parent = [st.parent EXCEPT ![i] = o]
        /\ z.live = st.live /\ z.sel = st.sel /\ z.child = st.child
    BY <1>1, <2>1 DEF Tree
  <2> HIDE DEF z
  <2>4. Ringed(Widget, NULL, z, t)
    <3>1. LinksTyped(Widget, NULL, z)
      BY <2>2, TreeLinks
    <3>2. Begins(st, z, i, o)
      BY <2>3 DEF Begins
    <3> QED
      BY <1>1, <1>3, <1>5, <3>1, <3>2, RingBegins
  <2> QED
    BY <1>2, <2>2, <2>3, <2>4 DEF Ranks, z, t
<1>4. CASE st.last[o] # NULL
  <2> DEFINE l == st.last[o]
             b == st.next[l]
  <2>1. l \in Widget /\ b \in Widget /\ st.prev[b] = l
    <3>1. l \in Widget /\ st.parent[l] = o
      BY <1>1, <1>4 DEF Tree, Link, Ringed, LastsIn
    <3> QED
      BY <1>1, <3>1 DEF Tree, Link, Ringed, RoundTrips
  <2>6. First(st, o) = b
    BY <1>4 DEF First
  <2>2. z = [st EXCEPT !.next = [[st.next EXCEPT ![i] = b] EXCEPT ![l] = i],
                       !.prev = [[st.prev EXCEPT ![i] = l] EXCEPT ![b] = i],
                       !.parent = [st.parent EXCEPT ![i] = o]]
    BY <1>1, <1>4, <2>1, <2>6 DEF InsertFirst, Tree
  <2>3. z \in Tree
    <3> HIDE DEF z, l, b
    <3>1. [[st.next EXCEPT ![i] = b] EXCEPT ![l] = i] \in Link
      BY <1>1, <2>1 DEF Tree, Link
    <3>2. [[st.prev EXCEPT ![i] = l] EXCEPT ![b] = i] \in Link
      BY <1>1, <2>1 DEF Tree, Link
    <3>3. [st.parent EXCEPT ![i] = o] \in Link
      BY <1>1 DEF Tree, Link
    <3> QED
      BY <1>1, <2>2, <3>1, <3>2, <3>3 DEF Tree
  <2>4. /\ z.last = st.last /\ z.next = [[st.next EXCEPT ![i] = b] EXCEPT ![l] = i]
        /\ z.prev = [[st.prev EXCEPT ![i] = l] EXCEPT ![b] = i]
        /\ z.parent = [st.parent EXCEPT ![i] = o]
        /\ z.live = st.live /\ z.sel = st.sel /\ z.child = st.child
    BY <1>1, <2>2 DEF Tree
  <2> HIDE DEF z
  <2>5. Ringed(Widget, NULL, z, t)
    <3>1. Gains(st, z, i, o)
      BY <2>4 DEF Gains
    <3>2. AtAnEnd(Widget, st, z, r, t, i, o)
      BY <1>5, <2>4 DEF AtAnEnd
    <3>3. LinksTyped(Widget, NULL, z)
      BY <2>3, TreeLinks
    <3> QED
      BY <1>1, <1>4, <1>5, <3>1, <3>2, <3>3, RingGains
  <2> QED
    BY <1>2, <2>3, <2>4, <2>5 DEF Ranks, z, t
<1> QED
  BY <1>3, <1>4

\* SetFirstEx raises a widget among its brothers.
LEMMA SetFirstRanks ==
  ASSUME NEW st, NEW r, Ranks(st, r), NEW i \in Widget, st.parent[i] # NULL,
         NEW n \in Int, \A w \in Widget : n < r[w]
  PROVE  /\ Ranks(SetFirstEx(st, i), [r EXCEPT ![i] = n])
         /\ SetFirstEx(st, i).parent = st.parent
         /\ SetFirstEx(st, i).live = st.live /\ SetFirstEx(st, i).sel = st.sel
         /\ SetFirstEx(st, i).child = st.child
<1> DEFINE y == RemoveWidgetEx(st, i)
           o == st.parent[i]
<1>1. st \in Tree /\ o \in Widget
  BY DEF Ranks, Tree, Link
<1>2. /\ Ranks(y, r) /\ y.parent = [st.parent EXCEPT ![i] = NULL]
      /\ y.live = st.live /\ y.sel = st.sel /\ y.child = st.child
  BY RemoveRanks
<1>3. y.parent[i] = NULL
  BY <1>1, <1>2 DEF Tree, Link
<1> HIDE DEF y
<1>4. /\ Ranks(InsertFirst(y, o, i), [r EXCEPT ![i] = n])
      /\ InsertFirst(y, o, i).parent = [y.parent EXCEPT ![i] = o]
      /\ InsertFirst(y, o, i).live = y.live /\ InsertFirst(y, o, i).sel = y.sel
      /\ InsertFirst(y, o, i).child = y.child
  BY <1>1, <1>2, <1>3, InsertRanks
<1>5. [y.parent EXCEPT ![i] = o] = st.parent
  BY <1>1, <1>2 DEF Tree, Link
<1> QED
  BY <1>2, <1>4, <1>5 DEF SetFirstEx, y

(***************************************************************************)
(* The highest window.                                                     *)
(***************************************************************************)
Windowed(st, o) == {w \in Windows : st.parent[w] = o}

\* Highest finds the window of the lowest rank.
LEMMA HighestIs ==
  ASSUME NEW st, NEW r, Ranks(st, r), NEW o \in Widget
  PROVE  IF Windowed(st, o) = {} THEN Highest(st, o) = NULL
         ELSE Highest(st, o) \in Windowed(st, o)
              /\ \A d \in Windowed(st, o) : r[Highest(st, o)] <= r[d]
<1> DEFINE K == KidsOf(Widget, st, o)
           n == Cardinality(K)
           a == First(st, o)
           at == WalkOf(a, st.next, n)
           found == {k \in 0..n : at[k] \in Windows}
           C(c) == Cardinality(LowerKids(Widget, st, r, c))
<1>1. /\ st \in Tree /\ NULL \notin Widget /\ Ringed(Widget, NULL, st, r)
      /\ IsFiniteSet(Widget) /\ Windows \subseteq Widget /\ \A c \in Widget : r[c] \in Int
  BY Sorts DEF Ranks, Ringed
<1>2. Highest(st, o) = IF found = {} THEN NULL ELSE at[Min(found)]
  BY DEF Highest, KidsOf, WalkOf
<1>3. /\ n \in Nat
      /\ \A c \in K : C(c) \in 0..(n - 1)
      /\ \A c, d \in K : r[c] < r[d] => C(c) < C(d)
  BY <1>1, RingPlaces
<1>4. Windowed(st, o) \subseteq K
  BY <1>1 DEF KidsOf, Windowed
<1>5. CASE K = {}
  <2>1. st.last[o] = NULL
    BY <1>1, <1>5 DEF Tree, Link, Ringed, LastsIn, KidsOf
  <2>2. a = NULL
    BY <2>1 DEF First
  <2>3. n = 0
    BY <1>5, FS_EmptySet
  <2>4. at[0] = NULL /\ at \in [0..n -> {NULL}]
    <3> DEFINE V == {NULL}
    <3>1. \A x \in V : n # 0 => st.next[x] \in V
      BY <2>3
    <3>2. a \in V /\ n \in Nat
      BY <1>3, <2>2
    <3>3. at \in [0..n -> V] /\ at[0] = a
      <4> HIDE DEF n, a, V
      <4> QED
        BY <3>1, <3>2, WalkStays
    <3> QED
      BY <2>2, <3>3
  <2>5. found = {}
    BY <1>1, <2>3, <2>4
  <2> QED
    BY <1>2, <1>4, <1>5, <2>5
<1>6. CASE K # {}
  <2>1. st.last[o] # NULL
    BY <1>1, <1>6 DEF Ringed, RoundTrips, KidsOf
  <2>2. a = st.next[st.last[o]]
    BY <2>1 DEF First
  <2>3. /\ st.last[o] \in K /\ \A c \in K : st.next[c] \in K
    BY <1>1, <2>1 DEF Tree, Link, Ringed, LastsIn, RoundTrips, KidsOf
  <2>4. a \in K
    BY <2>2, <2>3
  <2>5. at \in [0..n -> K] /\ at[0] = a /\ GoesOn(at, st.next, 0, n)
    <3> HIDE DEF n, a, K
    <3> QED
      BY <1>3, <2>3, <2>4, WalkStays
  <2> HIDE DEF at, found
  <2>6. \A k \in 0..(n - 1) : at[k] \in K /\ C(at[k]) = k
    <3>1. \A k \in 0..n : k - 0 < n => at[k] \in K /\ C(at[k]) = k - 0
      <4>2. at[0] = st.next[st.last[o]] /\ 0 \in Nat
        BY <2>2, <2>5
      <4> QED
        <5> HIDE DEF n
        <5>1. \A k \in 0..n : k - 0 < Cardinality(KidsOf(Widget, st, o)) =>
                at[k] \in KidsOf(Widget, st, o) /\ Cardinality(LowerKids(Widget, st, r, at[k])) = k - 0
          BY <1>1, <1>3, <2>1, <2>5, <4>2, RingWalk
        <5> QED
          BY <5>1 DEF n
    <3> HIDE DEF n, K, C
    <3> QED
      BY <1>3, <3>1
  <2>7. \A d \in K : at[C(d)] = d
    <3> SUFFICES ASSUME NEW d \in K PROVE at[C(d)] = d
      OBVIOUS
    <3>1. C(d) \in 0..(n - 1)
      BY <1>3
    <3>2. at[C(d)] \in K /\ C(at[C(d)]) = C(d)
      BY <2>6, <3>1
    <3> QED
      BY <1>1, <3>2, RingPlace
  <2>8. \A d \in Windowed(st, o) : C(d) \in found
    BY <1>3, <1>4, <2>7 DEF found, Windowed
  <2>9. CASE Windowed(st, o) = {}
    <3>1. found = {}
      BY <1>1, <2>5, <2>9 DEF found, Windowed, KidsOf
    <3> QED
      BY <1>2, <2>9, <3>1
  <2>10. CASE Windowed(st, o) # {}
    <3>1. found # {} /\ found \in SUBSET Nat
      BY <1>3, <2>8, <2>10 DEF found
    <3>2. Min(found) \in found /\ \A k \in found : Min(found) <= k
      BY <3>1, LeastNumber DEF Min
    <3> DEFINE m == Min(found)
    <3>3. Highest(st, o) = at[m]
      BY <1>2, <3>1
    <3>4. PICK e \in Windowed(st, o) : TRUE
      BY <2>10
    <3>5. m \in 0..(n - 1)
      <4>1. C(e) \in found /\ C(e) \in 0..(n - 1)
        BY <1>3, <1>4, <2>8
      <4>2. m <= C(e) /\ m \in Nat
        BY <3>1, <3>2, <4>1
      <4> QED
        BY <1>3, <4>1, <4>2
    <3>6. at[m] \in Windows /\ at[m] \in K /\ C(at[m]) = m
      BY <2>6, <3>2, <3>5 DEF found
    <3>7. ASSUME NEW d \in Windowed(st, o) PROVE r[at[m]] <= r[d]
      <4>1. d \in K /\ m <= C(d)
        BY <1>4, <2>8, <3>2
      <4>2. ~(r[d] < r[at[m]])
        <5>1. r[d] < r[at[m]] => C(d) < C(at[m])
          BY <1>3, <3>6, <4>1
        <5>2. C(d) \in Int /\ m \in Int
          BY <1>3, <3>5, <4>1
        <5> HIDE DEF C, m
        <5> QED
          BY <3>6, <4>1, <5>1, <5>2
      <4>3. r[d] \in Int /\ r[at[m]] \in Int
        BY <1>1, <3>6, <4>1 DEF KidsOf
      <4> QED
        BY <4>2, <4>3
    <3>8. at[m] \in Windowed(st, o)
      BY <3>6 DEF KidsOf, Windowed
    <3> QED
      BY <2>10, <3>3, <3>7, <3>8
  <2> QED
    BY <2>9, <2>10
<1> QED
  BY <1>5, <1>6

\* A window that none ranks below is the highest.
LEMMA LowestRankIsHighest ==
  ASSUME NEW st, NEW r, Ranks(st, r), NEW o \in Widget, NEW w \in Windowed(st, o),
         \A d \in Windowed(st, o) : r[w] <= r[d]
  PROVE  Highest(st, o) = w
<1> DEFINE h == Highest(st, o)
<1>1. h \in Windowed(st, o) /\ r[h] <= r[w]
  BY HighestIs
<1>2. /\ h \in Widget /\ w \in Widget /\ st.parent[h] = o /\ st.parent[w] = o /\ o # NULL
      /\ r[h] \in Int /\ r[w] \in Int
  BY <1>1, Sorts DEF Windowed, Ranks, Ringed
<1>3. r[w] <= r[h]
  BY <1>1
<1>4. r[h] = r[w]
  <2> HIDE DEF h
  <2> QED
    BY <1>1, <1>2, <1>3
<1> QED
  BY <1>2, <1>4 DEF Ranks, Ringed, RankOrder

(***************************************************************************)
(* Selecting and removing.                                                 *)
(***************************************************************************)
\* All the windows that have a parent lie on the desktop.
OnDeskTop(st) == \A w \in Windows : st.parent[w] \in {NULL, DeskTop}

\* What a selection and a removal leave as it was, and that they keep the selection on top.
Keeps(st, r, z, t) ==
  /\ z.live = st.live /\ z.child = st.child
  /\ \A c \in Widget : t[c] = r[c] \/ (c \in Windows /\ \A d \in Widget : t[c] <= t[d])
  /\ z.sel \subseteq st.sel \cup {w \in Windows : st.parent[w] # NULL}
  /\ SelTop(st, r) => SelTop(z, t)

LEMMA SelectRanks ==
  ASSUME NEW st, NEW r, Ranks(st, r), OnDeskTop(st), NEW w \in Widget, st.parent[w] = DeskTop
  PROVE  \E t : /\ Ranks(Select(st, w), t) /\ Keeps(st, r, Select(st, w), t)
                /\ Select(st, w).parent = st.parent
                /\ \A c \in Widget \ {w} : t[c] = r[c]
                /\ w \in Windows \ st.sel => SelTop(Select(st, w), t)
                /\ w \notin Windows => Select(st, w).sel \subseteq st.sel
<1>1. /\ st \in Tree /\ NULL \notin Widget /\ DeskTop # NULL /\ r \in [Widget -> Int]
      /\ Windows \subseteq Widget /\ Windows \cap Popups = {} /\ Popups \subseteq Widget
  BY Sorts DEF Ranks, Ringed
<1> DEFINE new == w \in Windows \ st.sel
           raised == IF new THEN [SetFirstEx(st, w) EXCEPT !.sel = SetFirstEx(st, w).sel \cup {w}] ELSE st
           gone == Brothers(st, w) \cap Windows
           z == Select(st, w)
<1>2. PICK t : /\ Ranks(raised, t) /\ raised.parent = st.parent /\ raised.live = st.live
               /\ raised.child = st.child /\ \A c \in Widget \ {w} : t[c] = r[c]
               /\ raised.sel = st.sel \cup ({w} \cap Windows)
               /\ IF new THEN \A c \in Widget : t[w] <= t[c] ELSE t = r
  <2>1. CASE ~new
    <3>1. raised = st /\ st.sel = st.sel \cup ({w} \cap Windows)
      BY <2>1
    <3> HIDE DEF raised
    <3> QED
      BY <2>1, <3>1
  <2>2. CASE new
    <3>1. PICK n \in Int : \A c \in Widget : n < r[c]
      BY DEF Ranks
    <3>2. PICK t : t = [r EXCEPT ![w] = n]
      OBVIOUS
    <3>3. PICK y : y = SetFirstEx(st, w)
      OBVIOUS
    <3>4. /\ Ranks(y, t) /\ y.parent = st.parent /\ y.live = st.live /\ y.sel = st.sel
          /\ y.child = st.child
      BY <1>1, <3>1, <3>2, <3>3, SetFirstRanks
    <3>5. PICK x : x = [y EXCEPT !.sel = y.sel \cup {w}]
      OBVIOUS
    <3>6. raised = x
      BY <2>2, <3>3, <3>5
    <3>7. /\ x \in Tree /\ x.sel = st.sel \cup {w} /\ x.parent = y.parent /\ x.live = y.live
          /\ x.child = y.child /\ x.next = y.next /\ x.prev = y.prev /\ x.last = y.last
      BY <1>1, <2>2, <3>4, <3>5 DEF Ranks, Tree
    <3>8. Ranks(x, t)
      BY <3>4, <3>7 DEF Ranks, Ringed, LinksTyped, LastsIn, RoundTrips, RankOrder
    <3>9. t[w] = n /\ \A c \in Widget \ {w} : t[c] = r[c]
      BY <1>1, <3>2
    <3>11. \A c \in Widget : t[w] <= t[c]
      BY <1>1, <3>1, <3>9
    <3> HIDE DEF raised
    <3> QED
      BY <2>2, <3>4, <3>6, <3>7, <3>8, <3>9, <3>11
  <2> QED
    BY <2>1, <2>2
<1>3. z = [raised EXCEPT !.sel = raised.sel \ gone]
  BY DEF Select
<1> HIDE DEF raised, z
<1>4. /\ z \in Tree /\ z.sel = raised.sel \ gone /\ z.parent = raised.parent
      /\ z.live = raised.live /\ z.child = raised.child
      /\ z.next = raised.next /\ z.prev = raised.prev /\ z.last = raised.last
  BY <1>2, <1>3 DEF Ranks, Tree
<1>5. Ranks(z, t)
  BY <1>2, <1>4 DEF Ranks, Ringed, LinksTyped, LastsIn, RoundTrips, RankOrder
<1>6. ASSUME SelTop(st, r) \/ new PROVE SelTop(z, t)
  <2> SUFFICES ASSUME NEW x \in z.sel, NEW d \in Windows, z.parent[x] # NULL, z.parent[d] # NULL
               PROVE  t[x] <= t[d]
    BY DEF SelTop
  <2>1. x \in Windows /\ x \in Widget /\ d \in Widget /\ x \in raised.sel /\ x \notin gone
    BY <1>1, <1>4 DEF Tree
  <2>2. x = w
    <3>1. st.parent[x] = DeskTop /\ st.parent[w] = DeskTop
      BY <1>2, <1>4, <2>1 DEF OnDeskTop
    <3> QED
      BY <2>1, <3>1 DEF Brothers
  <2>3. CASE new
    BY <1>2, <2>1, <2>2, <2>3
  <2>4. CASE ~new
    <3>1. w \in st.sel /\ t = r
      BY <1>2, <2>1, <2>2, <2>4
    <3> QED
      BY <1>2, <1>4, <1>6, <2>2, <3>1 DEF SelTop
  <2> QED
    BY <2>3, <2>4
<1>7. z.sel \subseteq st.sel \cup {c \in Windows : st.parent[c] # NULL}
  BY <1>1, <1>2, <1>4
<1>8. \A c \in Widget : t[c] = r[c] \/ (c \in Windows /\ \A d \in Widget : t[c] <= t[d])
  BY <1>2
<1>9. Keeps(st, r, z, t)
  BY <1>2, <1>4, <1>6, <1>7, <1>8 DEF Keeps
<1> QED
  BY <1>2, <1>4, <1>5, <1>6, <1>9 DEF z

LEMMA RemovedRanks ==
  ASSUME NEW st, NEW r, Ranks(st, r), OnDeskTop(st), NEW i \in Widget, st.parent[i] # NULL
  PROVE  \E t : /\ Ranks(Removed(st, i), t) /\ Keeps(st, r, Removed(st, i), t)
                /\ Removed(st, i).parent = [st.parent EXCEPT ![i] = NULL]
                /\ i \notin st.sel => t = r /\ Removed(st, i).sel = st.sel
                /\ \A c \in Widget : t[c] = r[c] \/
                     \A d \in Windows \ {i} : st.parent[d] = DeskTop => r[c] <= r[d]
<1>1. PICK y : y = RemoveWidgetEx(st, i)
  OBVIOUS
<1>2. /\ Ranks(y, r) /\ y.parent = [st.parent EXCEPT ![i] = NULL]
      /\ y.live = st.live /\ y.sel = st.sel /\ y.child = st.child
  BY <1>1, RemoveRanks
<1>3. st \in Tree /\ st.parent[i] \in Widget /\ Windows \subseteq Widget /\ NULL \notin Widget
  BY Sorts DEF Ranks, Tree, Link
<1>4. \A c \in Widget : y.parent[c] = IF c = i THEN NULL ELSE st.parent[c]
  BY <1>2, <1>3 DEF Tree, Link
<1>5. OnDeskTop(y)
  BY <1>3, <1>4 DEF OnDeskTop
<1>6. Keeps(st, r, y, r)
  <2>1. SelTop(st, r) => SelTop(y, r)
    BY <1>2, <1>3, <1>4 DEF SelTop, Tree
  <2> QED
    BY <1>2, <2>1 DEF Keeps
<1> DEFINE next == Highest(y, st.parent[i])
<1>7. Removed(st, i) = IF i \in st.sel /\ next # NULL THEN Select(y, next) ELSE y
  BY <1>1 DEF Removed
<1>8. CASE i \in st.sel /\ next # NULL
  <2>1. /\ next \in Windowed(y, st.parent[i])
        /\ \A d \in Windowed(y, st.parent[i]) : r[next] <= r[d]
    BY <1>2, <1>3, <1>8, HighestIs
  <2>2. next \in Widget /\ y.parent[next] = DeskTop
    BY <1>3, <1>5, <2>1 DEF Windowed, OnDeskTop
  <2> HIDE DEF next
  <2>9. y.parent[next] = DeskTop /\ next \in Widget
    BY <2>2
  <2>3. PICK t : /\ Ranks(Select(y, next), t) /\ Keeps(y, r, Select(y, next), t)
                 /\ Select(y, next).parent = y.parent
                 /\ \A c \in Widget \ {next} : t[c] = r[c]
                 /\ next \in Windows \ y.sel => SelTop(Select(y, next), t)
                 /\ next \notin Windows => Select(y, next).sel \subseteq y.sel
    BY <1>2, <1>5, <2>9, SelectRanks, Zenon
  <2>4. PICK z : z = Select(y, next)
    OBVIOUS
  <2>5. Keeps(st, r, z, t)
    <3>1. z.sel \subseteq st.sel \cup {w \in Windows : st.parent[w] # NULL}
      BY <1>2, <1>3, <1>4, <2>3, <2>4 DEF Keeps
    <3> QED
      BY <1>2, <1>6, <2>3, <2>4, <3>1 DEF Keeps
  <2>6. Removed(st, i) = z
    BY <1>7, <1>8, <2>4
  <2>7. st.parent[i] = DeskTop
    BY <1>3, <1>5, <2>1 DEF Windowed, OnDeskTop
  <2>8. \A d \in Windows \ {i} : st.parent[d] = DeskTop => r[next] <= r[d]
    BY <1>3, <1>4, <2>1, <2>7 DEF Windowed
  <2> QED
    BY <1>2, <1>8, <2>3, <2>4, <2>5, <2>6, <2>8
<1>9. CASE ~(i \in st.sel /\ next # NULL)
  <2>1. Removed(st, i) = y
    BY <1>7, <1>9
  <2> QED
    BY <1>2, <1>6, <2>1
<1> QED
  BY <1>8, <1>9

(***************************************************************************)
(* Disposing of a widget.                                                  *)
(***************************************************************************)
\* The popups that were opened from w on: they are there, and all different.
LEMMA OpenedIs ==
  ASSUME NEW st \in Tree, NEW r \in [Widget -> Int], MenusOK(st, r), NEW w \in Widget
  PROVE  /\ Cardinality(Popups) \in Nat
         /\ Opened(st, w)[0] = w
         /\ \A k \in 0..Cardinality(Popups) : Opened(st, w)[k] \in Widget \cup {NULL}
         /\ \A k \in 1..Cardinality(Popups) : Opened(st, w)[k] # NULL =>
              /\ Opened(st, w)[k - 1] # NULL /\ Opened(st, w)[k] = st.child[Opened(st, w)[k - 1]]
              /\ Opened(st, w)[k] \in Popups \cap st.live
         /\ \A k \in 0..Cardinality(Popups) : Opened(st, w)[k] # NULL =>
              \A j \in 0..(k - 1) : /\ Opened(st, w)[j] # NULL
                                    /\ r[Opened(st, w)[k]] < r[Opened(st, w)[j]]
<1> DEFINE n == Cardinality(Popups)
           V == Widget \cup {NULL}
           at == Opened(st, w)
           F == [x \in V |-> IF x = NULL THEN NULL ELSE st.child[x]]
           E(x) == [k \in 0..n |-> IF k = 0 THEN w
                                   ELSE IF x[k - 1] = NULL THEN NULL ELSE st.child[x[k - 1]]]
<1>1. n \in Nat /\ NULL \notin Widget /\ Popups \subseteq Widget
  BY Sorts, FS_Subset, FS_CardinalityType
<1>2. \A x \in V : F[x] \in V /\ F[x] = IF x = NULL THEN NULL ELSE st.child[x]
  BY <1>1 DEF Tree, Link
<1>3. PICK f : f \in [0..n -> V] /\ f[0] = w /\ GoesOn(f, F, 0, n)
  <2>1. w \in V /\ \A x \in V : n # 0 => F[x] \in V
    BY <1>2
  <2> HIDE DEF n, V, F
  <2> QED
    BY <1>1, <2>1, WalkStays
<1> HIDE DEF F
<1>4. f = E(f)
  <2>1. \A k \in 0..n : f[k] = IF k = 0 THEN w ELSE IF f[k - 1] = NULL THEN NULL ELSE st.child[f[k - 1]]
    <3> SUFFICES ASSUME NEW k \in 0..n, k # 0
                 PROVE  f[k] = IF f[k - 1] = NULL THEN NULL ELSE st.child[f[k - 1]]
      BY <1>3
    <3>1. k \in (0 + 1)..n /\ k - 1 \in 0..n
      BY <1>1
    <3>2. f[k] = F[f[k - 1]] /\ f[k - 1] \in V
      BY <1>3, <3>1 DEF GoesOn
    <3> HIDE DEF V
    <3> QED
      BY <1>2, <3>2
  <2>2. f = [k \in 0..n |-> f[k]]
    BY <1>3
  <2> QED
    BY <2>1, <2>2
<1>5. at = CHOOSE x : x = E(x)
  BY DEF Opened
<1> HIDE DEF at
<1>6. at = E(at)
  <2> HIDE DEF E
  <2> QED
    BY <1>4, <1>5
<1>7. \A k \in 0..n : at[k] = IF k = 0 THEN w
                             ELSE IF at[k - 1] = NULL THEN NULL ELSE st.child[at[k - 1]]
  BY <1>6
<1> HIDE DEF E, n
<1> DEFINE P(k) == /\ at[k] \in V
                   /\ k # 0 /\ at[k] # NULL =>
                        /\ at[k - 1] # NULL /\ at[k] = st.child[at[k - 1]]
                        /\ at[k] \in Popups \cap st.live
                   /\ at[k] # NULL => \A j \in 0..(k - 1) :
                        at[j] \in Widget /\ at[j] # NULL /\ r[at[k]] < r[at[j]]
<1>8. \A k \in 0..n : P(k)
  <2> DEFINE T == {k \in Nat : k <= n => P(k)}
  <2>1. 0 \in T
    BY <1>1, <1>7
  <2>2. ASSUME NEW k \in Nat, k \in T PROVE k + 1 \in T
    <3> SUFFICES ASSUME k + 1 <= n PROVE P(k + 1)
      OBVIOUS
    <3>1. P(k) /\ k \in 0..n /\ k + 1 \in 0..n /\ (k + 1) - 1 = k /\ k + 1 # 0
      BY <1>1, <2>2
    <3>2. at[k + 1] = IF at[k] = NULL THEN NULL ELSE st.child[at[k]]
      BY <1>7, <3>1
    <3>3. at[k + 1] \in V
      BY <1>1, <3>1, <3>2 DEF Tree, Link
    <3>4. ASSUME at[k + 1] # NULL
          PROVE  /\ at[k] # NULL /\ at[k + 1] = st.child[at[k]]
                 /\ at[k + 1] \in Popups \cap st.live /\ r[at[k + 1]] < r[at[k]]
      BY <3>1, <3>2, <3>4 DEF MenusOK
    <3>5. ASSUME at[k + 1] # NULL, NEW j \in 0..k
          PROVE  at[j] \in Widget /\ at[j] # NULL /\ r[at[k + 1]] < r[at[j]]
      <4>1. CASE j = k
        BY <3>1, <3>4, <3>5, <4>1
      <4>2. CASE j # k
        <5>1. j \in 0..(k - 1)
          BY <4>2
        <5>2. at[j] \in Widget /\ at[j] # NULL /\ r[at[k]] < r[at[j]]
          BY <3>1, <3>4, <3>5, <5>1
        <5>3. r[at[k + 1]] \in Int /\ r[at[k]] \in Int /\ r[at[j]] \in Int
          BY <3>1, <3>3, <3>4, <3>5, <5>2
        <5> QED
          BY <3>4, <3>5, <5>2, <5>3
      <4> QED
        BY <4>1, <4>2
    <3> HIDE DEF V
    <3> QED
      BY <3>1, <3>3, <3>4, <3>5
  <2> HIDE DEF T, P
  <2>3. Nat \subseteq T
    BY <2>1, <2>2, SetInduction
  <2> QED
    BY <1>1, <2>3 DEF T
<1> HIDE DEF V
<1>9. at[0] = w
  BY <1>1, <1>7
<1>10. \A k \in 1..n : k \in 0..n /\ k # 0
  OBVIOUS
<1> QED
  BY <1>1, <1>8, <1>9, <1>10 DEF n, at, V

\* A widget that goes unlinked takes the popups opened from it along; where the selection goes
\* on to another window, it is the highest that is left.
LEMMA UnlinkedIs ==
  ASSUME NEW st, NEW r, Ranks(st, r), OnDeskTop(st), MenusOK(st, r),
         \A m \in Popups \cap st.live : st.parent[m] # NULL,
         NEW w \in Widget, st.parent[w] # NULL
  PROVE  \E t : /\ Ranks(Unlinked(st, w), t) /\ Keeps(st, r, Unlinked(st, w), t)
                /\ \A c \in Widget : Unlinked(st, w).parent[c] =
                     IF \E k \in 0..Cardinality(Popups) : Opened(st, w)[k] = c THEN NULL
                     ELSE st.parent[c]
                /\ w \notin st.sel => t = r /\ Unlinked(st, w).sel = st.sel
                /\ \A c \in Widget : t[c] = r[c] \/
                     \A d \in Windows \ {w} : st.parent[d] = DeskTop => r[c] <= r[d]
<1> DEFINE n == Cardinality(Popups)
           O == Opened(st, w)
           Step(y, k) == IF O[k] = NULL THEN y ELSE Removed(y, O[k])
           E(x) == [k \in 0..n |-> IF k = 0 THEN Removed(st, w) ELSE Step(x[k - 1], k)]
           out == CHOOSE x : x = E(x)
<1>1. /\ st \in Tree /\ r \in [Widget -> Int] /\ NULL \notin Widget /\ Windows \subseteq Widget
      /\ Popups \subseteq Widget /\ Windows \cap Popups = {}
  BY Sorts DEF Ranks, Ringed
<1>2. /\ n \in Nat /\ O[0] = w
      /\ \A k \in 1..n : O[k] # NULL => O[k] \in Popups \cap st.live
      /\ \A k \in 0..n : O[k] # NULL => \A j \in 0..(k - 1) : r[O[k]] < r[O[j]]
  BY <1>1, OpenedIs
<1>3. Unlinked(st, w) = out[n]
  BY DEF Unlinked
<1> HIDE DEF O, n
<1>4. \E g : g = E(g)
  <2> DEFINE Follows(g, m) == /\ g = [k \in 0..m |-> g[k]] /\ g[0] = Removed(st, w)
                              /\ \A k \in 1..m : g[k] = Step(g[k - 1], k)
             T == {m \in Nat : \E g : Follows(g, m)}
  <2> HIDE DEF Step
  <2>1. 0 \in T
    <3>1. Follows([k \in 0..0 |-> Removed(st, w)], 0)
      OBVIOUS
    <3> QED
      BY <3>1
  <2>2. ASSUME NEW m \in Nat, m \in T PROVE m + 1 \in T
    <3>1. PICK g : Follows(g, m)
      BY <2>2
    <3> DEFINE h == [k \in 0..(m + 1) |-> IF k = m + 1 THEN Step(g[m], m + 1) ELSE g[k]]
    <3>2. h = [k \in 0..(m + 1) |-> h[k]] /\ h[0] = Removed(st, w)
      BY <3>1
    <3>3. ASSUME NEW k \in 1..(m + 1) PROVE h[k] = Step(h[k - 1], k)
      <4>1. k - 1 \in 0..m /\ h[k - 1] = g[k - 1]
        OBVIOUS
      <4>2. CASE k = m + 1
        BY <4>1, <4>2
      <4>3. CASE k # m + 1
        <5>1. k \in 1..m /\ h[k] = g[k]
          BY <4>3
        <5> QED
          BY <3>1, <4>1, <5>1
      <4> QED
        BY <4>2, <4>3
    <3> HIDE DEF h
    <3>4. Follows(h, m + 1)
      BY <3>2, <3>3
    <3> HIDE DEF Follows
    <3>5. \E e : Follows(e, m + 1)
      BY <3>4
    <3> QED
      BY <3>5
  <2>3. PICK g : Follows(g, n)
    <3> HIDE DEF T, Follows
    <3>1. Nat \subseteq T
      BY <2>1, <2>2, SetInduction
    <3> QED
      BY <1>2, <3>1 DEF T
  <2>4. \A k \in 0..n : g[k] = IF k = 0 THEN Removed(st, w) ELSE Step(g[k - 1], k)
    BY <2>3
  <2>5. g = E(g)
    BY <2>3, <2>4
  <2> QED
    BY <2>5
<1>5. out = E(out)
  <2> HIDE DEF E
  <2> QED
    BY <1>4
<1>6. /\ out[0] = Removed(st, w)
      /\ \A k \in 1..n : out[k] = Step(out[k - 1], k)
  <2> HIDE DEF Step, out
  <2>1. \A k \in 0..n : out[k] = IF k = 0 THEN Removed(st, w) ELSE Step(out[k - 1], k)
    BY <1>5
  <2> QED
    BY <1>2, <2>1
<1> HIDE DEF out, E
<1>7. PICK t : /\ Ranks(out[0], t) /\ Keeps(st, r, out[0], t)
               /\ out[0].parent = [st.parent EXCEPT ![w] = NULL]
               /\ w \notin st.sel => t = r /\ out[0].sel = st.sel
               /\ \A c \in Widget : t[c] = r[c] \/
                    \A d \in Windows \ {w} : st.parent[d] = DeskTop => r[c] <= r[d]
  <2>1. \E t : /\ Ranks(Removed(st, w), t) /\ Keeps(st, r, Removed(st, w), t)
               /\ Removed(st, w).parent = [st.parent EXCEPT ![w] = NULL]
               /\ w \notin st.sel => t = r /\ Removed(st, w).sel = st.sel
               /\ \A c \in Widget : t[c] = r[c] \/
                    \A d \in Windows \ {w} : st.parent[d] = DeskTop => r[c] <= r[d]
    BY RemovedRanks, Zenon
  <2> QED
    BY <1>6, <2>1
<1> DEFINE P(k) == /\ Ranks(out[k], t) /\ out[k].live = out[0].live /\ out[k].child = out[0].child
                   /\ out[k].sel = out[0].sel
                   /\ \A c \in Widget : out[k].parent[c] =
                        IF \E j \in 0..k : O[j] = c THEN NULL ELSE st.parent[c]
<1>8. P(0)
  <2>1. \A c \in Widget : out[0].parent[c] = IF c = w THEN NULL ELSE st.parent[c]
    BY <1>1, <1>7 DEF Tree, Link
  <2> QED
    BY <1>2, <1>7, <2>1
<1>9. ASSUME NEW k \in Nat, k + 1 <= n, P(k) PROVE P(k + 1)
  <2>1. k + 1 \in 1..n /\ k + 1 \in 0..n /\ (k + 1) - 1 = k
    BY <1>2, <1>9
  <2>2. out[k + 1] = Step(out[k], k + 1)
    BY <1>6, <2>1
  <2>3. \A c : (\E j \in 0..(k + 1) : O[j] = c) <=> (\E j \in 0..k : O[j] = c) \/ c = O[k + 1]
    OBVIOUS
  <2>4. CASE O[k + 1] = NULL
    <3>1. out[k + 1] = out[k]
      BY <2>2, <2>4
    <3> QED
      BY <1>1, <1>9, <2>3, <2>4, <3>1
  <2>5. CASE O[k + 1] # NULL
    <3> DEFINE i == O[k + 1]
    <3>1. i \in Popups \cap st.live /\ i \in Widget /\ st.parent[i] # NULL
      BY <1>1, <1>2, <2>1, <2>5
    <3>2. \A j \in 0..k : O[j] # i
      <4>1. \A j \in 0..k : r[i] < r[O[j]]
        BY <1>2, <2>1, <2>5
      <4>2. r[i] \in Int
        BY <1>1, <3>1
      <4> QED
        BY <4>1, <4>2
    <3> HIDE DEF i
    <3>3. PICK y : y = out[k]
      OBVIOUS
    <3>4. /\ Ranks(y, t) /\ y.parent[i] = st.parent[i]
          /\ \A c \in Widget : y.parent[c] \in {NULL, st.parent[c]}
      BY <1>9, <3>1, <3>2, <3>3
    <3>5. OnDeskTop(y)
      BY <1>1, <3>4 DEF OnDeskTop
    <3>6. i \notin y.sel /\ y \in Tree
      BY <1>1, <3>1, <3>4 DEF Ranks, Tree
    <3>7. PICK u : /\ Ranks(Removed(y, i), u) /\ Keeps(y, t, Removed(y, i), u)
                   /\ Removed(y, i).parent = [y.parent EXCEPT ![i] = NULL]
                   /\ i \notin y.sel => u = t /\ Removed(y, i).sel = y.sel
                   /\ \A c \in Widget : u[c] = t[c] \/
                        \A d \in Windows \ {i} : y.parent[d] = DeskTop => t[c] <= t[d]
      <4>1. y.parent[i] # NULL
        BY <3>1, <3>4
      <4> QED
        BY <3>1, <3>4, <3>5, <4>1, RemovedRanks, Zenon
    <3>8. PICK z : z = Removed(y, i)
      OBVIOUS
    <3>9. /\ Ranks(z, t) /\ z.live = y.live /\ z.child = y.child /\ z.sel = y.sel
          /\ z.parent = [y.parent EXCEPT ![i] = NULL]
      BY <3>6, <3>7, <3>8 DEF Keeps
    <3>10. \A c \in Widget : z.parent[c] = IF c = i THEN NULL ELSE y.parent[c]
      BY <3>6, <3>9 DEF Tree, Link
    <3>11. out[k + 1] = z
      BY <2>2, <2>5, <3>3, <3>8 DEF i
    <3>12. \A c \in Widget : z.parent[c] =
             IF \E j \in 0..(k + 1) : O[j] = c THEN NULL ELSE st.parent[c]
      <4>1. \A c \in Widget : y.parent[c] = IF \E j \in 0..k : O[j] = c THEN NULL ELSE st.parent[c]
        BY <1>9, <3>3
      <4> QED
        BY <2>3, <3>10, <4>1 DEF i
    <3>13. y.live = out[0].live /\ y.child = out[0].child /\ y.sel = out[0].sel
      BY <1>9, <3>3
    <3> QED
      BY <3>9, <3>11, <3>12, <3>13
  <2> QED
    BY <2>4, <2>5
<1>10. P(n)
  <2> DEFINE T == {k \in Nat : k <= n => P(k)}
  <2> HIDE DEF P
  <2>1. 0 \in T
    BY <1>8
  <2>2. ASSUME NEW k \in Nat, k \in T PROVE k + 1 \in T
    BY <1>2, <1>9, <2>2
  <2> HIDE DEF T
  <2>3. Nat \subseteq T
    BY <2>1, <2>2, SetInduction
  <2> QED
    BY <1>2, <2>3 DEF T
<1>11. PICK z : z = Unlinked(st, w)
  OBVIOUS
<1>12. /\ Ranks(z, t) /\ z.live = out[0].live /\ z.child = out[0].child /\ z.sel = out[0].sel
       /\ \A c \in Widget : z.parent[c] = IF \E k \in 0..n : O[k] = c THEN NULL ELSE st.parent[c]
  BY <1>3, <1>10, <1>11
<1>13. \A c \in Widget : z.parent[c] # NULL => out[0].parent[c] # NULL
  <2>1. \A c \in Widget : out[0].parent[c] = IF \E j \in 0..0 : O[j] = c THEN NULL ELSE st.parent[c]
    BY <1>8
  <2>2. 0 \in 0..n /\ 0..0 = {0}
    BY <1>2
  <2> QED
    BY <1>12, <2>1, <2>2
<1>14. Keeps(st, r, z, t)
  <2>1. SelTop(out[0], t) => SelTop(z, t)
    BY <1>1, <1>12, <1>13 DEF SelTop, Ranks, Tree
  <2> QED
    BY <1>7, <1>12, <2>1 DEF Keeps
<1> QED
  BY <1>7, <1>11, <1>12, <1>14 DEF n, O

\* What comes of the disposal of w: it goes with its own children and the popups opened from
\* it, and no pointer to what has gone is left.
Disposes(st, r, w, z, t) ==
  /\ Sound(z, t)
  /\ \A c \in Widget : t[c] = r[c] \/ (c \in Windows /\ \A d \in Widget : t[c] <= t[d])
  /\ \A c \in Widget : t[c] = r[c] \/
       \A d \in Windows \ {w} : st.parent[d] = DeskTop => r[c] <= r[d]
  /\ w \notin st.sel => t = r /\ z.sel \subseteq st.sel
  /\ z.live \subseteq st.live \ {w}
  /\ \A c \in Widget : z.child[c] \in {NULL, st.child[c]}
  /\ \A c \in z.live : z.parent[c] = st.parent[c]
  /\ \A c \in st.live \ {w} :
       st.parent[c] # w /\ (c \in Popups => st.child[w] = NULL \/ r[w] < r[c]) => c \in z.live

LEMMA DisposedSound ==
  ASSUME NEW st, NEW r, Sound(st, r), NEW w \in st.live, w # DeskTop,
         \A p \in Widget : st.child[p] # w
  PROVE  \E t : Disposes(st, r, w, Disposed(st, w), t)
<1> DEFINE n == Cardinality(Popups)
           O == Opened(st, w)
           B == Below(st, w)
           G == B \cup {O[k] : k \in 0..n}
<1>1. /\ st \in Tree /\ Ringed(Widget, NULL, st, r) /\ r \in [Widget -> Int]
      /\ w \in Widget /\ st.parent[w] # NULL
      /\ Windows \cap Popups = {} /\ Windows \cap Controls = {} /\ Popups \cap Controls = {}
      /\ DeskTop \notin Popups \cup Controls \cup Windows /\ DeskTop \in Widget /\ NULL \notin Widget
      /\ Windows \subseteq Widget /\ Popups \subseteq Widget
  BY Sorts DEF Sound, Ranks, Ringed, Tree, Whole
<1>2. /\ OnDeskTop(st) /\ \A m \in Popups \cap st.live : st.parent[m] # NULL
  BY <1>1 DEF Sound, Placed, Whole, OnDeskTop
<1>3. PICK z : z = Unlinked(st, w)
  OBVIOUS
<1>4. PICK t : /\ Ranks(z, t) /\ Keeps(st, r, z, t)
               /\ \A c \in Widget : z.parent[c] =
                    IF \E k \in 0..n : O[k] = c THEN NULL ELSE st.parent[c]
               /\ w \notin st.sel => t = r /\ z.sel = st.sel
               /\ \A c \in Widget : t[c] = r[c] \/
                    \A d \in Windows \ {w} : st.parent[d] = DeskTop => r[c] <= r[d]
  <2>1. Ranks(st, r) /\ MenusOK(st, r)
    BY DEF Sound
  <2> QED
    BY <1>1, <1>2, <1>3, <2>1, UnlinkedIs
<1>5. /\ n \in Nat /\ O[0] = w
      /\ \A k \in 1..n : O[k] # NULL =>
           O[k - 1] # NULL /\ O[k] = st.child[O[k - 1]] /\ O[k] \in Popups \cap st.live
      /\ \A k \in 0..n : O[k] \in Widget \cup {NULL}
      /\ \A k \in 0..n : O[k] # NULL => \A j \in 0..(k - 1) : O[j] # NULL /\ r[O[k]] < r[O[j]]
  BY <1>1, OpenedIs DEF Sound
<1> HIDE DEF O, n
<1>6. \A c \in Widget : (\E k \in 0..n : O[k] = c) =>
        c = w \/ (c \in Popups \cap st.live /\ r[c] < r[w] /\ st.child[w] # NULL)
  <2> SUFFICES ASSUME NEW c \in Widget, NEW k \in 0..n, O[k] = c, c # w
               PROVE  c \in Popups \cap st.live /\ r[c] < r[w] /\ st.child[w] # NULL
    OBVIOUS
  <2>1. k \in 1..n /\ O[k] # NULL /\ 0 \in 0..(k - 1) /\ 1 \in 1..n
    BY <1>1, <1>5
  <2>2. c \in Popups \cap st.live /\ r[c] < r[w]
    BY <1>5, <2>1
  <2>3. O[1] # NULL
    <3>1. CASE k = 1
      BY <2>1, <3>1
    <3>2. CASE k # 1
      <4>1. 1 \in 0..(k - 1)
        BY <2>1, <3>2
      <4> QED
        BY <1>5, <2>1, <4>1
    <3> QED
      BY <3>1, <3>2
  <2>4. O[1] = st.child[O[0]]
    <3>1. 1 - 1 = 0
      OBVIOUS
    <3> QED
      BY <1>5, <2>1, <2>3, <3>1
  <2> QED
    BY <1>5, <2>2, <2>3, <2>4
<1>7. \A c \in Widget : c \in G <=> c \in B \/ \E k \in 0..n : O[k] = c
  OBVIOUS
<1>8. \A c \in Widget : c \in B <=> c \in st.live /\ (c = w \/ st.parent[c] = w)
  BY <1>1 DEF Below, Tree
<1> HIDE DEF B, G
<1>9. w \in G /\ \E k \in 0..n : O[k] = w
  BY <1>1, <1>5, <1>7
<1>10. ASSUME NEW c \in Widget, z.parent[c] # NULL
       PROVE  /\ z.parent[c] = st.parent[c] /\ c # w /\ st.parent[c] \in Widget
              /\ c \in G <=> st.parent[c] \in G
  <2>1. /\ ~(\E k \in 0..n : O[k] = c) /\ z.parent[c] = st.parent[c] /\ c # w
        /\ st.parent[c] # NULL
    BY <1>4, <1>9, <1>10
  <2> DEFINE o == st.parent[c]
  <2>2. /\ o \in Widget /\ c \in st.live /\ o \in st.live
        /\ IF c \in Controls THEN o \in Windows ELSE o = DeskTop
    BY <1>1, <2>1 DEF Tree, Link, Sound, Placed
  <2>3. c \in G <=> o = w
    BY <1>7, <1>8, <2>1, <2>2
  <2>4. o \in G <=> o = w
    <3>1. o \notin Popups
      BY <1>1, <2>2
    <3>2. (\E k \in 0..n : O[k] = o) => o = w
      BY <1>6, <2>2, <3>1
    <3>3. st.parent[o] # w
      <4>1. st.parent[o] # NULL => o # DeskTop /\ (o \notin Controls => st.parent[o] = DeskTop)
        BY <2>2 DEF Sound, Placed
      <4>2. o \notin Controls
        BY <1>1, <2>2
      <4> QED
        BY <1>1, <4>1, <4>2
    <3> QED
      BY <1>7, <1>8, <1>9, <2>2, <3>2, <3>3
  <2> QED
    BY <2>1, <2>2, <2>3, <2>4
<1>11. PICK d : d = [z EXCEPT !.live = z.live \ G, !.sel = z.sel \ G,
                       !.last = [c \in Widget |-> IF c \in G THEN NULL ELSE z.last[c]],
                       !.next = [c \in Widget |-> IF c \in G THEN NULL ELSE z.next[c]],
                       !.prev = [c \in Widget |-> IF c \in G THEN NULL ELSE z.prev[c]],
                       !.parent = [c \in Widget |-> IF c \in G THEN NULL ELSE z.parent[c]],
                       !.child = [c \in Widget |-> IF c \in G THEN NULL ELSE z.child[c]]]
  OBVIOUS
<1>12. Disposed(st, w) = d
  BY <1>3, <1>11 DEF Disposed, Freed, G, B, O, n
<1>13. z \in Tree
  BY <1>4 DEF Ranks
<1>14. /\ d.live = z.live \ G /\ d.sel = z.sel \ G /\ Drops(Widget, NULL, z, d, G)
       /\ d.parent = [c \in Widget |-> IF c \in G THEN NULL ELSE z.parent[c]]
       /\ d.child = [c \in Widget |-> IF c \in G THEN NULL ELSE z.child[c]]
  BY <1>11, <1>13 DEF Tree, Drops
<1>15. d \in Tree
  <2>1. [c \in Widget |-> IF c \in G THEN NULL ELSE z.last[c]] \in Link
    BY <1>13 DEF Tree, Link
  <2>2. [c \in Widget |-> IF c \in G THEN NULL ELSE z.next[c]] \in Link
    BY <1>13 DEF Tree, Link
  <2>3. [c \in Widget |-> IF c \in G THEN NULL ELSE z.prev[c]] \in Link
    BY <1>13 DEF Tree, Link
  <2>4. [c \in Widget |-> IF c \in G THEN NULL ELSE z.parent[c]] \in Link
    BY <1>13 DEF Tree, Link
  <2>5. [c \in Widget |-> IF c \in G THEN NULL ELSE z.child[c]] \in Link
    BY <1>13 DEF Tree, Link
  <2>6. z.live \ G \in SUBSET Widget /\ z.sel \ G \in SUBSET Windows
    BY <1>13 DEF Tree
  <2> QED
    BY <1>11, <1>13, <2>1, <2>2, <2>3, <2>4, <2>5, <2>6 DEF Tree
<1>16. Ranks(d, t)
  <2>1. \A c \in Widget : z.parent[c] # NULL => (c \in G <=> z.parent[c] \in G)
    BY <1>10
  <2>2. Ringed(Widget, NULL, z, t)
    BY <1>4 DEF Ranks
  <2>3. Ringed(Widget, NULL, d, t)
    BY <1>14, <2>1, <2>2, RingsDrop
  <2> QED
    BY <1>4, <1>15, <2>3 DEF Ranks
<1>17. \A c \in Widget : d.parent[c] # NULL =>
         /\ c \notin G /\ d.parent[c] = z.parent[c] /\ z.parent[c] # NULL
         /\ d.parent[c] = st.parent[c] /\ st.parent[c] \in Widget /\ st.parent[c] \notin G
  BY <1>10, <1>14
<1>18. /\ z.live = st.live /\ z.child = st.child
       /\ z.sel \subseteq st.sel \cup {c \in Windows : st.parent[c] # NULL}
       /\ SelTop(st, r) => SelTop(z, t)
       /\ \A c \in Widget : t[c] = r[c] \/ (c \in Windows /\ \A e \in Widget : t[c] <= t[e])
  BY <1>4 DEF Keeps
<1>19. Placed(d)
  <2>1. DeskTop \notin G
    <3>1. ~(\E k \in 0..n : O[k] = DeskTop)
      BY <1>1, <1>6
    <3>2. st.parent[DeskTop] = NULL
      BY <1>1 DEF Sound, Placed
    <3> QED
      BY <1>1, <1>7, <1>8, <3>1, <3>2
  <2>2. d.sel \subseteq d.live
    BY <1>1, <1>14, <1>18 DEF Sound, Placed
  <2>3. \A c \in Widget : d.parent[c] # NULL =>
          /\ c \in st.live \ {DeskTop} /\ st.parent[c] \in st.live
          /\ IF c \in Controls THEN st.parent[c] \in Windows /\ Owner[st.parent[c]] = Owner[c]
             ELSE st.parent[c] = DeskTop
    <3>1. \A c \in Widget : d.parent[c] # NULL => st.parent[c] # NULL
      BY <1>17
    <3> QED
      BY <3>1 DEF Sound, Placed
  <2>4. DeskTop \in d.live
    BY <1>14, <1>18, <2>1 DEF Sound, Placed
  <2> QED
    BY <1>14, <1>17, <1>18, <2>2, <2>3, <2>4 DEF Placed
<1>20. ASSUME NEW c \in d.live PROVE c \in Widget /\ c \in st.live \ {w} /\ d.parent[c] = st.parent[c]
  <2>1. c \in st.live /\ c \notin G /\ c \in Widget
    BY <1>1, <1>14, <1>18 DEF Tree
  <2> QED
    BY <1>4, <1>7, <1>9, <1>14, <2>1
<1>21. Whole(d)
  BY <1>20 DEF Whole, Sound
<1>22. MenusOK(d, t)
  <2> SUFFICES ASSUME NEW m \in Widget, d.child[m] # NULL
               PROVE  /\ m \in Popups \cap d.live /\ d.child[m] \in Popups \cap d.live
                      /\ Owner[d.child[m]] = Owner[m] /\ t[d.child[m]] < t[m]
                      /\ \A p \in Widget : d.child[p] = d.child[m] => p = m
    BY DEF MenusOK
  <2>1. m \notin G /\ d.child[m] = st.child[m] /\ st.child[m] # NULL
    BY <1>14, <1>18
  <2> DEFINE x == st.child[m]
  <2>2. /\ m \in Popups \cap st.live /\ x \in Popups \cap st.live
        /\ Owner[x] = Owner[m] /\ r[x] < r[m]
        /\ \A p \in Widget : st.child[p] = x => p = m
    BY <2>1 DEF Sound, MenusOK
  <2> HIDE DEF x
  <2>3. x \notin B
    <3>1. x # w
      BY DEF x
    <3>2. st.parent[x] # w
      BY <1>1, <2>2 DEF Sound, Placed, Whole
    <3> QED
      BY <1>1, <1>8, <2>2, <3>1, <3>2
  <2>4. ~\E k \in 0..n : O[k] = x
    <3> SUFFICES ASSUME NEW k \in 0..n, O[k] = x PROVE FALSE
      OBVIOUS
    <3>1. k \in 1..n /\ O[k] # NULL /\ k - 1 \in 0..n
      BY <1>1, <1>5, <2>2 DEF x
    <3>2. O[k - 1] \in Widget /\ st.child[O[k - 1]] = x
      BY <1>5, <3>1
    <3>3. O[k - 1] = m
      BY <2>2, <3>2
    <3> QED
      BY <1>7, <2>1, <3>1, <3>3
  <2>5. x \notin G
    BY <1>1, <1>7, <2>2, <2>3, <2>4
  <2>6. t[x] = r[x] /\ t[m] = r[m]
    BY <1>1, <1>18, <2>2
  <2>7. \A p \in Widget : d.child[p] = x => p = m
    BY <1>1, <1>14, <1>18, <2>2
  <2> QED
    BY <1>14, <1>18, <2>1, <2>2, <2>5, <2>6, <2>7 DEF x
<1>23. ~Behind => SelTop(d, t)
  <2>1. ~Behind => SelTop(z, t)
    BY <1>18 DEF Sound
  <2>2. \A c \in Widget : d.parent[c] # NULL => z.parent[c] # NULL
    BY <1>17
  <2>3. d.sel \subseteq z.sel /\ z.sel \subseteq Widget
    BY <1>1, <1>13, <1>14 DEF Tree
  <2> QED
    BY <1>1, <2>1, <2>2, <2>3 DEF SelTop
<1>24. \A c \in Widget : d.child[c] \in {NULL, st.child[c]}
  BY <1>14, <1>18
<1>25. ASSUME NEW c \in st.live \ {w}, st.parent[c] # w,
              c \in Popups => st.child[w] = NULL \/ r[w] < r[c]
       PROVE  c \in d.live
  <2>1. c \in Widget /\ c \notin B
    BY <1>1, <1>8, <1>25 DEF Tree
  <2>2. ~\E k \in 0..n : O[k] = c
    <3> SUFFICES ASSUME \E k \in 0..n : O[k] = c PROVE FALSE
      OBVIOUS
    <3>1. c \in Popups /\ r[c] < r[w] /\ st.child[w] # NULL
      BY <1>6, <1>25, <2>1
    <3>2. r[c] \in Int /\ r[w] \in Int
      BY <1>1, <2>1
    <3> QED
      BY <1>25, <3>1, <3>2
  <2> QED
    BY <1>7, <1>14, <1>18, <2>1, <2>2
<1>26. w \notin st.sel => t = r /\ d.sel \subseteq st.sel
  BY <1>4, <1>14
<1>27. Sound(d, t)
  BY <1>16, <1>19, <1>21, <1>22, <1>23 DEF Sound
<1>28. d.live \subseteq st.live \ {w} /\ \A c \in d.live : d.parent[c] = st.parent[c]
  BY <1>20
<1>29. Disposes(st, r, w, d, t)
  BY <1>4, <1>18, <1>24, <1>25, <1>26, <1>27, <1>28 DEF Disposes
<1> QED
  BY <1>12, <1>29

(***************************************************************************)
(* Inserting, and selecting.                                               *)
(***************************************************************************)
\* A widget is inserted above all its brothers.
Inserts(st, r, o, i, z, t) ==
  /\ Sound(z, t)
  /\ \A c \in Widget \ {i} : t[c] = r[c] /\ t[i] < r[c]
  /\ z.live = st.live \cup {i} /\ z.child = st.child
  /\ z.parent = [st.parent EXCEPT ![i] = o]
  /\ i \notin Controls => z.sel = {}

LEMMA InsertedSound ==
  ASSUME NEW st, NEW r, Sound(st, r), NEW o \in st.live, NEW i \in Widget \ st.live,
         IF i \in Controls THEN o \in Windows /\ Owner[o] = Owner[i] ELSE o = DeskTop,
         i \in Controls /\ ~Behind => o = Highest(st, DeskTop)
  PROVE  \E t : Inserts(st, r, o, i, Inserted(st, o, i), t)
<1>1. /\ st \in Tree /\ NULL \notin Widget /\ r \in [Widget -> Int] /\ o \in Widget
      /\ Windows \subseteq Widget /\ Popups \subseteq Widget /\ Windows \cap Controls = {}
      /\ Popups \cap Controls = {} /\ Windows \cap Popups = {}
      /\ DeskTop \in Widget \ (Windows \cup Popups \cup Controls)
  BY Sorts DEF Sound, Ranks, Ringed, Tree
<1>2. PICK n \in Int : \A w \in Widget : n < r[w]
  BY DEF Sound, Ranks
<1>3. PICK t : t = [r EXCEPT ![i] = n]
  OBVIOUS
<1>4. st.parent[i] = NULL /\ i # DeskTop /\ i # o
  BY DEF Sound, Placed
<1>5. PICK y : y = InsertFirst(st, o, i)
  OBVIOUS
<1>6. /\ Ranks(y, t) /\ y.parent = [st.parent EXCEPT ![i] = o]
      /\ y.live = st.live /\ y.sel = st.sel /\ y.child = st.child
  <2>1. Ranks(st, r)
    BY DEF Sound
  <2> QED
    <3>1. i \in Widget /\ o \in Widget /\ st.parent[i] = NULL
      BY <1>1, <1>4
    <3>2. /\ Ranks(InsertFirst(st, o, i), [r EXCEPT ![i] = n])
          /\ InsertFirst(st, o, i).parent = [st.parent EXCEPT ![i] = o]
          /\ InsertFirst(st, o, i).live = st.live /\ InsertFirst(st, o, i).sel = st.sel
          /\ InsertFirst(st, o, i).child = st.child
      BY <1>2, <2>1, <3>1, InsertRanks
    <3> QED
      BY <1>3, <1>5, <3>2
<1>7. \A c \in Widget : y.parent[c] = IF c = i THEN o ELSE st.parent[c]
  BY <1>1, <1>6 DEF Tree, Link
<1>8. PICK sel : sel = (y.sel \ (Brothers(y, i) \cap Windows)) \cup ({o} \cap Windows)
  OBVIOUS
<1>9. PICK z : z = [y EXCEPT !.live = y.live \cup {i}, !.sel = sel]
  OBVIOUS
<1>10. Inserted(st, o, i) = z
  BY <1>5, <1>8, <1>9 DEF Inserted
<1>11. y \in Tree /\ sel \in SUBSET Windows
  BY <1>6, <1>8 DEF Ranks, Tree
<1>12. /\ z \in Tree /\ z.live = st.live \cup {i} /\ z.sel = sel /\ z.child = st.child
       /\ z.parent = y.parent /\ z.last = y.last /\ z.next = y.next /\ z.prev = y.prev
  BY <1>6, <1>9, <1>11 DEF Tree
<1>13. Ranks(z, t)
  BY <1>6, <1>12 DEF Ranks, Ringed, LinksTyped, LastsIn, RoundTrips, RankOrder
<1>14. t[i] = n /\ \A c \in Widget \ {i} : t[c] = r[c] /\ t[i] < r[c]
  BY <1>1, <1>2, <1>3
<1>15. i \notin Controls => z.sel = {}
  <2> SUFFICES ASSUME i \notin Controls, NEW w \in sel PROVE FALSE
    BY <1>12
  <2>1. o = DeskTop /\ w \in st.sel /\ w \in Windows /\ w \notin Brothers(y, i)
    BY <1>1, <1>6, <1>8, <1>11
  <2>2. w \in st.live \ {DeskTop} /\ w \in Widget
    BY <1>1, <2>1 DEF Sound, Placed
  <2>3. st.parent[w] = DeskTop
    BY <1>1, <2>1, <2>2 DEF Sound, Placed, Whole
  <2> QED
    BY <1>7, <2>1, <2>2, <2>3 DEF Brothers
<1>16. Placed(z)
  <2>1. z.sel \subseteq z.live
    BY <1>6, <1>8, <1>12 DEF Sound, Placed
  <2>2. ASSUME NEW c \in Widget, z.parent[c] # NULL
        PROVE  /\ c \in z.live \ {DeskTop} /\ z.parent[c] \in z.live
               /\ IF c \in Controls THEN z.parent[c] \in Windows /\ Owner[z.parent[c]] = Owner[c]
                  ELSE z.parent[c] = DeskTop
    <3>1. CASE c = i
      BY <1>4, <1>7, <1>12, <3>1
    <3>2. CASE c # i
      BY <1>7, <1>12, <2>2, <3>2 DEF Sound, Placed
    <3> QED
      BY <3>1, <3>2
  <2> QED
    BY <1>12, <2>1, <2>2 DEF Placed, Sound
<1>17. Whole(z)
  BY <1>1, <1>7, <1>12 DEF Whole, Sound, Tree
<1>18. MenusOK(z, t)
  <2>1. \A m \in Widget : st.child[m] # NULL =>
          /\ m \in Popups \cap st.live /\ st.child[m] \in Popups \cap st.live
          /\ Owner[st.child[m]] = Owner[m] /\ r[st.child[m]] < r[m]
          /\ \A p \in Widget : st.child[p] = st.child[m] => p = m
    BY DEF Sound, MenusOK
  <2>2. \A m \in st.live : m \in Widget /\ t[m] = r[m]
    BY <1>1, <1>14 DEF Tree
  <2> QED
    BY <1>12, <2>1, <2>2 DEF MenusOK
<1>19. ASSUME ~Behind PROVE SelTop(z, t)
  <2> SUFFICES ASSUME NEW w \in sel, NEW d \in Windows, z.parent[w] # NULL, z.parent[d] # NULL
               PROVE  t[w] <= t[d]
    BY <1>12 DEF SelTop
  <2>1. i \in Controls /\ o \in Windows
    BY <1>12, <1>15
  <2>2. /\ w \in Windows /\ t[w] = r[w] /\ t[d] = r[d]
        /\ st.parent[w] # NULL /\ st.parent[d] # NULL
    BY <1>1, <1>7, <1>11, <1>12, <1>14, <2>1
  <2>3. CASE w = o
    <3>1. st.parent[d] = DeskTop
      BY <1>1, <2>2 DEF Sound, Placed
    <3>2. Ranks(st, r) /\ d \in Windowed(st, DeskTop)
      BY <3>1 DEF Windowed, Sound
    <3>3. r[Highest(st, DeskTop)] <= r[d]
      BY <1>1, <3>2, HighestIs
    <3> QED
      BY <1>19, <2>1, <2>2, <2>3, <3>3
  <2>4. CASE w # o
    BY <1>6, <1>8, <1>19, <2>2, <2>4 DEF Sound, SelTop
  <2> QED
    BY <2>3, <2>4
<1>20. Sound(z, t)
  BY <1>13, <1>16, <1>17, <1>18, <1>19 DEF Sound
<1> QED
  BY <1>6, <1>10, <1>12, <1>14, <1>15, <1>20 DEF Inserts

\* What a selection leaves as it was: only a window may rise.
Stays(st, r, z, t) ==
  /\ z.live = st.live /\ z.child = st.child /\ z.parent = st.parent
  /\ \A c \in Widget : t[c] = r[c] \/ (c \in Windows /\ \A d \in Widget : t[c] <= t[d])

LEMMA StaysSound ==
  ASSUME NEW st, NEW r, Sound(st, r), NEW z, NEW t, Ranks(z, t), Stays(st, r, z, t),
         z.sel \subseteq st.live, ~Behind => SelTop(z, t)
  PROVE  Sound(z, t)
<1>1. st \in Tree /\ Popups \subseteq Widget /\ Windows \cap Popups = {}
  BY Sorts DEF Sound, Ranks
<1>2. Placed(z) /\ Whole(z)
  BY DEF Sound, Stays, Placed, Whole
<1>3. \A p \in Popups : t[p] = r[p]
  BY <1>1 DEF Stays
<1>4. MenusOK(z, t)
  BY <1>3 DEF Sound, Stays, MenusOK
<1> QED
  BY <1>2, <1>4 DEF Sound

LEMMA SelectSound ==
  ASSUME NEW st, NEW r, Sound(st, r), NEW w \in Widget, st.parent[w] = DeskTop
  PROVE  \E t : /\ Sound(Select(st, w), t) /\ Stays(st, r, Select(st, w), t)
                /\ w \notin Windows => Select(st, w).sel \subseteq st.sel
<1>1. st \in Tree /\ Windows \subseteq Widget /\ Windows \cap Controls = {} /\ Ranks(st, r)
  BY Sorts DEF Sound, Ranks
<1>2. OnDeskTop(st)
  BY <1>1 DEF Sound, Placed, OnDeskTop
<1>3. PICK t : /\ Ranks(Select(st, w), t) /\ Keeps(st, r, Select(st, w), t)
               /\ Select(st, w).parent = st.parent
               /\ \A c \in Widget \ {w} : t[c] = r[c]
               /\ w \in Windows \ st.sel => SelTop(Select(st, w), t)
               /\ w \notin Windows => Select(st, w).sel \subseteq st.sel
  BY <1>1, <1>2, SelectRanks, Zenon
<1>4. PICK z : z = Select(st, w)
  OBVIOUS
<1>5. Stays(st, r, z, t)
  BY <1>3, <1>4 DEF Keeps, Stays
<1>6. z.sel \subseteq st.live
  <2>1. \A c \in Widget : st.parent[c] # NULL => c \in st.live
    BY DEF Sound, Placed
  <2>2. st.sel \subseteq st.live
    BY DEF Sound, Placed
  <2> QED
    BY <1>1, <1>3, <1>4, <2>1, <2>2 DEF Keeps
<1>7. ~Behind => SelTop(z, t)
  BY <1>3, <1>4 DEF Keeps, Sound
<1>8. Sound(z, t)
  BY <1>3, <1>4, <1>5, <1>6, <1>7, StaysSound
<1> QED
  BY <1>3, <1>4, <1>5, <1>8

LEMMA SelectedSound ==
  ASSUME NEW st, NEW r, Sound(st, r), NEW o \in st.live
  PROVE  \E t : /\ Sound(Selected(st, o), t) /\ Stays(st, r, Selected(st, o), t)
                /\ o \in Popups => Selected(st, o).sel \subseteq st.sel
<1>1. /\ st \in Tree /\ Windows \cap Popups = {} /\ Windows \cap Controls = {} /\ o \in Widget
      /\ Popups \cap Controls = {} /\ DeskTop \notin Popups \cup Windows \cup Controls
  BY Sorts DEF Sound, Ranks, Tree
<1>2. CASE o = DeskTop
  <2>1. Selected(st, o) = st /\ o \notin Popups
    BY <1>1, <1>2 DEF Selected
  <2>2. Stays(st, r, st, r)
    BY DEF Stays
  <2> QED
    BY <2>1, <2>2
<1>3. CASE o # DeskTop
  <2>1. st.parent[o] # NULL
    BY <1>3 DEF Sound, Whole
  <2>2. PICK w : w = IF st.parent[o] = DeskTop THEN o ELSE st.parent[o]
    OBVIOUS
  <2>3. w \in Widget /\ st.parent[w] = DeskTop /\ (o \in Popups => w \notin Windows)
    <3>1. CASE st.parent[o] = DeskTop
      BY <1>1, <2>2, <3>1
    <3>2. CASE st.parent[o] # DeskTop
      <4>1. w \in Windows /\ w \in st.live \ {DeskTop} /\ o \in Controls
        BY <1>1, <2>1, <2>2, <3>2 DEF Sound, Placed
      <4>2. w \in Widget /\ st.parent[w] # NULL
        BY <1>1, <4>1 DEF Sound, Whole, Tree
      <4> QED
        BY <1>1, <4>1, <4>2 DEF Sound, Placed
    <3> QED
      BY <3>1, <3>2
  <2>4. Selected(st, o) = Select(st, w)
    BY <1>3, <2>2 DEF Selected
  <2>5. \E t : /\ Sound(Select(st, w), t) /\ Stays(st, r, Select(st, w), t)
               /\ w \notin Windows => Select(st, w).sel \subseteq st.sel
    BY <2>3, SelectSound
  <2> QED
    BY <2>3, <2>4, <2>5
<1> QED
  BY <1>2, <1>3

\* A window that is raised is selected with it, and no other.
LEMMA RaisedSound ==
  ASSUME NEW st, NEW r, Sound(st, r), NEW o \in st.live \cap Windows
  PROVE  \E t : /\ Sound(Selected(SetFirstEx(st, o), o), t)
                /\ Stays(st, r, Selected(SetFirstEx(st, o), o), t)
<1>1. /\ st \in Tree /\ Windows \cap Popups = {} /\ Windows \cap Controls = {} /\ o \in Widget
      /\ o # DeskTop /\ Windows \subseteq Widget /\ r \in [Widget -> Int] /\ DeskTop # NULL
  BY Sorts DEF Sound, Ranks, Ringed, Tree
<1>2. st.parent[o] = DeskTop
  BY <1>1 DEF Sound, Placed, Whole
<1>3. PICK n \in Int : \A c \in Widget : n < r[c]
  BY DEF Sound, Ranks
<1>4. PICK u : u = [r EXCEPT ![o] = n]
  OBVIOUS
<1>5. PICK y : y = SetFirstEx(st, o)
  OBVIOUS
<1>6. /\ Ranks(y, u) /\ y.parent = st.parent /\ y.live = st.live /\ y.sel = st.sel
      /\ y.child = st.child
  <2>1. Ranks(st, r)
    BY DEF Sound
  <2>2. st.parent[o] # NULL
    BY <1>1, <1>2
  <2> QED
    BY <1>1, <1>3, <1>4, <1>5, <2>1, <2>2, SetFirstRanks
<1>7. u[o] = n /\ \A c \in Widget \ {o} : u[c] = r[c]
  BY <1>1, <1>4
<1>8. OnDeskTop(y)
  BY <1>1, <1>6 DEF Sound, Placed, OnDeskTop
<1>9. PICK t : /\ Ranks(Select(y, o), t) /\ Keeps(y, u, Select(y, o), t)
               /\ Select(y, o).parent = y.parent
               /\ \A c \in Widget \ {o} : t[c] = u[c]
               /\ o \in Windows \ y.sel => SelTop(Select(y, o), t)
               /\ o \notin Windows => Select(y, o).sel \subseteq y.sel
  <2>1. y.parent[o] = DeskTop /\ o \in Widget /\ Ranks(y, u)
    BY <1>1, <1>2, <1>6
  <2> QED
    BY <1>8, <2>1, SelectRanks, Zenon
<1>10. PICK z : z = Select(y, o)
  OBVIOUS
<1>11. Selected(SetFirstEx(st, o), o) = z
  BY <1>1, <1>2, <1>5, <1>6, <1>10 DEF Selected
<1>12. \A c \in Widget : t[o] <= t[c]
  <2>1. t[o] = u[o] \/ \A c \in Widget : t[o] <= t[c]
    BY <1>1, <1>9 DEF Keeps
  <2> QED
    BY <1>1, <1>3, <1>7, <1>9, <2>1
<1>13. Stays(st, r, z, t)
  BY <1>1, <1>6, <1>7, <1>9, <1>10, <1>12 DEF Keeps, Stays
<1>14. z.sel \subseteq st.live
  <2>1. \A c \in Widget : st.parent[c] # NULL => c \in st.live
    BY DEF Sound, Placed
  <2>2. st.sel \subseteq st.live
    BY DEF Sound, Placed
  <2> QED
    BY <1>1, <1>6, <1>9, <1>10, <2>1, <2>2 DEF Keeps
<1>15. ASSUME ~Behind PROVE SelTop(z, t)
  <2>1. CASE o \notin y.sel
    BY <1>9, <1>10, <2>1
  <2>2. CASE o \in y.sel
    <3>1. SelTop(st, r)
      BY <1>15 DEF Sound
    <3>2. SelTop(y, u)
      <4> SUFFICES ASSUME NEW w \in st.sel, NEW d \in Windows,
                          st.parent[w] # NULL, st.parent[d] # NULL
                   PROVE  u[w] <= u[d]
        BY <1>6 DEF SelTop
      <4>1. w \in Windows /\ r[w] <= r[o] /\ r[o] <= r[w]
        BY <1>1, <1>2, <1>6, <2>2, <3>1 DEF SelTop, Tree
      <4>2. r[w] = r[o] /\ st.parent[w] = st.parent[o]
        <5>1. r[w] \in Int /\ r[o] \in Int
          BY <1>1, <4>1
        <5> QED
          BY <1>1, <1>2, <4>1, <5>1 DEF Sound, Placed
      <4>3. w = o
        BY <1>1, <4>1, <4>2 DEF Sound, Ranks, Ringed, RankOrder
      <4> QED
        BY <1>1, <1>3, <1>7, <4>3
    <3> QED
      BY <1>9, <1>10, <3>2 DEF Keeps
  <2> QED
    BY <2>1, <2>2
<1>16. Sound(z, t)
  BY <1>9, <1>10, <1>13, <1>14, <1>15, StaysSound
<1> QED
  BY <1>11, <1>13, <1>16

\* A menu that goes is no longer a submenu of any.
LEMMA MenuDisposedSound ==
  ASSUME NEW st, NEW r, Sound(st, r), NEW m \in Popups \cap st.live
  PROVE  \E y, t : /\ Sound(y, r) /\ Disposes(y, r, m, MenuDisposed(st, m), t)
                   /\ y.live = st.live /\ y.parent = st.parent /\ y.sel = st.sel
                   /\ y.child = [p \in Widget |-> IF st.child[p] = m THEN NULL ELSE st.child[p]]
<1>1. st \in Tree /\ NULL \notin Widget /\ m \in Widget /\ m # DeskTop
  BY Sorts DEF Sound, Ranks, Tree
<1>2. PICK y : y = [st EXCEPT !.child = [p \in Widget |-> IF st.child[p] = m THEN NULL ELSE st.child[p]]]
  OBVIOUS
<1>3. /\ y.child = [p \in Widget |-> IF st.child[p] = m THEN NULL ELSE st.child[p]]
      /\ y.live = st.live /\ y.parent = st.parent /\ y.sel = st.sel
      /\ y.last = st.last /\ y.next = st.next /\ y.prev = st.prev
  BY <1>1, <1>2 DEF Tree
<1>4. y \in Tree
  <2>1. [p \in Widget |-> IF st.child[p] = m THEN NULL ELSE st.child[p]] \in Link
    BY <1>1 DEF Tree, Link
  <2> QED
    BY <1>1, <1>2, <2>1 DEF Tree
<1>5. Ranks(y, r)
  BY <1>3, <1>4 DEF Sound, Ranks, Ringed, LinksTyped, LastsIn, RoundTrips, RankOrder
<1>6. Placed(y) /\ Whole(y)
  BY <1>3 DEF Sound, Placed, Whole
<1>7. MenusOK(y, r)
  <2>1. \A p \in Widget : y.child[p] # NULL => y.child[p] = st.child[p]
    BY <1>3
  <2>2. MenusOK(st, r)
    BY DEF Sound
  <2> QED
    BY <1>3, <2>1, <2>2 DEF MenusOK
<1>8. ~Behind => SelTop(y, r)
  BY <1>3 DEF Sound, SelTop
<1>9. Sound(y, r)
  BY <1>5, <1>6, <1>7, <1>8 DEF Sound
<1>10. \A p \in Widget : y.child[p] # m
  BY <1>1, <1>3
<1>11. PICK t : Disposes(y, r, m, Disposed(y, m), t)
  BY <1>1, <1>3, <1>9, <1>10, DisposedSound
<1>12. MenuDisposed(st, m) = Disposed(y, m)
  BY <1>1, <1>2 DEF MenuDisposed, Tree
<1> QED
  BY <1>3, <1>9, <1>11, <1>12

(***************************************************************************)
(* The panel, and the walk.                                                *)
(***************************************************************************)
LEMMA PanelStays ==
  ASSUME NEW st, NEW r, Sound(st, r), PanelLow(st, r), NEW z, NEW t
  PROVE  /\ \A o \in Widget, i \in Widget \ st.live : Inserts(st, r, o, i, z, t) => PanelLow(z, t)
         /\ Stays(st, r, z, t) => PanelLow(z, t)
         /\ \A w \in Widget \ {DeskTop, Panel} : Disposes(st, r, w, z, t) => PanelLow(z, t)
<1>1. /\ st \in Tree /\ NULL \notin Widget /\ r \in [Widget -> Int] /\ Panel \in Widget
      /\ Panel \notin Windows /\ Panel \notin Popups /\ Panel \notin Controls /\ DeskTop \in Widget
      /\ Panel \in st.live /\ Panel # DeskTop
  BY Sorts DEF Sound, Ranks, Ringed, PanelLow
<1>2. st.parent[Panel] = DeskTop
  BY <1>1 DEF Sound, Whole, Placed
<1>3. ASSUME NEW o \in Widget, NEW i \in Widget \ st.live, Inserts(st, r, o, i, z, t)
      PROVE  PanelLow(z, t)
  <2>1. /\ \A c \in Widget : z.parent[c] = IF c = i THEN o ELSE st.parent[c]
        /\ Panel \in z.live /\ Panel # i
    BY <1>1, <1>3 DEF Inserts, Tree, Link
  <2>2. t[Panel] = r[Panel] /\ t[i] < r[Panel] /\ \A c \in Widget \ {i} : t[c] = r[c]
    BY <1>1, <1>3, <2>1 DEF Inserts
  <2>3. t[i] \in Int /\ r[Panel] \in Int
    BY <1>1, <1>3 DEF Inserts, Sound, Ranks, Ringed
  <2> QED
    BY <1>1, <2>1, <2>2, <2>3 DEF PanelLow
<1>4. ASSUME Stays(st, r, z, t) PROVE PanelLow(z, t)
  BY <1>1, <1>4 DEF Stays, PanelLow
<1>5. ASSUME NEW w \in Widget \ {DeskTop, Panel}, Disposes(st, r, w, z, t) PROVE PanelLow(z, t)
  <2>1. Panel \in z.live
    BY <1>1, <1>2, <1>5 DEF Disposes
  <2>2. \A c \in Widget : z.parent[c] = DeskTop => st.parent[c] = DeskTop
    BY <1>1, <1>5 DEF Disposes, Sound, Placed
  <2>3. \A c \in Widget : t[c] = r[c] \/ t[c] <= t[Panel]
    BY <1>1, <1>5 DEF Disposes
  <2>4. t[Panel] = r[Panel]
    BY <1>1, <1>5 DEF Disposes
  <2> QED
    BY <2>1, <2>2, <2>3, <2>4 DEF PanelLow
<1> QED
  BY <1>3, <1>4, <1>5

\* The child of the desktop that comes next: the highest after the panel.
LEMMA NextOnDeskTop ==
  ASSUME NEW st, NEW r, Sound(st, r), PanelLow(st, r), NEW a \in Widget, st.parent[a] = DeskTop
  PROVE  /\ st.last[DeskTop] = Panel
         /\ st.next[a] \in Widget /\ st.parent[st.next[a]] = DeskTop
         /\ a # Panel => st.next[a] # a
         /\ \A c \in Widget : st.parent[c] = DeskTop /\ (a = Panel \/ r[a] < r[c]) =>
              r[st.next[a]] <= r[c]
<1>1. /\ NULL \notin Widget /\ r \in [Widget -> Int] /\ Panel \in Widget /\ DeskTop \in Widget
      /\ Panel \notin Controls /\ Panel \in st.live /\ Panel # DeskTop /\ st \in Tree
      /\ LastsIn(Widget, NULL, st) /\ RoundTrips(Widget, NULL, st) /\ RankOrder(Widget, NULL, st, r)
  BY Sorts DEF Sound, Ranks, Ringed, PanelLow
<1>2. st.parent[Panel] = DeskTop
  BY <1>1 DEF Sound, Whole, Placed
<1> DEFINE l == st.last[DeskTop]
<1>3. l \in Widget /\ st.parent[l] = DeskTop
  BY <1>1, <1>2 DEF LastsIn, RoundTrips, Tree, Link
<1>4. l = Panel
  <2>1. r[Panel] <= r[l]
    BY <1>1, <1>2, <1>3 DEF RankOrder
  <2>2. r[l] <= r[Panel]
    BY <1>3 DEF PanelLow
  <2>3. r[l] = r[Panel]
    BY <1>1, <1>3, <2>1, <2>2
  <2> QED
    BY <1>1, <1>2, <1>3, <2>3 DEF RankOrder
<1> HIDE DEF l
<1>5. st.next[a] \in Widget /\ st.parent[st.next[a]] = DeskTop
  BY <1>1 DEF RoundTrips, Tree, Link
<1>6. \A c \in Widget : st.parent[c] = DeskTop =>
        IF a = Panel THEN r[st.next[a]] <= r[c]
        ELSE r[a] < r[st.next[a]] /\ (r[a] < r[c] => r[st.next[a]] <= r[c])
  BY <1>1, <1>4 DEF RankOrder, l
<1>7. a # Panel => st.next[a] # a
  BY <1>1, <1>2, <1>6
<1> QED
  BY <1>4, <1>5, <1>6, <1>7 DEF l

\* The top frame of a stack changes.
LEMMA TopIs ==
  ASSUME NEW w \in Seq(Frame), w # << >>, NEW a \in Widget, NEW n \in Widget \cup {NULL}
  PROVE  LET v == [w EXCEPT ![Len(w)] = [o |-> w[Len(w)].o, a |-> a, n |-> n]]
         IN /\ v \in Seq(Frame) /\ Len(v) = Len(w) /\ Len(w) \in 1..Len(w)
            /\ v[Len(w)] = [o |-> w[Len(w)].o, a |-> a, n |-> n]
            /\ \A k \in 1..(Len(w) - 1) : v[k] = w[k]
<1>1. Len(w) \in Nat /\ Len(w) # 0 /\ DOMAIN w = 1..Len(w) /\ Len(w) \in 1..Len(w)
  OBVIOUS
<1>8. w[Len(w)] \in Frame /\ w \in [1..Len(w) -> Frame]
  BY <1>1
<1>2. w[Len(w)].o \in Widget
  BY <1>8 DEF Frame
<1>3. PICK f : f = [o |-> w[Len(w)].o, a |-> a, n |-> n]
  OBVIOUS
<1>4. f \in Frame
  BY <1>2, <1>3 DEF Frame
<1>5. PICK v : v = [w EXCEPT ![Len(w)] = f]
  OBVIOUS
<1>6. v \in Seq(Frame) /\ Len(v) = Len(w)
  BY <1>1, <1>4, <1>5
<1>7. v[Len(w)] = f /\ \A k \in 1..(Len(w) - 1) : v[k] = w[k]
  <2> HIDE DEF Frame
  <2>1. DOMAIN w = 1..Len(w) /\ Len(w) \in 1..Len(w) /\ Len(w) \in Nat
    BY <1>1
  <2>2. \A k \in DOMAIN w : v[k] = IF k = Len(w) THEN f ELSE w[k]
    BY <1>5
  <2> QED
    BY <2>1, <2>2
<1> QED
  BY <1>1, <1>3, <1>5, <1>6, <1>7

\* The frames of a walk have their types.
LEMMA TopFrame ==
  ASSUME Walks, FramesOK, walk # << >>
  PROVE  /\ Len(walk) \in 1..Len(walk) /\ DOMAIN walk = 1..Len(walk) /\ Len(walk) \in Nat
         /\ \A k \in 1..Len(walk) : /\ walk[k].o \in Widget /\ walk[k].a \in Widget
                                    /\ walk[k].n \in Widget \cup {NULL}
                                    /\ walk[k] = [o |-> walk[k].o, a |-> walk[k].a, n |-> walk[k].n]
         /\ Top = walk[Len(walk)]
<1>1. walk \in Seq(Frame) /\ Len(walk) \in Nat /\ Len(walk) # 0 /\ DOMAIN walk = 1..Len(walk)
  BY DEF Walks
<1>2. \A k \in 1..Len(walk) : walk[k] \in Frame
  BY <1>1
<1> QED
  BY <1>1, <1>2 DEF Frame, Top

(***************************************************************************)
(* The steps.                                                              *)
(***************************************************************************)
LEMMA InitInv ==
  ASSUME ~NoShell, Init
  PROVE  Inv
<1>1. /\ NULL \notin Widget /\ DeskTop \in Widget /\ Panel \in Widget /\ DeskTop # Panel
      /\ Panel \notin Controls /\ Panel \notin Windows
  BY Sorts
<1>2. s = Inserted(Empty, DeskTop, Panel) /\ walk = << >> /\ app = NULL
  BY DEF Init
<1>3. PICK e : e = Empty
  OBVIOUS
<1>4. /\ e.last = [w \in Widget |-> NULL] /\ e.next = [w \in Widget |-> NULL]
      /\ e.prev = [w \in Widget |-> NULL] /\ e.parent = [w \in Widget |-> NULL]
      /\ e.child = [w \in Widget |-> NULL] /\ e.live = {DeskTop} /\ e.sel = {}
  BY <1>3 DEF Empty
<1>5. e \in Tree
  <2>1. [w \in Widget |-> NULL] \in Link
    BY DEF Link
  <2>2. {DeskTop} \in SUBSET Widget /\ {} \in SUBSET Windows
    BY <1>1
  <2> QED
    BY <1>3, <2>1, <2>2 DEF Empty, Tree
<1>6. PICK r : r = [w \in Widget |-> 0]
  OBVIOUS
<1>7. Ranks(e, r)
  <2>1. Ringed(Widget, NULL, e, r)
    <3>1. LinksTyped(Widget, NULL, e)
      BY <1>5, TreeLinks
    <3> QED
      BY <1>1, <1>4, <1>6, <3>1 DEF Ringed, LastsIn, RoundTrips, RankOrder
  <2>2. -1 \in Int /\ \A w \in Widget : -1 < r[w]
    BY <1>6
  <2> QED
    BY <1>5, <2>1, <2>2 DEF Ranks
<1>8. Sound(e, r)
  BY <1>4, <1>7 DEF Sound, Placed, Whole, MenusOK, SelTop
<1>9. PICK t : Inserts(e, r, DeskTop, Panel, Inserted(e, DeskTop, Panel), t)
  <2>1. DeskTop \in e.live /\ Panel \in Widget \ e.live
    BY <1>1, <1>4
  <2> QED
    BY <1>1, <1>8, <2>1, InsertedSound
<1>10. /\ Sound(s, t) /\ Panel \in s.live /\ s.sel = {}
       /\ \A c \in Widget : s.parent[c] = DeskTop => c = Panel
  BY <1>1, <1>2, <1>3, <1>4, <1>9 DEF Inserts
<1>11. t[Panel] \in Int
  BY <1>1, <1>10 DEF Sound, Ranks, Ringed
<1>12. PanelLow(s, t)
  BY <1>10, <1>11 DEF PanelLow
<1>13. Walks /\ FramesOK /\ MenusFirst
  BY <1>2, <1>10 DEF Walks, FramesOK, MenusFirst
<1> QED
  BY <1>2, <1>10, <1>12, <1>13 DEF Inv

\* A step outside the walk.
LEMMA QuietStep ==
  ASSUME Inv, NEW st, Becomes(st), NEW t, Sound(st, t), PanelLow(st, t),
         ~UnderMenus => (st.live \cap Popups # {} => st.sel = {})
  PROVE  Inv'
<1>1. walk = << >> /\ walk' = << >> /\ app' = app /\ s' = st
  BY DEF Becomes
<1>2. Walks' /\ FramesOK'
  BY <1>1 DEF Inv, Walks, FramesOK
<1>3. (~UnderMenus => MenusFirst)'
  BY <1>1 DEF MenusFirst, Open
<1> QED
  BY <1>1, <1>2, <1>3 DEF Inv

LEMMA Insertions ==
  ASSUME Inv, NEW w \in Widget, NEW i \in Widget,
         OpenWindow(w) \/ PopUpMenu(w) \/ InsertWidget(w, i)
  PROVE  Inv'
<1>1. PICK r : Sound(s, r) /\ PanelLow(s, r)
  BY DEF Inv
<1>2. /\ DeskTop \in s.live /\ s \in Tree /\ Windows \cap Controls = {} /\ Popups \cap Controls = {}
      /\ Windows \cap Popups = {}
  BY <1>1, Sorts DEF Sound, Placed, Ranks
<1>3. ASSUME NEW o \in s.live, NEW c \in Widget \ s.live, Becomes(Inserted(s, o, c)),
             IF c \in Controls THEN o \in Windows /\ Owner[o] = Owner[c] ELSE o = DeskTop,
             c \in Controls /\ ~Behind => o = Highest(s, DeskTop),
             c \in Controls /\ ~UnderMenus => Open = {}
      PROVE  Inv'
  <2>1. PICK st : st = Inserted(s, o, c)
    OBVIOUS
  <2>2. PICK t : Inserts(s, r, o, c, st, t)
    BY <1>1, <1>3, <2>1, InsertedSound
  <2>3. PanelLow(st, t)
    <3>1. o \in Widget
      BY <1>2 DEF Tree
    <3> QED
      BY <1>1, <2>2, <3>1, PanelStays
  <2>4. ~UnderMenus => (st.live \cap Popups # {} => st.sel = {})
    <3>1. CASE c \in Controls
      BY <1>2, <1>3, <2>2, <3>1 DEF Inserts, Open
    <3>2. CASE c \notin Controls
      BY <2>2, <3>2 DEF Inserts
    <3> QED
      BY <3>1, <3>2
  <2>5. Sound(st, t) /\ Becomes(st)
    BY <1>3, <2>1, <2>2 DEF Inserts
  <2> QED
    BY <2>3, <2>4, <2>5, QuietStep
<1>4. CASE OpenWindow(w)
  <2>1. w \in Widget \ s.live /\ w \notin Controls /\ Becomes(Inserted(s, DeskTop, w))
    BY <1>2, <1>4 DEF OpenWindow
  <2> QED
    BY <1>2, <1>3, <2>1
<1>5. CASE PopUpMenu(w)
  <2>1. w \in Widget \ s.live /\ w \notin Controls /\ Becomes(Inserted(s, DeskTop, w))
    BY <1>2, <1>5 DEF PopUpMenu
  <2> QED
    BY <1>2, <1>3, <2>1
<1>6. CASE InsertWidget(w, i)
  <2>1. /\ w \in s.live /\ w \in Windows /\ i \in Widget \ s.live /\ i \in Controls
        /\ Owner[w] = Owner[i] /\ (~Behind => w = Highest(s, DeskTop))
        /\ (~UnderMenus => Open = {}) /\ Becomes(Inserted(s, w, i))
    BY <1>6 DEF InsertWidget
  <2> QED
    BY <1>3, <2>1
<1> QED
  BY <1>4, <1>5, <1>6

LEMMA Disposals ==
  ASSUME Inv, NEW w \in Widget, MenuDisposeFromMe(w) \/ WidgetDispose(w)
  PROVE  Inv'
<1>1. PICK r : Sound(s, r) /\ PanelLow(s, r)
  BY DEF Inv
<1>2. /\ Windows \cap Popups = {} /\ Popups \cap Controls = {} /\ NULL \notin Widget
      /\ {DeskTop, Panel} \cap (Windows \cup Popups \cup Controls) = {}
  BY Sorts
<1>3. ASSUME NEW y, NEW z, NEW t, Disposes(y, r, w, z, t), PanelLow(y, r), Sound(y, r),
             w # DeskTop, w # Panel, Becomes(z), y.live = s.live, y.sel = s.sel,
             ~UnderMenus => Open = {} \/ w \notin s.sel
      PROVE  Inv'
  <2>1. PanelLow(z, t)
    BY <1>3, PanelStays
  <2>2. ~UnderMenus => (z.live \cap Popups # {} => z.sel = {})
    <3> SUFFICES ASSUME ~UnderMenus, z.live \cap Popups # {} PROVE z.sel = {}
      OBVIOUS
    <3>1. Open # {}
      BY <1>3 DEF Disposes, Open
    <3>2. s.sel = {}
      BY <3>1 DEF Inv, MenusFirst
    <3> QED
      BY <1>3, <3>1, <3>2 DEF Disposes
  <2> QED
    BY <1>3, <2>1, <2>2, QuietStep DEF Disposes
<1>4. CASE MenuDisposeFromMe(w)
  <2>1. w \in Popups \cap s.live /\ Becomes(MenuDisposed(s, w))
    BY <1>4 DEF MenuDisposeFromMe, Open
  <2>2. PICK y, t : /\ Sound(y, r) /\ Disposes(y, r, w, MenuDisposed(s, w), t)
                    /\ y.live = s.live /\ y.parent = s.parent /\ y.sel = s.sel
                    /\ y.child = [p \in Widget |-> IF s.child[p] = w THEN NULL ELSE s.child[p]]
    BY <1>1, <2>1, MenuDisposedSound
  <2>3. PanelLow(y, r)
    BY <1>1, <2>2 DEF PanelLow
  <2>4. w \notin s.sel
    BY <1>1, <1>2, <2>1 DEF Sound, Ranks, Tree
  <2> QED
    BY <1>2, <1>3, <2>1, <2>2, <2>3, <2>4
<1>5. CASE WidgetDispose(w)
  <2>1. /\ w \in s.live /\ w \in Windows \cup Controls /\ (~UnderMenus => Open = {})
        /\ Becomes(Disposed(s, w))
    BY <1>5 DEF WidgetDispose
  <2>2. \A p \in Widget : s.child[p] # w
    BY <1>1, <1>2, <2>1 DEF Sound, MenusOK
  <2>3. w # DeskTop /\ w # Panel
    BY <1>2, <2>1
  <2>4. PICK t : Disposes(s, r, w, Disposed(s, w), t)
    BY <1>1, <2>1, <2>2, <2>3, DisposedSound
  <2> QED
    BY <1>1, <1>3, <2>1, <2>3, <2>4
<1> QED
  BY <1>4, <1>5

LEMMA Selections ==
  ASSUME Inv, NEW o \in Widget, WidgetSelect(o) \/ WidgetSetFirst(o)
  PROVE  Inv'
<1>1. PICK r : Sound(s, r) /\ PanelLow(s, r)
  BY DEF Inv
<1>2. ASSUME NEW st, NEW t, Sound(st, t), Stays(s, r, st, t), Becomes(st),
             Open # {} => st.sel \subseteq s.sel
      PROVE  Inv'
  <2>1. PanelLow(st, t)
    BY <1>1, <1>2, PanelStays
  <2>2. ~UnderMenus => (st.live \cap Popups # {} => st.sel = {})
    BY <1>2 DEF Inv, MenusFirst, Open, Stays
  <2> QED
    BY <1>2, <2>1, <2>2, QuietStep
<1>3. CASE WidgetSelect(o)
  <2>1. o \in s.live /\ (Open # {} => o \in Popups) /\ Becomes(Selected(s, o))
    BY <1>3 DEF WidgetSelect, Open
  <2>2. PICK t : /\ Sound(Selected(s, o), t) /\ Stays(s, r, Selected(s, o), t)
                 /\ o \in Popups => Selected(s, o).sel \subseteq s.sel
    BY <1>1, <2>1, SelectedSound
  <2> QED
    BY <1>2, <2>1, <2>2
<1>4. CASE WidgetSetFirst(o)
  <2>1. o \in s.live \cap Windows /\ Open = {} /\ Becomes(Selected(SetFirstEx(s, o), o))
    BY <1>4 DEF WidgetSetFirst
  <2>2. PICK t : /\ Sound(Selected(SetFirstEx(s, o), o), t)
                 /\ Stays(s, r, Selected(SetFirstEx(s, o), o), t)
    BY <1>1, <2>1, RaisedSound
  <2> QED
    BY <1>2, <2>1, <2>2
<1> QED
  BY <1>3, <1>4

\* A submenu that was open goes first; the new one ranks below the menu it is opened from.
LEMMA SubMenus ==
  ASSUME Inv, NEW o \in Widget, NEW m \in Widget, PopUpSubMenu(o, m)
  PROVE  Inv'
<1>1. PICK r : Sound(s, r) /\ PanelLow(s, r)
  BY DEF Inv
<1>2. /\ Windows \cap Popups = {} /\ Popups \cap Controls = {} /\ NULL \notin Widget
      /\ DeskTop \in Widget /\ {DeskTop, Panel} \cap (Windows \cup Popups \cup Controls) = {}
      /\ s \in Tree /\ r \in [Widget -> Int]
  BY <1>1, Sorts DEF Sound, Ranks, Ringed
<1>3. m \in Popups \ s.live /\ o \in Popups \cap s.live /\ Owner[m] = Owner[o]
  BY DEF PopUpSubMenu, Open
<1>4. PICK st : st = IF s.child[o] = NULL THEN s ELSE MenuDisposed(s, s.child[o])
  OBVIOUS
<1>5. Becomes([Inserted(st, DeskTop, m) EXCEPT !.child = [Inserted(st, DeskTop, m).child EXCEPT ![o] = m]])
  BY <1>4 DEF PopUpSubMenu
<1>6. PICK t : /\ Sound(st, t) /\ PanelLow(st, t)
               /\ o \in st.live /\ m \notin st.live /\ st.child[o] = NULL
  <2>1. CASE s.child[o] = NULL
    BY <1>1, <1>3, <1>4, <2>1
  <2>2. CASE s.child[o] # NULL
    <3> DEFINE x == s.child[o]
    <3>1. x \in Popups \cap s.live /\ r[x] < r[o] /\ x \in Widget /\ x # DeskTop /\ x # Panel
      BY <1>1, <1>2, <2>2 DEF Sound, MenusOK, Tree
    <3> HIDE DEF x
    <3>2. PICK y, u : /\ Sound(y, r) /\ Disposes(y, r, x, MenuDisposed(s, x), u)
                      /\ y.live = s.live /\ y.parent = s.parent /\ y.sel = s.sel
                      /\ y.child = [p \in Widget |-> IF s.child[p] = x THEN NULL ELSE s.child[p]]
      BY <1>1, <3>1, MenuDisposedSound
    <3>3. st = MenuDisposed(s, x)
      BY <1>4, <2>2 DEF x
    <3>4. Disposes(y, r, x, st, u)
      BY <3>2, <3>3
    <3>5. PanelLow(y, r)
      BY <1>1, <3>2 DEF PanelLow
    <3>6. PanelLow(st, u)
      BY <3>1, <3>2, <3>4, <3>5, PanelStays
    <3>7. o # x
      BY <1>2, <3>1
    <3>8. y.parent[o] = DeskTop
      BY <1>1, <1>2, <1>3, <3>2 DEF Sound, Placed, Whole
    <3>9. o \in st.live
      BY <1>3, <3>1, <3>2, <3>4, <3>7, <3>8 DEF Disposes
    <3>10. st.child[o] = NULL
      BY <3>2, <3>4 DEF Disposes, x
    <3>11. m \notin st.live
      BY <1>3, <3>2, <3>4 DEF Disposes
    <3> QED
      BY <3>4, <3>6, <3>9, <3>10, <3>11 DEF Disposes
  <2> QED
    BY <2>1, <2>2
<1>7. PICK i : i = Inserted(st, DeskTop, m)
  OBVIOUS
<1>8. PICK u : Inserts(st, t, DeskTop, m, i, u)
  <2>1. DeskTop \in st.live
    BY <1>6 DEF Sound, Placed
  <2>2. m \in Widget \ st.live /\ m \notin Controls
    BY <1>2, <1>3, <1>6
  <2> QED
    BY <1>6, <1>7, <2>1, <2>2, InsertedSound
<1>9. PanelLow(i, u)
  <2>1. m \in Widget \ st.live
    BY <1>6
  <2> QED
    BY <1>2, <1>6, <1>8, <2>1, PanelStays
<1>10. PICK z : z = [i EXCEPT !.child = [i.child EXCEPT ![o] = m]]
  OBVIOUS
<1>11. i \in Tree /\ Ranks(i, u) /\ Placed(i) /\ Whole(i)
  BY <1>8 DEF Inserts, Sound, Ranks
<1>12. /\ z.child = [i.child EXCEPT ![o] = m] /\ z.live = i.live /\ z.sel = i.sel
       /\ z.parent = i.parent /\ z.last = i.last /\ z.next = i.next /\ z.prev = i.prev
  BY <1>10, <1>11 DEF Tree
<1>13. z \in Tree
  <2>1. [i.child EXCEPT ![o] = m] \in Link
    BY <1>11 DEF Tree, Link
  <2> QED
    BY <1>10, <1>11, <2>1 DEF Tree
<1>14. Ranks(z, u)
  BY <1>11, <1>12, <1>13 DEF Ranks, Ringed, LinksTyped, LastsIn, RoundTrips, RankOrder
<1>15. Placed(z) /\ Whole(z) /\ PanelLow(z, u)
  BY <1>9, <1>11, <1>12 DEF Placed, Whole, PanelLow
<1>16. MenusOK(z, u)
  <2>1. \A p \in Widget : z.child[p] = IF p = o THEN m ELSE st.child[p]
    BY <1>6, <1>8, <1>11, <1>12 DEF Tree, Link, Inserts
  <2>2. \A p \in Widget : st.child[p] # NULL =>
          /\ p \in Popups \cap st.live /\ st.child[p] \in Popups \cap st.live
          /\ Owner[st.child[p]] = Owner[p] /\ t[st.child[p]] < t[p]
          /\ \A q \in Widget : st.child[q] = st.child[p] => q = p
    BY <1>6 DEF Sound, MenusOK
  <2>3. \A p \in st.live : p \in Widget /\ u[p] = t[p] /\ u[m] < u[p]
    <3>1. st.live \subseteq Widget
      BY <1>6 DEF Sound, Ranks, Tree
    <3> QED
      BY <1>6, <1>8, <3>1 DEF Inserts
  <2>4. z.live = st.live \cup {m}
    BY <1>8, <1>12 DEF Inserts
  <2> SUFFICES ASSUME NEW p \in Widget, z.child[p] # NULL
               PROVE  /\ p \in Popups \cap z.live /\ z.child[p] \in Popups \cap z.live
                      /\ Owner[z.child[p]] = Owner[p] /\ u[z.child[p]] < u[p]
                      /\ \A q \in Widget : z.child[q] = z.child[p] => q = p
    BY DEF MenusOK
  <2>5. CASE p = o
    BY <1>2, <1>3, <1>6, <2>1, <2>2, <2>3, <2>4, <2>5
  <2>6. CASE p # o
    <3>1. st.child[p] # NULL /\ z.child[p] = st.child[p]
      BY <2>1, <2>6
    <3>2. st.child[p] # m
      BY <1>6, <2>2, <3>1
    <3> QED
      BY <2>1, <2>2, <2>3, <2>4, <2>6, <3>1, <3>2
  <2> QED
    BY <2>5, <2>6
<1>17. z.sel = {}
  BY <1>2, <1>3, <1>8, <1>12 DEF Inserts
<1>18. Sound(z, u)
  BY <1>14, <1>15, <1>16, <1>17 DEF Sound, SelTop
<1>19. Becomes(z)
  BY <1>5, <1>7, <1>10
<1> QED
  BY <1>15, <1>17, <1>18, <1>19, QuietStep

(***************************************************************************)
(* The walk of DisposeAllAppWidgets.                                       *)
(***************************************************************************)
LEMMA WalkBegins ==
  ASSUME ~OpenMenus, Inv, NEW w \in Widget, DisposeAllAppWidgets(Owner[w])
  PROVE  Inv'
<1>1. PICK r : Sound(s, r) /\ PanelLow(s, r)
  BY DEF Inv
<1>2. /\ walk' = <<[o |-> DeskTop, a |-> s.last[DeskTop], n |-> NULL]>> /\ app' = Owner[w]
      /\ s' = s /\ Owner[w] # Owner[DeskTop] /\ Owner[w] # Owner[Panel]
      /\ \A m \in Open : Owner[m] = Owner[w] => s.child[m] = NULL
  BY DEF DisposeAllAppWidgets
<1>3. /\ DeskTop \in Widget /\ Panel \in Widget /\ NULL \notin Widget /\ Panel \in s.live
      /\ Panel # DeskTop /\ Panel \notin Controls /\ DeskTop \in s.live
  BY <1>1, Sorts DEF PanelLow, Sound, Placed
<1>4. s.parent[Panel] = DeskTop
  BY <1>1, <1>3 DEF Sound, Whole, Placed
<1>5. s.last[DeskTop] = Panel
  BY <1>1, <1>3, <1>4, NextOnDeskTop
<1>6. PICK f : f = [o |-> DeskTop, a |-> Panel, n |-> NULL]
  OBVIOUS
<1>7. walk' = <<f>> /\ f \in Frame /\ f.o = DeskTop /\ f.a = Panel /\ f.n = NULL
  BY <1>2, <1>3, <1>5, <1>6 DEF Frame
<1>8. walk' \in Seq(Frame) /\ Len(walk') = 1 /\ walk'[1] = f /\ DOMAIN walk' = {1}
  BY <1>7
<1>9. Walks'
  BY <1>2, <1>8 DEF Walks, Open
<1>10. FramesOK'
  BY <1>2, <1>3, <1>4, <1>7, <1>8 DEF FramesOK
<1>11. \A x : Ahead(f, x)'
  BY <1>7 DEF Ahead
<1>12. (~UnderMenus => MenusFirst)'
  BY <1>2 DEF Inv, MenusFirst, Open
<1> QED
  BY <1>1, <1>2, <1>8, <1>9, <1>10, <1>11, <1>12 DEF Inv, Ahead

\* The child the walk is at, and the one it reads before it visits it.
LEMMA AtA ==
  ASSUME Inv, NEW mine \in BOOLEAN, Visit(mine), NEW r, Sound(s, r), PanelLow(s, r),
         ~UnderMenus => Ahead(walk[1], r)
  PROVE  /\ Top.a \in Widget /\ Top.a \in s.live /\ s.parent[Top.a] = Top.o /\ Top.n = NULL
         /\ Top.o \in Widget /\ (Owner[Top.a] = app <=> mine)
         /\ s.next[Top.a] \in Widget /\ s.parent[s.next[Top.a]] = Top.o
         /\ Read \in Seq(Frame) /\ Len(Read) = Len(walk) /\ Len(walk) \in 1..Len(walk)
         /\ Read[Len(walk)] = [o |-> Top.o, a |-> Top.a, n |-> s.next[Top.a]]
         /\ \A k \in 1..(Len(walk) - 1) : Read[k] = walk[k]
         /\ mine => Len(walk) = 1
         /\ ~UnderMenus /\ Len(walk) = 1 => \A c \in Widget :
              s.parent[c] = DeskTop /\ Owner[c] = app /\ c # Top.a => r[s.next[Top.a]] <= r[c]
<1>1. walk # << >> /\ Top.n = NULL /\ Top.a \in s.live /\ (Owner[Top.a] = app) = mine
  BY DEF Visit
<1>2. /\ Len(walk) \in 1..Len(walk) /\ DOMAIN walk = 1..Len(walk) /\ Len(walk) \in Nat
      /\ Top.o \in Widget /\ Top.a \in Widget /\ Top = walk[Len(walk)]
      /\ Top = [o |-> Top.o, a |-> Top.a, n |-> Top.n]
  BY <1>1, TopFrame DEF Inv
<1>3. /\ s.parent[Top.a] = Top.o /\ Owner[Top.o] # app
      /\ IF Len(walk) = 1 THEN Top.o = DeskTop ELSE Top.o \in Windows
  BY <1>1, <1>2 DEF Inv, FramesOK
<1>4. /\ s \in Tree /\ NULL \notin Widget /\ RoundTrips(Widget, NULL, s) /\ r \in [Widget -> Int]
      /\ RankOrder(Widget, NULL, s, r)
      /\ DeskTop \in Widget /\ DeskTop \notin Windows
  BY Sorts DEF Sound, Ranks, Ringed
<1>5. s.next[Top.a] \in Widget /\ s.parent[s.next[Top.a]] = Top.o
  BY <1>2, <1>3, <1>4 DEF RoundTrips, Tree, Link
<1>6. Read = [walk EXCEPT ![Len(walk)] = [o |-> Top.o, a |-> Top.a, n |-> s.next[Top.a]]]
  <2>1. [Top EXCEPT !.n = s.next[Top.a]] = [o |-> Top.o, a |-> Top.a, n |-> s.next[Top.a]]
    BY <1>2
  <2>2. Read = [walk EXCEPT ![Len(walk)] = [walk[Len(walk)] EXCEPT !.n = s.next[Top.a]]]
    BY DEF Read
  <2> QED
    BY <1>2, <2>1, <2>2
<1>7. /\ Read \in Seq(Frame) /\ Len(Read) = Len(walk)
      /\ Read[Len(walk)] = [o |-> Top.o, a |-> Top.a, n |-> s.next[Top.a]]
      /\ \A k \in 1..(Len(walk) - 1) : Read[k] = walk[k]
  <2>1. walk \in Seq(Frame)
    BY DEF Inv, Walks
  <2> QED
    BY <1>1, <1>2, <1>5, <1>6, <2>1, TopIs
<1>8. ASSUME mine, Len(walk) # 1 PROVE FALSE
  <2>1. Top.o \in Windows /\ s.parent[Top.a] # NULL /\ Top.o # DeskTop
    BY <1>2, <1>3, <1>4, <1>8
  <2>2. Owner[s.parent[Top.a]] = Owner[Top.a]
    BY <1>2, <1>3, <2>1 DEF Sound, Placed
  <2> QED
    BY <1>1, <1>3, <1>8, <2>2
<1>9. ASSUME ~UnderMenus, Len(walk) = 1, NEW c \in Widget, s.parent[c] = DeskTop,
             Owner[c] = app, c # Top.a
      PROVE  r[s.next[Top.a]] <= r[c]
  <2>1. s.parent[Top.a] = DeskTop
    BY <1>3, <1>9
  <2>2. Top.a = Panel \/ r[Top.a] <= r[c]
    BY <1>1, <1>2, <1>9 DEF Ahead
  <2>3. Top.a = Panel \/ r[Top.a] < r[c]
    <3>1. r[Top.a] # r[c]
      BY <1>2, <1>4, <1>9, <2>1 DEF RankOrder
    <3>2. r[Top.a] \in Int /\ r[c] \in Int
      BY <1>2, <1>4
    <3> QED
      BY <2>2, <3>1, <3>2
  <2> QED
    BY <1>2, <1>9, <2>1, <2>3, NextOnDeskTop
<1> QED
  BY <1>1, <1>2, <1>3, <1>5, <1>7, <1>8, <1>9

\* A widget that is not the application's is left as it is.
LEMMA WalkGoesOn ==
  ASSUME Inv, WalkEnters \/ WalkPasses
  PROVE  Inv'
<1>1. PICK r : /\ Sound(s, r) /\ PanelLow(s, r) /\ Visit(FALSE) /\ s' = s /\ app' = app
               /\ walk # << >> /\ ~UnderMenus => Ahead(walk[1], r)
  BY DEF Inv, WalkEnters, WalkPasses, Visit
<1> DEFINE a == Top.a
           n == s.next[a]
           N == Len(walk)
<1>2. /\ a \in Widget /\ a \in s.live /\ s.parent[a] = Top.o /\ Top.n = NULL
      /\ Top.o \in Widget /\ Owner[a] # app
      /\ n \in Widget /\ s.parent[n] = Top.o
      /\ Read \in Seq(Frame) /\ Len(Read) = N /\ N \in 1..N
      /\ Read[N] = [o |-> Top.o, a |-> a, n |-> n]
      /\ \A k \in 1..(N - 1) : Read[k] = walk[k]
      /\ ~UnderMenus /\ N = 1 => \A c \in Widget :
           s.parent[c] = DeskTop /\ Owner[c] = app /\ c # a => r[n] <= r[c]
  <2>1. walk # << >>
    BY <1>1 DEF Visit
  <2> QED
    BY <1>1, <2>1, AtA
<1>3. /\ DOMAIN walk = 1..N /\ N \in Nat /\ Top = walk[N] /\ N # 0
  BY <1>1, <1>2, TopFrame DEF Visit, Inv
<1>4. /\ s \in Tree /\ NULL \notin Widget /\ LastsIn(Widget, NULL, s) /\ DeskTop \notin Windows
      /\ Windows \cap Controls = {} /\ DeskTop \in Widget
  BY <1>1, Sorts DEF Sound, Ranks, Ringed
<1> HIDE DEF n, N
<1>5. /\ Read[N].o = Top.o /\ Read[N].a = a /\ Read[N].n = n /\ n # NULL
  BY <1>2, <1>4
<1>6. ASSUME NEW k \in 1..N
      PROVE  /\ Read[k].o \in s.live /\ Owner[Read[k].o] # app
             /\ IF k = 1 THEN Read[k].o = DeskTop ELSE Read[k].o \in Windows
             /\ s.parent[IF Read[k].n = NULL THEN Read[k].a ELSE Read[k].n] = Read[k].o
             /\ Read[k].n # NULL
  <2>1. /\ walk[k].o \in s.live /\ Owner[walk[k].o] # app
        /\ IF k = 1 THEN walk[k].o = DeskTop ELSE walk[k].o \in Windows
        /\ s.parent[IF walk[k].n = NULL THEN walk[k].a ELSE walk[k].n] = walk[k].o
        /\ k < N => walk[k].n # NULL
    BY <1>3 DEF Inv, FramesOK, N
  <2>2. CASE k = N
    BY <1>2, <1>3, <1>5, <2>1, <2>2
  <2>3. CASE k # N
    <3>1. k \in 1..(N - 1) /\ k < N
      BY <1>3, <2>3
    <3> QED
      BY <1>2, <2>1, <3>1
  <2> QED
    BY <2>2, <2>3
<1>7. ~UnderMenus => Ahead(Read[1], r)
  <2> SUFFICES ASSUME ~UnderMenus PROVE Ahead(Read[1], r)
    OBVIOUS
  <2>1. CASE N = 1
    <3>1. \A c \in Widget : s.parent[c] = DeskTop /\ Owner[c] = app => r[n] <= r[c]
      BY <1>2, <2>1
    <3> QED
      BY <1>5, <2>1, <3>1 DEF Ahead
  <2>2. CASE N # 1
    <3>1. 1 \in 1..(N - 1)
      BY <1>3, <2>2
    <3>2. Read[1] = walk[1]
      BY <1>2, <3>1
    <3> QED
      BY <1>1, <3>2 DEF Visit
  <2> QED
    BY <2>1, <2>2
<1>8. (~UnderMenus => MenusFirst)'
  BY <1>1 DEF Inv, MenusFirst, Open
<1>9. walk # << >> /\ Walks
  BY <1>1 DEF Visit, Inv
<1>10. CASE WalkPasses
  <2>1. walk' = Read
    BY <1>10 DEF WalkPasses
  <2>2. Len(walk') = N /\ DOMAIN walk' = 1..N /\ walk' # << >>
    BY <1>2, <1>3, <2>1
  <2>3. Walks'
    BY <1>1, <1>2, <1>9, <2>1 DEF Walks, Open
  <2>4. FramesOK'
    BY <1>1, <1>6, <2>1, <2>2 DEF FramesOK
  <2>5. ~UnderMenus => Ahead(walk[1], r)'
    BY <1>1, <1>7, <2>1 DEF Ahead
  <2> QED
    BY <1>1, <1>8, <2>3, <2>4, <2>5 DEF Inv, Ahead
<1>11. CASE WalkEnters
  <2>1. walk' = Append(Read, [o |-> a, a |-> s.last[a], n |-> NULL]) /\ s.last[a] # NULL
    BY <1>11 DEF WalkEnters
  <2>2. s.last[a] \in Widget /\ s.parent[s.last[a]] = a
    BY <1>2, <1>4, <2>1 DEF LastsIn, Tree, Link
  <2>3. a \in Windows
    <3>1. a = DeskTop \/ a \in Windows
      BY <1>1, <1>2, <1>4, <2>2 DEF Sound, Placed
    <3>2. a # DeskTop
      BY <1>1, <1>2, <1>4 DEF Sound, Placed
    <3> QED
      BY <3>1, <3>2
  <2>4. PICK f : f = [o |-> a, a |-> s.last[a], n |-> NULL]
    OBVIOUS
  <2>5. f \in Frame /\ f.o = a /\ f.a = s.last[a] /\ f.n = NULL
    BY <1>2, <2>2, <2>4 DEF Frame
  <2>6. /\ walk' \in Seq(Frame) /\ Len(walk') = N + 1 /\ DOMAIN walk' = 1..(N + 1)
        /\ walk'[N + 1] = f /\ \A k \in 1..N : walk'[k] = Read[k]
    BY <1>2, <1>3, <2>1, <2>4, <2>5
  <2>7. Walks'
    BY <1>1, <1>9, <2>6 DEF Walks, Open
  <2>8. FramesOK'
    <3> SUFFICES ASSUME NEW k \in 1..(N + 1)
                 PROVE  /\ walk'[k].o \in s.live /\ Owner[walk'[k].o] # app
                        /\ IF k = 1 THEN walk'[k].o = DeskTop ELSE walk'[k].o \in Windows
                        /\ s.parent[IF walk'[k].n = NULL THEN walk'[k].a ELSE walk'[k].n]
                             = walk'[k].o
                        /\ k < N + 1 => walk'[k].n # NULL
      BY <1>1, <2>6 DEF FramesOK
    <3>1. CASE k = N + 1
      <4>1. k # 1
        BY <1>3, <3>1
      <4> QED
        BY <1>2, <2>2, <2>3, <2>5, <2>6, <3>1, <4>1
    <3>2. CASE k # N + 1
      <4>1. k \in 1..N
        BY <1>3, <3>2
      <4> QED
        BY <1>6, <2>6, <4>1
    <3> QED
      BY <3>1, <3>2
  <2>9. walk'[1] = Read[1]
    BY <1>3, <2>6
  <2>10. ~UnderMenus => Ahead(walk[1], r)'
    BY <1>1, <1>7, <2>9 DEF Ahead
  <2> QED
    BY <1>1, <1>8, <2>7, <2>8, <2>10 DEF Inv, Ahead
<1> QED
  BY <1>10, <1>11

\* A widget of the application goes, and the child it reads next stays.
LEMMA WalkTakes ==
  ASSUME Inv, WalkDisposes
  PROVE  Inv'
<1>1. PICK r : /\ Sound(s, r) /\ PanelLow(s, r) /\ Visit(TRUE) /\ app' = app
               /\ s' = Disposed(s, Top.a) /\ walk' = Read
               /\ walk # << >> /\ ~UnderMenus => Ahead(walk[1], r)
  BY DEF Inv, WalkDisposes, Visit
<1> DEFINE a == Top.a
           n == s.next[a]
<1>9. walk # << >>
  BY <1>1 DEF Visit
<1>2. /\ a \in Widget /\ a \in s.live /\ s.parent[a] = Top.o /\ Owner[a] = app
      /\ n \in Widget /\ s.parent[n] = Top.o
      /\ Read \in Seq(Frame) /\ Len(Read) = 1 /\ Len(walk) = 1
      /\ Read[1] = [o |-> Top.o, a |-> a, n |-> n]
      /\ ~UnderMenus => \A c \in Widget :
           s.parent[c] = DeskTop /\ Owner[c] = app /\ c # a => r[n] <= r[c]
  BY <1>1, <1>9, AtA
<1>3. /\ Top = walk[1] /\ DOMAIN walk = {1}
  BY <1>2, <1>9, TopFrame DEF Inv
<1>4. Top.o = DeskTop /\ Owner[DeskTop] # app /\ Owner[Panel] # app
  BY <1>3, <1>9 DEF Inv, FramesOK, Walks
<1>5. /\ s \in Tree /\ NULL \notin Widget /\ r \in [Widget -> Int] /\ RankOrder(Widget, NULL, s, r)
      /\ DeskTop \in Widget /\ Panel \in Widget /\ Panel # DeskTop /\ Panel \in s.live
      /\ DeskTop \notin Windows \cup Popups \cup Controls /\ Panel \notin Windows
      /\ Windows \subseteq Widget /\ Popups \subseteq Widget /\ Windows \cap Controls = {}
      /\ Widget = Windows \cup Popups \cup Controls \cup {DeskTop, Panel}
  BY <1>1, Sorts DEF Sound, Ranks, Ringed, PanelLow
<1>6. a # DeskTop /\ a # Panel /\ n # a
  <2>1. a # DeskTop /\ a # Panel
    BY <1>2, <1>4
  <2>2. s.parent[a] = DeskTop
    BY <1>2, <1>4
  <2> QED
    BY <1>1, <1>2, <2>1, <2>2, NextOnDeskTop
<1> HIDE DEF a, n
<1>7. s.child[a] = NULL /\ \A p \in Widget : s.child[p] # a
  <2>1. MenusOK(s, r)
    BY <1>1 DEF Sound
  <2>2. \A m \in Widget : m \in Popups /\ m \in s.live /\ Owner[m] = app => s.child[m] = NULL
    BY <1>9 DEF Inv, Walks, Open
  <2>3. s.child[a] = NULL
    BY <1>2, <2>1, <2>2 DEF MenusOK
  <2>4. \A p \in Widget : s.child[p] # a
    BY <1>2, <1>5, <2>1, <2>2 DEF MenusOK
  <2> QED
    BY <2>3, <2>4
<1>8. PICK t : Disposes(s, r, a, s', t)
  <2>1. s' = Disposed(s, a)
    BY <1>1 DEF a
  <2> QED
    BY <1>1, <1>2, <1>6, <1>7, <2>1, DisposedSound
<1>10. Sound(s', t) /\ PanelLow(s', t)
  <2>1. a \in Widget \ {DeskTop, Panel}
    BY <1>2, <1>6
  <2> QED
    BY <1>1, <1>8, <2>1, PanelStays DEF Disposes
<1>11. n \in s'.live /\ s'.parent[n] = DeskTop
  <2>1. n \in s.live /\ s.parent[n] = DeskTop
    BY <1>1, <1>2, <1>4, <1>5 DEF Sound, Placed
  <2> QED
    BY <1>2, <1>6, <1>7, <1>8, <2>1 DEF Disposes
<1>12. /\ s'.live \subseteq s.live /\ \A c \in Widget : s'.child[c] \in {NULL, s.child[c]}
       /\ a \notin s.sel => t = r /\ s'.sel \subseteq s.sel
  BY <1>8 DEF Disposes
<1>13. /\ walk' = Read /\ Len(walk') = 1 /\ DOMAIN walk' = {1} /\ walk' # << >>
       /\ walk'[1] = [o |-> DeskTop, a |-> a, n |-> n]
  <2>1. walk' = Read /\ walk' \in Seq(Frame) /\ Len(walk') = 1
    BY <1>1, <1>2
  <2>2. DOMAIN walk' = {1} /\ walk' # << >>
    BY <2>1
  <2> QED
    BY <1>2, <1>4, <2>1, <2>2
<1>14. Walks'
  <2>1. walk' \in Seq(Frame) /\ app' = app /\ app \in {NULL} \cup {Owner[w] : w \in Widget}
    BY <1>1, <1>2 DEF Inv, Walks
  <2>2. \A m \in s'.live \cap Popups : Owner[m] = app => s'.child[m] = NULL
    BY <1>5, <1>9, <1>12 DEF Inv, Walks, Open
  <2> QED
    BY <1>4, <2>1, <2>2 DEF Walks, Open
<1>15. FramesOK'
  <2>1. DeskTop \in s'.live
    BY <1>10 DEF Sound, Placed
  <2>2. n # NULL
    BY <1>2, <1>5
  <2> QED
    BY <1>1, <1>4, <1>11, <1>13, <2>1, <2>2 DEF FramesOK
<1>16. (~UnderMenus => MenusFirst)'
  <2> SUFFICES ASSUME ~UnderMenus, s'.live \cap Popups # {} PROVE s'.sel = {}
    BY DEF MenusFirst, Open
  <2>1. s.sel = {}
    BY <1>12 DEF Inv, MenusFirst, Open
  <2> QED
    BY <1>12, <2>1
<1>17. ASSUME ~UnderMenus, NEW c \in Widget, s'.parent[c] = DeskTop, Owner[c] = app
       PROVE  t[n] <= t[c]
  <2>1. c \in s'.live /\ s.parent[c] = DeskTop /\ c # a
    <3>1. c \in s'.live
      BY <1>5, <1>10, <1>17 DEF Sound, Placed
    <3> QED
      BY <1>8, <1>17, <3>1 DEF Disposes
  <2>2. r[n] <= r[c]
    BY <1>2, <1>17, <2>1
  <2>3. CASE t[n] # r[n]
    BY <1>2, <1>8, <1>17, <2>3 DEF Disposes
  <2>4. CASE t[n] = r[n] /\ t[c] = r[c]
    BY <2>2, <2>4
  <2>5. CASE t[n] = r[n] /\ t[c] # r[c]
    <3>1. /\ c \in Windows
          /\ \A d \in Windows \ {a} : s.parent[d] = DeskTop => r[c] <= r[d]
      BY <1>8, <2>5 DEF Disposes
    <3>2. a \in s.sel
      BY <1>12, <2>5
    <3>3. Open = {}
      BY <1>17, <3>2 DEF Inv, MenusFirst
    <3>4. n \in Windows \/ n = Panel
      <4>1. n \in s.live \ {DeskTop} /\ n \notin Controls
        BY <1>1, <1>2, <1>4, <1>5 DEF Sound, Placed
      <4> QED
        BY <1>2, <1>5, <3>3, <4>1 DEF Open
    <3>5. r[c] <= r[n]
      <4>1. CASE n = Panel
        BY <1>1, <2>1, <4>1 DEF PanelLow
      <4>2. CASE n \in Windows
        BY <1>2, <1>4, <1>6, <3>1, <4>2
      <4> QED
        BY <3>4, <4>1, <4>2
    <3>6. r[c] = r[n]
      <4>1. r[c] \in Int /\ r[n] \in Int
        BY <1>2, <1>5
      <4> QED
        BY <2>2, <3>5, <4>1
    <3>7. s.parent[n] = DeskTop
      BY <1>2, <1>4
    <3>8. c = n
      BY <1>2, <1>5, <2>1, <3>6, <3>7 DEF RankOrder
    <3> QED
      BY <2>5, <3>8
  <2> QED
    BY <2>3, <2>4, <2>5
<1>18. ~UnderMenus => Ahead(walk[1], t)'
  <2>1. walk'[1].a = a /\ walk'[1].n = n /\ n # NULL
    BY <1>2, <1>5, <1>13
  <2> QED
    BY <1>1, <1>17, <2>1 DEF Ahead
<1> QED
  BY <1>10, <1>14, <1>15, <1>16, <1>18 DEF Inv, Ahead

LEMMA WalkTurns ==
  ASSUME Inv, WalkNext
  PROVE  Inv'
<1>1. PICK r : /\ Sound(s, r) /\ PanelLow(s, r) /\ s' = s /\ walk # << >> /\ Top.n # NULL
               /\ ~UnderMenus => Ahead(walk[1], r)
               /\ walk' = IF Top.n = s.last[Top.o] THEN Front(walk)
                          ELSE [walk EXCEPT ![Len(walk)].a = Top.n, ![Len(walk)].n = NULL]
               /\ app' = IF walk' = << >> THEN NULL ELSE app
  BY DEF Inv, WalkNext
<1> DEFINE N == Len(walk)
<1>2. /\ N \in 1..N /\ N \in Nat /\ DOMAIN walk = 1..N /\ Top = walk[N]
      /\ \A k \in 1..N : /\ walk[k].o \in Widget /\ walk[k].a \in Widget
                         /\ walk[k].n \in Widget \cup {NULL}
                         /\ walk[k] = [o |-> walk[k].o, a |-> walk[k].a, n |-> walk[k].n]
  BY <1>1, TopFrame DEF Inv
<1>3. \A k \in 1..N :
        /\ walk[k].o \in s.live /\ Owner[walk[k].o] # app
        /\ IF k = 1 THEN walk[k].o = DeskTop ELSE walk[k].o \in Windows
        /\ s.parent[IF walk[k].n = NULL THEN walk[k].a ELSE walk[k].n] = walk[k].o
        /\ k < N => walk[k].n # NULL
  BY <1>2 DEF Inv, FramesOK
<1>4. (~UnderMenus => MenusFirst)'
  BY <1>1 DEF Inv, MenusFirst, Open
<1>5. walk \in Seq(Frame) /\ Walks
  BY DEF Inv, Walks
<1> HIDE DEF N
<1>6. CASE Top.n = s.last[Top.o]
  <2>1. walk' = SubSeq(walk, 1, N - 1)
    BY <1>1, <1>6 DEF Front, N
  <2>2. /\ walk' \in Seq(Frame) /\ Len(walk') = N - 1 /\ DOMAIN walk' = 1..(N - 1)
        /\ \A k \in 1..(N - 1) : walk'[k] = walk[k]
    BY <1>2, <1>5, <2>1 DEF N
  <2>3. walk' # << >> => app' = app /\ N - 1 # 0
    BY <1>1, <2>2
  <2>7. app' \in {NULL} \cup {Owner[w] : w \in Widget}
    BY <1>1, <1>5 DEF Walks
  <2>4. Walks'
    BY <1>1, <1>5, <2>2, <2>3, <2>7 DEF Walks, Open
  <2>5. FramesOK'
    <3> SUFFICES ASSUME NEW k \in 1..(N - 1)
                 PROVE  /\ walk'[k].o \in s.live /\ Owner[walk'[k].o] # app'
                        /\ IF k = 1 THEN walk'[k].o = DeskTop ELSE walk'[k].o \in Windows
                        /\ s.parent[IF walk'[k].n = NULL THEN walk'[k].a ELSE walk'[k].n]
                             = walk'[k].o
                        /\ k < N - 1 => walk'[k].n # NULL
      BY <1>1, <2>2 DEF FramesOK
    <3>1. k \in 1..N /\ k < N /\ walk' # << >>
      BY <1>2, <2>2
    <3> QED
      BY <1>3, <2>2, <2>3, <3>1
  <2>6. (walk # << >> /\ ~UnderMenus => Ahead(walk[1], r))'
    <3> SUFFICES ASSUME walk' # << >>, ~UnderMenus PROVE Ahead(walk[1], r)'
      OBVIOUS
    <3>1. walk'[1] = walk[1] /\ app' = app
      BY <1>2, <2>2, <2>3
    <3>2. Ahead(walk[1], r)
      BY <1>1
    <3> QED
      BY <1>1, <3>1, <3>2 DEF Ahead
  <2> QED
    BY <1>1, <1>4, <2>4, <2>5, <2>6 DEF Inv, Ahead
<1>7. CASE Top.n # s.last[Top.o]
  <2>1. walk' = [walk EXCEPT ![N] = [o |-> Top.o, a |-> Top.n, n |-> NULL]]
    <3>1. [[Top EXCEPT !.a = Top.n] EXCEPT !.n = NULL] = [o |-> Top.o, a |-> Top.n, n |-> NULL]
      <4>1. PICK f : f = Top
        OBVIOUS
      <4>2. f \in Frame
        BY <1>2, <4>1 DEF Frame
      <4>3. [[f EXCEPT !.a = f.n] EXCEPT !.n = NULL] = [o |-> f.o, a |-> f.n, n |-> NULL]
        <5>1. PICK g : g = [f EXCEPT !.a = f.n]
          OBVIOUS
        <5>2. g = [o |-> f.o, a |-> f.n, n |-> f.n]
          BY <4>2, <5>1 DEF Frame
        <5>3. [g EXCEPT !.n = NULL] = [o |-> f.o, a |-> f.n, n |-> NULL]
          BY <5>2
        <5> QED
          BY <5>1, <5>3
      <4> QED
        BY <4>1, <4>3
    <3>2. walk' = [walk EXCEPT ![N] = [[walk[N] EXCEPT !.a = Top.n] EXCEPT !.n = NULL]]
      BY <1>1, <1>2, <1>7 DEF N
    <3> QED
      BY <1>2, <3>1, <3>2
  <2>2. /\ walk' \in Seq(Frame) /\ Len(walk') = N /\ DOMAIN walk' = 1..N
        /\ walk'[N] = [o |-> Top.o, a |-> Top.n, n |-> NULL]
        /\ \A k \in 1..(N - 1) : walk'[k] = walk[k]
    <3>1. Top.n \in Widget
      BY <1>1, <1>2
    <3>2. /\ walk' \in Seq(Frame) /\ Len(walk') = N
          /\ walk'[N] = [o |-> Top.o, a |-> Top.n, n |-> NULL]
          /\ \A k \in 1..(N - 1) : walk'[k] = walk[k]
      <4>1. PICK v : v = [walk EXCEPT ![Len(walk)] = [o |-> walk[Len(walk)].o, a |-> Top.n, n |-> NULL]]
        OBVIOUS
      <4>2. /\ v \in Seq(Frame) /\ Len(v) = Len(walk)
            /\ v[Len(walk)] = [o |-> walk[Len(walk)].o, a |-> Top.n, n |-> NULL]
            /\ \A k \in 1..(Len(walk) - 1) : v[k] = walk[k]
        <5>1. walk # << >> /\ NULL \in Widget \cup {NULL}
          BY <1>1
        <5> QED
          BY <1>5, <3>1, <4>1, <5>1, TopIs
      <4>3. walk' = v
        BY <1>2, <2>1, <4>1 DEF N
      <4> QED
        BY <1>2, <4>2, <4>3 DEF N
    <3> QED
      BY <3>2
  <2>3. walk' # << >> /\ app' = app
    BY <1>1, <1>2, <2>2
  <2>4. Walks'
    BY <1>1, <1>5, <2>2, <2>3 DEF Walks, Open
  <2>5. FramesOK'
    <3> SUFFICES ASSUME NEW k \in 1..N
                 PROVE  /\ walk'[k].o \in s'.live /\ Owner[walk'[k].o] # app'
                        /\ IF k = 1 THEN walk'[k].o = DeskTop ELSE walk'[k].o \in Windows
                        /\ s'.parent[IF walk'[k].n = NULL THEN walk'[k].a ELSE walk'[k].n]
                             = walk'[k].o
                        /\ k < Len(walk') => walk'[k].n # NULL
      <4>1. DOMAIN walk' = 1..N
        BY <2>2
      <4> QED
        BY <4>1, Zenon DEF FramesOK
    <3>1. CASE k = N
      BY <1>1, <1>2, <1>3, <2>2, <3>1
    <3>2. CASE k # N
      <4>1. k \in 1..(N - 1)
        BY <1>2, <3>2
      <4> QED
        BY <1>1, <1>3, <2>2, <2>3, <4>1
    <3> QED
      BY <3>1, <3>2
  <2>6. ~UnderMenus => Ahead(walk[1], r)'
    <3> SUFFICES ASSUME ~UnderMenus PROVE Ahead(walk[1], r)'
      OBVIOUS
    <3>1. Ahead(walk[1], r)
      BY <1>1
    <3>2. CASE N = 1
      <4>1. \A c \in Widget : s.parent[c] = DeskTop /\ Owner[c] = app => r[Top.n] <= r[c]
        BY <1>1, <1>2, <3>1, <3>2 DEF Ahead
      <4> QED
        BY <1>1, <2>2, <2>3, <3>2, <4>1 DEF Ahead
    <3>3. CASE N # 1
      <4>1. walk'[1] = walk[1]
        BY <1>2, <2>2, <3>3
      <4> QED
        BY <1>1, <2>3, <3>1, <4>1 DEF Ahead
    <3> QED
      BY <3>2, <3>3
  <2> QED
    BY <1>1, <1>4, <2>4, <2>5, <2>6 DEF Inv, Ahead
<1> QED
  BY <1>6, <1>7

LEMMA InvStep ==
  ASSUME ~OpenMenus, Inv, [Next]_vars
  PROVE  Inv'
<1>1. CASE UNCHANGED vars
  <2>1. s' = s /\ walk' = walk /\ app' = app
    BY <1>1 DEF vars
  <2>2. Walks' /\ FramesOK' /\ (~UnderMenus => MenusFirst)'
    BY <2>1 DEF Inv, Walks, FramesOK, MenusFirst, Open
  <2> QED
    BY <2>1, <2>2 DEF Inv, Ahead
<1>2. CASE Next
  <2>1. ASSUME NEW w \in Widget,
               \/ OpenWindow(w) \/ PopUpMenu(w) \/ MenuDisposeFromMe(w)
               \/ WidgetSelect(w) \/ WidgetSetFirst(w) \/ WidgetDispose(w)
               \/ \E i \in Widget : InsertWidget(w, i) \/ PopUpSubMenu(w, i)
        PROVE  Inv'
    BY <2>1, Insertions, Disposals, Selections, SubMenus
  <2>2. ASSUME NEW w \in Widget, DisposeAllAppWidgets(Owner[w]) PROVE Inv'
    BY <2>2, WalkBegins
  <2>3. CASE Walking
    BY <2>3, WalkTakes, WalkGoesOn, WalkTurns DEF Walking
  <2> QED
    BY <1>2, <2>1, <2>2, <2>3 DEF Next
<1> QED
  BY <1>1, <1>2

(***************************************************************************)
(* What a run checks on a small desktop.                                   *)
(***************************************************************************)
LEMMA InvTypes ==
  ASSUME Inv
  PROVE  TypeOK
<1>1. PICK r : Sound(s, r)
  BY DEF Inv
<1>2. s \in Tree /\ s.sel \subseteq s.live
  BY <1>1 DEF Sound, Ranks, Placed
<1> QED
  BY <1>2 DEF Inv, Walks, TypeOK, Tree, Frame

LEMMA InvRings ==
  ASSUME Inv
  PROVE  ChildrenAreRings
<1>1. PICK r : Sound(s, r)
  BY DEF Inv
<1>2. /\ s \in Tree /\ IsFiniteSet(Widget) /\ NULL \notin Widget /\ Ringed(Widget, NULL, s, r)
  BY <1>1, Sorts DEF Sound, Ranks
<1> SUFFICES ASSUME NEW o \in s.live
             PROVE  LET kids == {c \in Widget : s.parent[c] = o}
                        at == WalkOf(s.last[o], s.next, Cardinality(kids))
                    IN IF kids = {} THEN s.last[o] = NULL
                       ELSE /\ kids \subseteq s.live
                            /\ {at[k] : k \in 0..Cardinality(kids)} = kids
                            /\ at[Cardinality(kids)] = s.last[o]
                            /\ \A c \in kids : s.prev[s.next[c]] = c
  BY DEF ChildrenAreRings, WalkOf
<1> DEFINE kids == {c \in Widget : s.parent[c] = o}
           n == Cardinality(kids)
           at == WalkOf(s.last[o], s.next, n)
<1>4. o \in Widget /\ kids = KidsOf(Widget, s, o)
  BY <1>2 DEF Tree, KidsOf
<1>5. CASE kids = {}
  <2>1. s.last[o] = NULL
    BY <1>2, <1>4, <1>5 DEF Ringed, LastsIn, Tree, Link, KidsOf
  <2> QED
    BY <1>5, <2>1
<1>6. CASE kids # {}
  <2>1. {at[k] : k \in 0..n} = kids /\ at[n] = s.last[o]
    <3>1. n = Cardinality(KidsOf(Widget, s, o)) /\ KidsOf(Widget, s, o) # {}
      BY <1>4, <1>6
    <3> HIDE DEF n, kids
    <3>2. {at[k] : k \in 0..n} = KidsOf(Widget, s, o) /\ at[n] = s.last[o]
      BY <1>2, <1>4, <3>1, RingRead
    <3> QED
      BY <1>4, <3>2
  <2>2. \A c \in kids : s.prev[s.next[c]] = c
    BY <1>2 DEF Ringed, RoundTrips, Tree, Link
  <2>3. kids \subseteq s.live
    BY <1>1, <1>2, <1>4 DEF Sound, Placed
  <2> HIDE DEF kids, at
  <2>4. IF kids = {} THEN s.last[o] = NULL
        ELSE /\ kids \subseteq s.live
             /\ {at[k] : k \in 0..Cardinality(kids)} = kids /\ at[Cardinality(kids)] = s.last[o]
             /\ \A c \in kids : s.prev[s.next[c]] = c
    BY <1>6, <2>1, <2>2, <2>3
  <2> QED
    BY <2>4 DEF kids, at
<1> QED
  BY <1>5, <1>6

LEMMA InvTree ==
  ASSUME Inv
  PROVE  TreeOK
<1>1. PICK r : Sound(s, r) /\ PanelLow(s, r)
  BY DEF Inv
<1>2. /\ s \in Tree /\ NULL \notin Widget /\ Windows \subseteq Widget /\ Windows \cap Controls = {}
      /\ DeskTop \notin Windows /\ Panel \notin Windows
  BY <1>1, Sorts DEF Sound, Ranks
<1>3. NeverAlone
  <2> SUFFICES ASSUME NEW w \in Windows \cap s.live PROVE s.next[w] # w
    BY DEF NeverAlone
  <2>1. w \in Widget /\ w # Panel /\ s.parent[w] = DeskTop
    BY <1>1, <1>2 DEF Sound, Whole, Placed
  <2> QED
    BY <1>1, <2>1, NextOnDeskTop
<1>4. SubMenusLive
  <2>1. \A m \in Widget : s.child[m] # NULL => s.child[m] \in s.live
    BY <1>1 DEF Sound, MenusOK
  <2> QED
    BY <1>2, <2>1 DEF SubMenusLive, Open, Tree
<1>5. WalkReadsLive
  <2> SUFFICES ASSUME NEW k \in DOMAIN walk
               PROVE  walk[k].o \in s.live /\ (walk[k].n = NULL => walk[k].a \in s.live)
    BY DEF WalkReadsLive
  <2>1. walk[k].o \in s.live /\ (walk[k].n = NULL => s.parent[walk[k].a] = walk[k].o)
    BY DEF Inv, FramesOK
  <2>2. walk[k] \in Frame
    BY DEF Inv, Walks
  <2>3. walk[k].o \in Widget /\ walk[k].a \in Widget
    BY <2>2 DEF Frame
  <2> QED
    BY <1>1, <1>2, <2>1, <2>3 DEF Sound, Placed
<1> QED
  BY <1>3, <1>4, <1>5, InvTypes, InvRings DEF TreeOK

LEMMA InvSelected ==
  ASSUME ~Behind, Inv
  PROVE  SelectedOnTop
<1>1. PICK r : Sound(s, r)
  BY DEF Inv
<1>2. /\ s \in Tree /\ NULL \notin Widget /\ Windows \subseteq Widget /\ Windows \cap Controls = {}
      /\ DeskTop \notin Windows /\ DeskTop \in Widget /\ r \in [Widget -> Int]
      /\ RankOrder(Widget, NULL, s, r) /\ Ranks(s, r)
  BY <1>1, Sorts DEF Sound, Ranks, Ringed
<1> SUFFICES ASSUME NEW w \in s.sel PROVE s.sel = {w} /\ Highest(s, DeskTop) = w
  BY DEF SelectedOnTop
<1>3. SelTop(s, r)
  BY <1>1 DEF Sound
<1>4. \A v \in s.sel : v \in Widget /\ v \in Windows /\ s.parent[v] = DeskTop
  BY <1>1, <1>2 DEF Sound, Whole, Placed, Tree
<1>5. ASSUME NEW v \in s.sel PROVE v = w
  <2>1. r[v] <= r[w] /\ r[w] <= r[v]
    BY <1>2, <1>3, <1>4 DEF SelTop
  <2>2. r[v] = r[w]
    <3>1. r[v] \in Int /\ r[w] \in Int
      BY <1>2, <1>4
    <3> QED
      BY <2>1, <3>1
  <2> QED
    BY <1>2, <1>4, <2>2 DEF RankOrder
<1>6. w \in Windowed(s, DeskTop) /\ \A d \in Windowed(s, DeskTop) : r[w] <= r[d]
  BY <1>2, <1>3, <1>4 DEF Windowed, SelTop
<1>7. Highest(s, DeskTop) = w
  BY <1>2, <1>6, LowestRankIsHighest
<1> QED
  BY <1>5, <1>7

\* The walk ends at the panel, which lies below all: no widget of the application is left.
LEMMA NoneLeft ==
  ASSUME ~UnderMenus, Inv, [Next]_vars, walk # << >>, walk' = << >>, NEW w \in s.live
  PROVE  Owner[w] # app
<1>1. PICK r : Sound(s, r) /\ PanelLow(s, r) /\ Ahead(walk[1], r)
  BY DEF Inv
<1>2. /\ s \in Tree /\ NULL \notin Widget /\ r \in [Widget -> Int] /\ RankOrder(Widget, NULL, s, r)
      /\ DeskTop \notin Windows /\ DeskTop \in Widget /\ Panel \in Widget /\ Panel \in s.live
      /\ Panel # DeskTop /\ Panel \notin Controls /\ Windows \cap Controls = {}
      /\ Windows \subseteq Widget
  BY <1>1, Sorts DEF Sound, Ranks, Ringed, PanelLow
<1>3. app # Owner[DeskTop] /\ app # Owner[Panel]
  BY DEF Inv, Walks
<1>4. /\ Len(walk) \in 1..Len(walk) /\ Len(walk) \in Nat /\ Top = walk[Len(walk)]
      /\ \A k \in 1..Len(walk) : walk[k].n \in Widget \cup {NULL}
      /\ walk \in Seq(Frame)
  BY TopFrame DEF Inv, Walks
<1>5. WalkNext
  <2>1. ~UNCHANGED vars
    BY DEF vars
  <2>2. ~(\E st : Becomes(st)) /\ \A p : ~DisposeAllAppWidgets(p)
    BY DEF Becomes, DisposeAllAppWidgets
  <2>3. Walking
    BY <2>1, <2>2 DEF Next, OpenWindow, PopUpMenu, MenuDisposeFromMe, WidgetSelect,
       WidgetSetFirst, WidgetDispose, InsertWidget, PopUpSubMenu
  <2>4. ~(WalkEnters \/ WalkPasses \/ WalkDisposes)
    <3>1. ASSUME NEW x \in Widget \cup {NULL} PROVE walk' # [walk EXCEPT ![Len(walk)].n = x]
      <4>1. DOMAIN walk # {}
        BY <1>4
      <4>2. DOMAIN [walk EXCEPT ![Len(walk)].n = x] = DOMAIN walk
        OBVIOUS
      <4> QED
        BY <4>1, <4>2
    <3>2. ASSUME Visit(TRUE) \/ Visit(FALSE) PROVE walk' # Read
      <4>1. Top.a \in Widget
        BY <1>2, <3>2 DEF Visit, Tree
      <4>2. s.next[Top.a] \in Widget \cup {NULL}
        BY <1>2, <4>1 DEF Tree, Link
      <4> QED
        BY <3>1, <4>2 DEF Read
    <3>3. ASSUME NEW v, NEW f PROVE Append(v, f) # << >>
      OBVIOUS
    <3> QED
      BY <3>2, <3>3 DEF WalkEnters, WalkPasses, WalkDisposes
  <2> QED
    BY <2>3, <2>4 DEF Walking
<1>6. Len(walk) = 1 /\ Top.n = s.last[Top.o] /\ Top.n # NULL
  <2>1. Top.n = s.last[Top.o]
    <3> SUFFICES ASSUME Top.n # s.last[Top.o] PROVE FALSE
      OBVIOUS
    <3>1. walk' = [walk EXCEPT ![Len(walk)].a = Top.n, ![Len(walk)].n = NULL]
      BY <1>5 DEF WalkNext
    <3>2. DOMAIN walk' = DOMAIN walk
      BY <3>1
    <3> QED
      BY <1>4, <3>2
  <2>2. << >> = SubSeq(walk, 1, Len(walk) - 1)
    BY <1>5, <2>1 DEF WalkNext, Front
  <2>3. Len(SubSeq(walk, 1, Len(walk) - 1)) = Len(walk) - 1
    <3>1. PICK n : n = Len(walk) - 1
      OBVIOUS
    <3>2. n \in Nat /\ n \in 0..Len(walk) /\ walk \in Seq(Frame)
      BY <1>4, <3>1
    <3>3. Len(SubSeq(walk, 1, n)) = n
      BY <3>2
    <3> QED
      BY <3>1, <3>3
  <2> QED
    BY <1>4, <1>5, <2>1, <2>2, <2>3 DEF WalkNext
<1>7. s.parent[Panel] = DeskTop
  BY <1>1, <1>2 DEF Sound, Whole, Placed
<1>8. Top.n = Panel /\ Top = walk[1]
  <2>1. Top.o = DeskTop
    BY <1>4, <1>6 DEF Inv, FramesOK
  <2> QED
    BY <1>1, <1>2, <1>4, <1>6, <1>7, <2>1, NextOnDeskTop
<1>9. ASSUME NEW c \in Widget, s.parent[c] = DeskTop PROVE Owner[c] # app
  <2> SUFFICES ASSUME Owner[c] = app PROVE FALSE
    OBVIOUS
  <2>1. r[Panel] <= r[c]
    BY <1>1, <1>6, <1>8, <1>9 DEF Ahead
  <2>2. r[c] <= r[Panel]
    BY <1>1, <1>9 DEF PanelLow
  <2>3. r[c] = r[Panel]
    BY <1>2, <2>1, <2>2
  <2>4. c = Panel
    BY <1>2, <1>7, <1>9, <2>3 DEF RankOrder
  <2> QED
    BY <1>3, <2>4
<1>10. w \in Widget
  BY <1>2 DEF Tree
<1>11. CASE w = DeskTop
  BY <1>3, <1>11
<1>12. CASE w # DeskTop /\ w \notin Controls
  <2>1. s.parent[w] = DeskTop
    BY <1>1, <1>10, <1>12 DEF Sound, Whole, Placed
  <2> QED
    BY <1>9, <1>10, <2>1
<1>13. CASE w # DeskTop /\ w \in Controls
  <2> DEFINE p == s.parent[w]
  <2>1. p \in Windows /\ p \in s.live /\ Owner[p] = Owner[w]
    BY <1>1, <1>10, <1>13 DEF Sound, Whole, Placed
  <2> HIDE DEF p
  <2>2. p \in Widget /\ s.parent[p] = DeskTop
    BY <1>1, <1>2, <2>1 DEF Sound, Whole, Placed
  <2> QED
    BY <1>9, <2>1, <2>2
<1> QED
  BY <1>11, <1>12, <1>13

LEMMA Invariant ==
  ASSUME ~NoShell, ~OpenMenus
  PROVE  Spec => []Inv
<1>1. Init => Inv
  BY InitInv
<1>2. Inv /\ [Next]_vars => Inv'
  BY InvStep
<1> QED
  BY <1>1, <1>2, PTL DEF Spec

(***************************************************************************)
(* The tree of widgets is whole, and the walk of an application that ends  *)
(* reads no widget that it has freed (RemoveWidgetEx, _WidgetInsertBefore, *)
(* WidgetDisposeEx, PopUpMenuEx, DisposeAllAppWidgets): while the panel of *)
(* desktop.app is there, and an application does not end with a submenu    *)
(* open.                                                                   *)
(***************************************************************************)
THEOREM TreeIsWhole ==
  ASSUME ~NoShell, ~OpenMenus
  PROVE  Spec => []TreeOK
<1>1. Inv => TreeOK
  BY InvTree
<1> QED
  BY <1>1, Invariant, PTL

\* The window that is selected is the highest (WidgetSelect, _WidgetInsert, _WidgetRemove):
\* while widgets are inserted in the highest window only.
THEOREM SelectionIsOnTop ==
  ASSUME ~NoShell, ~OpenMenus, ~Behind
  PROVE  Spec => []SelectedOnTop
<1>1. Inv => SelectedOnTop
  BY InvSelected
<1> QED
  BY <1>1, Invariant, PTL

\* An application that ends leaves none of its widgets in the tree (DisposeAllAppWidgets):
\* while no window is opened or changed under a menu.
THEOREM ApplicationLeavesNone ==
  ASSUME ~NoShell, ~OpenMenus, ~UnderMenus
  PROVE  Spec => AllDisposed
<1>1. Inv /\ [Next]_vars => [(walk # << >> /\ walk' = << >>) => \A w \in s.live : Owner[w] # app]_vars
  BY NoneLeft
<1> QED
  BY <1>1, Invariant, PTL DEF Spec, AllDisposed
=============================================================================
