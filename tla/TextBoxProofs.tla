--------------------------- MODULE TextBoxProofs ----------------------------
(***************************************************************************)
(* That a text box's pointers stay in its text, that the clipboard and     *)
(* drags pass on what is selected and lose nothing, that Up and Down move  *)
(* by one line and that the caret comes into sight: for any number of      *)
(* boxes, any letters, texts of any length and text areas of any size,     *)
(* within the boundaries each theorem names.                               *)
(***************************************************************************)
EXTENDS TextBox, Links, SequenceTheorems

Text == Seq(Letters \cup {NL})
-----------------------------------------------------------------------------
(***************************************************************************)
(* Parts of a text.                                                        *)
(***************************************************************************)
\* The text before a position.
LEMMA BeforeIs ==
  ASSUME NEW t \in Text, NEW p \in 0..Len(t)
  PROVE  /\ Before(t, p) \in Text /\ Len(Before(t, p)) = p
         /\ \A i \in 1..p : Before(t, p)[i] = t[i]
<1>1. 1 \in Int /\ p \in Int /\ \A i \in 1..p : t[i] \in Letters \cup {NL}
  BY ElementOfSeq DEF Text
<1> QED
  BY <1>1, SubSeqProperties DEF Text, Before

\* The text between two positions, the second of which may be the end.
LEMMA BetweenIs ==
  ASSUME NEW t \in Text, NEW p \in 0..Len(t), NEW q \in p..Len(t)
  PROVE  /\ SubSeq(t, p + 1, q) \in Text /\ Len(SubSeq(t, p + 1, q)) = q - p
         /\ \A i \in 1..(q - p) : SubSeq(t, p + 1, q)[i] = t[p + i]
<1>1. p + 1 \in Int /\ q \in Int /\ \A i \in (p + 1)..q : t[i] \in Letters \cup {NL}
  BY ElementOfSeq DEF Text
<1>2. /\ SubSeq(t, p + 1, q) \in Seq(Letters \cup {NL})
      /\ Len(SubSeq(t, p + 1, q)) = IF p + 1 <= q THEN q - (p + 1) + 1 ELSE 0
      /\ \A i \in 1..(q - (p + 1) + 1) : SubSeq(t, p + 1, q)[i] = t[p + 1 + i - 1]
  BY <1>1, SubSeqProperties
<1> QED
  BY <1>2 DEF Text

LEMMA FromIs ==
  ASSUME NEW t \in Text, NEW p \in 0..Len(t)
  PROVE  /\ From(t, p) \in Text /\ Len(From(t, p)) = Len(t) - p
         /\ \A i \in 1..(Len(t) - p) : From(t, p)[i] = t[p + i]
<1>1. Len(t) \in p..Len(t)
  BY DEF Text
<1> QED
  BY <1>1, BetweenIs DEF From

\* Adjacent parts.
LEMMA Adjacent ==
  ASSUME NEW t \in Text, NEW p \in 0..Len(t), NEW q \in p..Len(t)
  PROVE  /\ Before(t, p) \o SubSeq(t, p + 1, q) = Before(t, q)
         /\ SubSeq(t, p + 1, q) \o From(t, q) = From(t, p)
         /\ Before(t, p) \o From(t, p) = t
<1>1. Len(t) \in Nat
  BY DEF Text
<1>2. Before(t, p) \o SubSeq(t, p + 1, q) = Before(t, q)
  <2>1. 1 \in 1..(Len(t) + 1) /\ p \in (1 - 1)..Len(t)
    BY <1>1
  <2> QED
    BY <2>1, ConcatAdjacentSubSeq DEF Text, Before
<1>3. SubSeq(t, p + 1, q) \o From(t, q) = From(t, p)
  <2>1. PICK m : m = p + 1
    OBVIOUS
  <2>2. m \in 1..Len(t)+1 /\ q \in m-1..Len(t) /\ Len(t) \in q..Len(t)
    BY <1>1, <2>1
  <2>3. t \in Seq(Letters \cup {NL})
    BY DEF Text
  <2>4. SubSeq(t, m, q) \o SubSeq(t, q + 1, Len(t)) = SubSeq(t, m, Len(t))
    BY ONLY <2>2, <2>3, ConcatAdjacentSubSeq
  <2> QED
    BY <2>1, <2>4 DEF From
<1>4. Before(t, p) \o From(t, p) = t
  <2>1. 1 \in 1..(Len(t) + 1) /\ p \in (1 - 1)..Len(t) /\ Len(t) \in p..Len(t)
    BY <1>1
  <2>2. SubSeq(t, 1, p) \o SubSeq(t, p + 1, Len(t)) = SubSeq(t, 1, Len(t))
    BY <2>1, ConcatAdjacentSubSeq DEF Text
  <2> QED
    BY <2>2, SubSeqFull DEF Text, Before, From
<1> QED
  BY <1>2, <1>3, <1>4

\* A text put together can be taken apart.
LEMMA Apart ==
  ASSUME NEW u \in Text, NEW v \in Text
  PROVE  /\ u \o v \in Text /\ Len(u \o v) = Len(u) + Len(v)
         /\ Len(u) \in 0..Len(u \o v)
         /\ Before(u \o v, Len(u)) = u /\ From(u \o v, Len(u)) = v
<1>1. Len(u) \in Nat /\ Len(v) \in Nat
  BY DEF Text
<1>2. /\ u \o v \in Text /\ Len(u \o v) = Len(u) + Len(v)
      /\ \A i \in 1..(Len(u) + Len(v)) : (u \o v)[i] = IF i <= Len(u) THEN u[i] ELSE v[i - Len(u)]
  BY ConcatProperties DEF Text
<1>3. Len(u) \in 0..Len(u \o v)
  BY <1>1, <1>2
<1>4. Before(u \o v, Len(u)) = u
  <2>1. /\ Before(u \o v, Len(u)) \in Text /\ Len(Before(u \o v, Len(u))) = Len(u)
        /\ \A i \in 1..Len(u) : Before(u \o v, Len(u))[i] = (u \o v)[i]
    BY <1>2, <1>3, BeforeIs
  <2>2. \A i \in 1..Len(u) : Before(u \o v, Len(u))[i] = u[i]
    BY <1>1, <1>2, <2>1
  <2> QED
    BY <2>1, <2>2, SeqEqual DEF Text
<1>5. From(u \o v, Len(u)) = v
  <2>1. /\ From(u \o v, Len(u)) \in Text /\ Len(From(u \o v, Len(u))) = Len(v)
        /\ \A i \in 1..Len(v) : From(u \o v, Len(u))[i] = (u \o v)[Len(u) + i]
    <3>1. Len(u \o v) - Len(u) = Len(v)
      BY <1>1, <1>2
    <3>2. /\ From(u \o v, Len(u)) \in Text /\ Len(From(u \o v, Len(u))) = Len(u \o v) - Len(u)
          /\ \A i \in 1..(Len(u \o v) - Len(u)) : From(u \o v, Len(u))[i] = (u \o v)[Len(u) + i]
      BY <1>2, <1>3, FromIs
    <3> QED
      BY <3>1, <3>2
  <2>2. ASSUME NEW i \in 1..Len(v) PROVE From(u \o v, Len(u))[i] = v[i]
    <3>1. Len(u) + i \in 1..(Len(u) + Len(v)) /\ ~(Len(u) + i <= Len(u)) /\ (Len(u) + i) - Len(u) = i
      BY <1>1
    <3> QED
      BY <1>2, <2>1, <3>1
  <2> QED
    BY <2>1, <2>2, SeqEqual DEF Text
<1> QED
  BY <1>2, <1>3, <1>4, <1>5

\* Three parts are put together from either side.
LEMMA Together ==
  ASSUME NEW u \in Text, NEW v \in Text, NEW w \in Text
  PROVE  (u \o v) \o w = u \o (v \o w)
BY ConcatAssociative DEF Text
-----------------------------------------------------------------------------
(***************************************************************************)
(* The largest and the smallest number of a set.                           *)
(***************************************************************************)
LEMMA MaxIs ==
  ASSUME NEW n \in Nat, NEW D \in SUBSET (0..n), D # {}
  PROVE  Max(D) \in D /\ \A i \in D : i <= Max(D)
<1> DEFINE T == {k \in Nat : \A E \in SUBSET (0..k) : E # {} => \E x \in E : \A y \in E : x >= y}
<1>1. 0 \in T
  <2> SUFFICES ASSUME NEW E \in SUBSET (0..0), E # {} PROVE \E x \in E : \A y \in E : x >= y
    OBVIOUS
  <2>1. PICK x \in E : TRUE
    OBVIOUS
  <2>2. \A y \in E : x >= y
    OBVIOUS
  <2> QED
    BY <2>2
<1>2. ASSUME NEW k \in Nat, k \in T PROVE k + 1 \in T
  <2> SUFFICES ASSUME NEW E \in SUBSET (0..(k + 1)), E # {} PROVE \E x \in E : \A y \in E : x >= y
    OBVIOUS
  <2>1. CASE k + 1 \in E
    <3>1. \A y \in E : k + 1 >= y
      OBVIOUS
    <3> QED
      BY <2>1, <3>1
  <2>2. CASE ~(k + 1 \in E)
    <3>1. ASSUME NEW y \in E PROVE y \in 0..k
      <4>1. y \in 0..(k + 1) /\ y # k + 1
        BY <2>2
      <4> QED
        BY <4>1
    <3>2. E \in SUBSET (0..k)
      BY <3>1
    <3> QED
      BY <1>2, <3>2
  <2> QED
    BY <2>1, <2>2
<1>3. n \in T
  <2> HIDE DEF T
  <2> QED
    BY <1>1, <1>2, SetInduction
<1>4. \E x \in D : \A y \in D : x >= y
  BY <1>3
<1>5. Max(D) \in D /\ \A y \in D : Max(D) >= y
  BY <1>4 DEF Max
<1> QED
  BY <1>5

LEMMA MinIs ==
  ASSUME NEW n \in Nat, NEW D \in SUBSET (0..n), D # {}
  PROVE  Min(D) \in D /\ \A i \in D : Min(D) <= i
<1> DEFINE M == {n - i : i \in D}
<1>1. M \in SUBSET (0..n) /\ M # {}
  <2>1. \A i \in D : n - i \in 0..n
    OBVIOUS
  <2> QED
    BY <2>1
<1>2. Max(M) \in M /\ \A i \in M : i <= Max(M)
  <2> HIDE DEF M
  <2> QED
    BY <1>1, MaxIs
<1>3. PICK x \in D : Max(M) = n - x
  BY <1>2
<1>4. ASSUME NEW y \in D PROVE x <= y
  <2>1. n - y <= n - x
    BY <1>2, <1>3
  <2> QED
    BY <2>1
<1>5. \E z \in D : \A y \in D : z <= y
  BY <1>4
<1>6. Min(D) \in D /\ \A y \in D : Min(D) <= y
  BY <1>5 DEF Min
<1> QED
  BY <1>6

\* Of two numbers.
LEMMA OfTwo ==
  ASSUME NEW i \in Int, NEW j \in Int
  PROVE  /\ Min({i, j}) = IF i <= j THEN i ELSE j
         /\ Max({i, j}) = IF i <= j THEN j ELSE i
BY DEF Min, Max
-----------------------------------------------------------------------------
(***************************************************************************)
(* Lines and columns.                                                      *)
(***************************************************************************)
LEMMA BreaksIn ==
  ASSUME NEW t \in Text
  PROVE  Len(t) \in Nat /\ Breaks(t) \subseteq 1..Len(t)
BY DEF Text, Breaks

\* A column is counted from the last line break before the position.
LEMMA ColumnIs ==
  ASSUME NEW t \in Text, NEW p \in 0..Len(t)
  PROVE  \E k \in 0..p : /\ Column(t, p) = p - k /\ (k = 0 \/ k \in Breaks(t))
                         /\ \A i \in Breaks(t) : i <= p => i <= k
<1> DEFINE D == {0} \cup {i \in Breaks(t) : i <= p}
<1>1. p \in Nat /\ Len(t) \in Nat
  BY BreaksIn
<1>2. D \in SUBSET (0..p) /\ D # {}
  <2>1. \A i \in D : i \in 0..p
    BY <1>1, BreaksIn
  <2> QED
    BY <2>1
<1>3. Max(D) \in D /\ \A i \in D : i <= Max(D)
  <2> HIDE DEF D
  <2> QED
    BY <1>1, <1>2, MaxIs
<1>4. Column(t, p) = p - Max(D)
  BY DEF Column
<1>5. Max(D) \in 0..p /\ (Max(D) = 0 \/ Max(D) \in Breaks(t))
  BY <1>2, <1>3
<1>6. \A i \in Breaks(t) : i <= p => i <= Max(D)
  BY <1>3
<1> QED
  BY <1>4, <1>5, <1>6

LEMMA ReachStartOfLineIs ==
  ASSUME NEW t \in Text, NEW p \in 0..Len(t)
  PROVE  \E k \in 0..p : /\ ReachStartOfLine(t, p) = k /\ (k = 0 \/ (k > 1 /\ k \in Breaks(t)))
                         /\ \A i \in Breaks(t) : 1 < i /\ i <= p => i <= k
<1> DEFINE D == {0} \cup {i \in Breaks(t) : 1 < i /\ i <= p}
<1>1. p \in Nat /\ Len(t) \in Nat
  BY BreaksIn
<1>2. D \in SUBSET (0..p) /\ D # {}
  <2>1. \A i \in D : i \in 0..p
    BY <1>1, BreaksIn
  <2> QED
    BY <2>1
<1>3. Max(D) \in D /\ \A i \in D : i <= Max(D)
  <2> HIDE DEF D
  <2> QED
    BY <1>1, <1>2, MaxIs
<1>4. ReachStartOfLine(t, p) = Max(D)
  BY DEF ReachStartOfLine
<1>5. Max(D) \in 0..p
  BY <1>2, <1>3
<1>6. Max(D) = 0 \/ (Max(D) > 1 /\ Max(D) \in Breaks(t))
  BY <1>3, <1>5
<1>7. \A i \in Breaks(t) : 1 < i /\ i <= p => i <= Max(D)
  BY <1>3
<1> HIDE DEF D
<1> QED
  BY <1>4, <1>5, <1>6, <1>7

LEMMA NextBreakIs ==
  ASSUME NEW t \in Text, NEW p \in Nat, NextBreak(t, p) # NULL
  PROVE  /\ NextBreak(t, p) \in Nat /\ p <= NextBreak(t, p) /\ NextBreak(t, p) < Len(t)
         /\ NextBreak(t, p) + 1 \in Breaks(t)
         /\ \A i \in Breaks(t) : i > p => NextBreak(t, p) + 1 <= i
<1> DEFINE D == {i \in Breaks(t) : i > p}
<1>1. Len(t) \in Nat /\ D \in SUBSET (0..Len(t))
  BY BreaksIn
<1>2. D # {} /\ NextBreak(t, p) = Min(D) - 1
  BY DEF NextBreak
<1>3. Min(D) \in D /\ \A i \in D : Min(D) <= i
  <2> HIDE DEF D
  <2> QED
    BY <1>1, <1>2, MinIs
<1>4. PICK m : m = Min(D)
  OBVIOUS
<1>5. m \in Breaks(t) /\ m > p /\ m \in 1..Len(t)
  BY <1>3, <1>4, BreaksIn
<1>6. NextBreak(t, p) = m - 1 /\ \A i \in Breaks(t) : i > p => m <= i
  BY <1>2, <1>3, <1>4
<1>7. NextBreak(t, p) + 1 = m /\ NextBreak(t, p) \in Nat /\ p <= NextBreak(t, p) /\ NextBreak(t, p) < Len(t)
  BY <1>1, <1>5, <1>6
<1> QED
  BY <1>5, <1>6, <1>7

LEMMA LineIs ==
  ASSUME NEW t \in Text, NEW p
  PROVE  /\ IsFiniteSet(Breaks(t)) /\ Cardinality(Breaks(t)) \in Nat
         /\ Line(t, p) \in Nat /\ Line(t, p) <= Cardinality(Breaks(t))
<1>1. IsFiniteSet(Breaks(t))
  <2>1. 1 \in Int /\ Len(t) \in Int
    BY BreaksIn
  <2>2. IsFiniteSet(1..Len(t))
    BY <2>1, FS_Interval
  <2> QED
    BY <2>2, BreaksIn, FS_Subset
<1>2. {i \in Breaks(t) : i <= p} \in SUBSET Breaks(t)
  OBVIOUS
<1> QED
  BY <1>1, <1>2, FS_Subset, FS_CardinalityType DEF Line

\* The longest line, as TextBoxCalculateMax finds it.
LEMMA LongestIs ==
  ASSUME NEW t \in Text
  PROVE  Longest(t) \in Nat /\ \A p \in 0..Len(t) : Column(t, p) \in Nat /\ Column(t, p) <= Longest(t)
<1> DEFINE D == {Column(t, p) : p \in 0..Len(t)}
<1>1. Len(t) \in Nat
  BY BreaksIn
<1>2. ASSUME NEW p \in 0..Len(t) PROVE Column(t, p) \in 0..Len(t)
  <2>1. PICK k \in 0..p : Column(t, p) = p - k
    BY ColumnIs
  <2> QED
    BY <1>1, <2>1
<1>3. D \in SUBSET (0..Len(t))
  BY <1>2
<1>4. D # {}
  <2>1. Column(t, 0) \in D
    BY <1>1
  <2> QED
    BY <2>1
<1>5. Max(D) \in D /\ \A i \in D : i <= Max(D)
  <2> HIDE DEF D
  <2> QED
    BY <1>1, <1>3, <1>4, MaxIs
<1>6. Longest(t) = Max(D)
  BY DEF Longest
<1>7. Max(D) \in Nat
  BY <1>1, <1>3, <1>5
<1>8. ASSUME NEW p \in 0..Len(t) PROVE Column(t, p) \in Nat /\ Column(t, p) <= Max(D)
  <2>1. Column(t, p) \in D
    OBVIOUS
  <2> QED
    BY <1>1, <1>2, <1>5, <2>1
<1> HIDE DEF D
<1> QED
  BY <1>6, <1>7, <1>8
-----------------------------------------------------------------------------
(***************************************************************************)
(* What a box may be, and what each operation makes of it.                 *)
(***************************************************************************)
Point == [x : Nat, y : Nat]
Record == [text : Text, sel : Nat, end : Nat, drag : Nat \cup {Stale}, pos : Point, max : Point]

\* The positions lie in the text.
Inside(b) ==
  /\ b \in Record
  /\ b.sel <= Len(b.text) /\ b.end <= Len(b.text)
  /\ b.drag # Stale => b.drag \in 0..Len(b.text)

Scrolled(b) == b.pos.x <= b.max.x /\ b.pos.y <= b.max.y

\* n is what may become of b; n's DragPos is not lost.
Follows(b, n) == Inside(n) /\ (Scrolled(b) => Scrolled(n)) /\ (b.drag # Stale => n.drag # Stale)

\* A box whose text is scrolled and no more.
Same(b, n) == n.text = b.text /\ n.sel = b.sel /\ n.end = b.end /\ n.drag = b.drag

LEMMA InsideIs ==
  ASSUME NEW b, Inside(b)
  PROVE  /\ b.text \in Text /\ Len(b.text) \in Nat
         /\ b.sel \in 0..Len(b.text) /\ b.end \in 0..Len(b.text)
         /\ b.drag # Stale => b.drag \in 0..Len(b.text)
         /\ b.pos.x \in Nat /\ b.pos.y \in Nat /\ b.max.x \in Nat /\ b.max.y \in Nat
<1>1. b.text \in Text /\ b.sel \in Nat /\ b.end \in Nat /\ b.pos \in Point /\ b.max \in Point
  BY DEF Inside, Record
<1>2. Len(b.text) \in Nat
  BY <1>1, BreaksIn
<1> QED
  BY <1>1, <1>2 DEF Inside, Point

LEMMA CalculateMaxIs ==
  ASSUME NEW b, Inside(b)
  PROVE  LET n == TextBoxCalculateMax(b)
         IN Inside(n) /\ Scrolled(n) /\ Same(b, n) /\ n.max = MaxOf(b.text)
<1> DEFINE m == MaxOf(b.text)
           at == [x |-> Min({b.pos.x, m.x}), y |-> Min({b.pos.y, m.y})]
           n == TextBoxCalculateMax(b)
<1>1. /\ b.text \in Text /\ b.pos.x \in Nat /\ b.pos.y \in Nat
  BY InsideIs
<1>2. Longest(b.text) \in Nat /\ Cardinality(Breaks(b.text)) \in Nat
  BY <1>1, LongestIs, LineIs
<1>3. m.x \in Nat /\ m.y \in Nat
  BY <1>2, TextBoxAssumption DEF MaxOf, Beyond
<1>4. at.x \in Nat /\ at.x <= m.x /\ at.y \in Nat /\ at.y <= m.y
  BY <1>1, <1>3, OfTwo
<1>5. n = [b EXCEPT !.max = m, !.pos = at]
  BY DEF TextBoxCalculateMax, MaxOf, Beyond, Longest
<1>6. m \in Point /\ at \in Point
  BY <1>3, <1>4 DEF MaxOf, Point
<1> HIDE DEF n, m, at
<1>7. Same(b, n) /\ n.max = m /\ n.pos = at /\ n \in Record
  BY <1>5, <1>6 DEF Inside, Record, Same
<1>8. Inside(n) /\ Scrolled(n)
  BY <1>4, <1>7 DEF Inside, Scrolled, Same
<1> QED
  BY <1>7, <1>8 DEF n, m

\* Where CheckSelVisibility scrolls.
LEMMA IntoIs ==
  ASSUME NEW v \in Nat, NEW w \in {v, v + 1}, NEW max \in Nat, NEW p \in 0..max,
         NEW size \in Nat, size > 0
  PROVE  /\ Into(v, w, p, size, max) \in 0..max /\ Into(v, w, p, size, max) <= v
         /\ w <= max + size => w <= Into(v, w, p, size, max) + size
BY OfTwo DEF Into

LEMMA CheckSelVisibilityIs ==
  ASSUME NEW b, Inside(b), Scrolled(b)
  PROVE  LET n  == CheckSelVisibility(b)
             at == Locate(b.text, b.end)
         IN /\ Inside(n) /\ Scrolled(n) /\ Same(b, n)
            /\ n.pos.x = Into(at.x, at.x, b.pos.x, Width, b.max.x)
            /\ n.pos.y = Into(at.y, at.y + 1, b.pos.y, Height, b.max.y)
<1> DEFINE n == CheckSelVisibility(b)
           at == Locate(b.text, b.end)
           x == Into(at.x, at.x, b.pos.x, Width, b.max.x)
           y == Into(at.y, at.y + 1, b.pos.y, Height, b.max.y)
<1>1. /\ b.text \in Text /\ b.end \in 0..Len(b.text)
      /\ b.pos.x \in Nat /\ b.pos.y \in Nat /\ b.max.x \in Nat /\ b.max.y \in Nat
  BY InsideIs
<1>2. b.pos.x \in 0..b.max.x /\ b.pos.y \in 0..b.max.y
  BY <1>1 DEF Scrolled
<1>3. at.x \in Nat /\ at.y \in Nat
  <2>1. Column(b.text, b.end) \in Nat /\ Line(b.text, b.end) \in Nat
    BY <1>1, LongestIs, LineIs
  <2> QED
    BY <2>1 DEF Locate
<1>4. x \in 0..b.max.x /\ y \in 0..b.max.y
  <2> HIDE DEF at
  <2>1. at.x \in {at.x, at.x + 1} /\ at.y + 1 \in {at.y, at.y + 1}
    OBVIOUS
  <2>2. Width \in Nat /\ Width > 0 /\ Height \in Nat /\ Height > 0
    BY TextBoxAssumption
  <2>3. x \in 0..b.max.x
    BY ONLY <1>1, <1>2, <1>3, <2>1, <2>2, IntoIs
  <2>4. y \in 0..b.max.y
    BY ONLY <1>1, <1>2, <1>3, <2>1, <2>2, IntoIs
  <2> QED
    BY <2>3, <2>4
<1>5. n = IF b.max.x = 0 /\ b.max.y = 0 THEN b ELSE [b EXCEPT !.pos = [x |-> x, y |-> y]]
  BY DEF CheckSelVisibility
<1> HIDE DEF n, at, x, y
<1>6. Same(b, n) /\ n.pos.x = x /\ n.pos.y = y /\ n \in Record /\ n.max = b.max
  <2>1. CASE b.max.x = 0 /\ b.max.y = 0
    BY <1>1, <1>2, <1>4, <1>5, <2>1 DEF Same, Inside
  <2>2. CASE ~(b.max.x = 0 /\ b.max.y = 0)
    <3>1. [x |-> x, y |-> y] \in Point
      BY <1>1, <1>4 DEF Point
    <3> QED
      BY <1>5, <2>2, <3>1 DEF Same, Inside, Record
  <2> QED
    BY <2>1, <2>2
<1>7. Inside(n) /\ Scrolled(n)
  BY <1>1, <1>4, <1>6 DEF Inside, Scrolled, Same
<1> QED
  BY <1>6, <1>7 DEF n, at, x, y

\* A key ends in both.
Measured(b) == CheckSelVisibility(TextBoxCalculateMax(b))

\* After both the caret is in sight: the scroll bars go as far as the longest line and the last one.
LEMMA MeasuredIs ==
  ASSUME NEW b, Inside(b)
  PROVE  /\ Inside(Measured(b)) /\ Scrolled(Measured(b)) /\ Same(b, Measured(b))
         /\ InSight(Measured(b))
<1>1. PICK m : m = TextBoxCalculateMax(b)
  OBVIOUS
<1>2. PICK n : n = Measured(b)
  OBVIOUS
<1>3. Inside(m) /\ Scrolled(m) /\ Same(b, m) /\ m.max = MaxOf(b.text)
  BY <1>1, CalculateMaxIs
<1>4. n = CheckSelVisibility(m)
  BY <1>1, <1>2 DEF Measured
<1>5. PICK at : at = Locate(b.text, b.end)
  OBVIOUS
<1>6. at = Locate(m.text, m.end)
  BY <1>3, <1>5 DEF Same
<1>7. /\ Inside(n) /\ Scrolled(n) /\ Same(m, n)
      /\ n.pos.x = Into(at.x, at.x, m.pos.x, Width, m.max.x)
      /\ n.pos.y = Into(at.y, at.y + 1, m.pos.y, Height, m.max.y)
  BY <1>3, <1>4, <1>6, CheckSelVisibilityIs
<1>8. Same(b, n)
  BY <1>3, <1>7 DEF Same
<1>9. b.text \in Text /\ b.end \in 0..Len(b.text)
  BY InsideIs
<1>10. PICK k : k = Cardinality(Breaks(b.text))
  OBVIOUS
<1>11. /\ at.x \in Nat /\ at.x <= Longest(b.text) /\ Longest(b.text) \in Nat
       /\ k \in Nat /\ at.y \in Nat /\ at.y <= 2 * k
  <2>1. at.x = Column(b.text, b.end) /\ at.y = 2 * Line(b.text, b.end)
    BY <1>5 DEF Locate
  <2>2. Line(b.text, b.end) \in Nat /\ Line(b.text, b.end) <= k /\ k \in Nat
    BY <1>9, <1>10, LineIs
  <2>3. PICK l \in Nat : l = Line(b.text, b.end)
    BY <2>2
  <2> QED
    BY <1>9, <2>1, <2>2, <2>3, LongestIs
<1>12. Width \in Nat /\ Width > 0 /\ Height \in Nat /\ Height > 1
  BY TextBoxAssumption
<1>13. at.x <= m.max.x + Width /\ at.y + 1 <= m.max.y + Height
  <2>1. m.max.x = Beyond(Longest(b.text), Width) /\ m.max.y = Beyond(2 * (k + 1), Height)
    BY <1>3, <1>10 DEF MaxOf
  <2> QED
    BY <1>11, <1>12, <2>1 DEF Beyond
<1>14. m.pos.x \in 0..m.max.x /\ m.max.x \in Nat /\ m.pos.y \in 0..m.max.y /\ m.max.y \in Nat
  BY <1>3, InsideIs DEF Scrolled
<1>15. n.pos.x <= at.x /\ at.x <= n.pos.x + Width
  <2>1. PICK x, p, w : x = at.x /\ p = m.pos.x /\ w = m.max.x
    OBVIOUS
  <2>2. x \in Nat /\ x \in {x, x + 1} /\ w \in Nat /\ p \in 0..w /\ x <= w + Width
    BY <1>11, <1>13, <1>14, <2>1
  <2>3. Into(x, x, p, Width, w) <= x /\ x <= Into(x, x, p, Width, w) + Width
    BY ONLY <1>12, <2>2, IntoIs
  <2> QED
    BY <1>7, <2>1, <2>3
<1>16. n.pos.y <= at.y /\ at.y + 1 <= n.pos.y + Height
  <2>1. PICK y, p, w : y = at.y /\ p = m.pos.y /\ w = m.max.y
    OBVIOUS
  <2>2. /\ y \in Nat /\ y + 1 \in {y, y + 1} /\ w \in Nat /\ p \in 0..w /\ y + 1 <= w + Height
        /\ Height \in Nat /\ Height > 0
    BY <1>11, <1>12, <1>13, <1>14, <2>1
  <2>3. Into(y, y + 1, p, Height, w) <= y /\ y + 1 <= Into(y, y + 1, p, Height, w) + Height
    BY ONLY <2>2, IntoIs
  <2> QED
    BY <1>7, <2>1, <2>3
<1>17. InSight(n)
  BY <1>5, <1>8, <1>15, <1>16 DEF InSight, Same
<1> QED
  BY <1>2, <1>7, <1>8, <1>17
-----------------------------------------------------------------------------
(***************************************************************************)
(* The operations on one box.                                              *)
(***************************************************************************)
\* The caret, or the whole selection, goes somewhere in the text.
LEMMA MovedIs ==
  ASSUME NEW b, Inside(b), NEW p \in 0..Len(b.text), NEW q \in 0..Len(b.text)
  PROVE  /\ Follows(b, [b EXCEPT !.sel = p, !.end = q])
         /\ Follows(b, [b EXCEPT !.end = q])
         /\ Follows(b, [b EXCEPT !.drag = p])
<1>1. Len(b.text) \in Nat
  BY InsideIs
<1>2. p \in Nat /\ q \in Nat /\ p # Stale
  BY TextBoxAssumption
<1>3. Follows(b, [b EXCEPT !.sel = p, !.end = q])
  <2> DEFINE n == [b EXCEPT !.sel = p, !.end = q]
  <2>1. /\ n \in Record /\ n.text = b.text /\ n.sel = p /\ n.end = q /\ n.drag = b.drag
        /\ n.pos = b.pos /\ n.max = b.max
    BY <1>2 DEF Inside, Record
  <2> HIDE DEF n
  <2>2. Follows(b, n)
    BY <1>1, <2>1 DEF Follows, Inside, Scrolled
  <2> QED
    BY <2>2 DEF n
<1>4. Follows(b, [b EXCEPT !.end = q])
  BY <1>1, <1>2 DEF Follows, Inside, Record, Scrolled
<1>5. Follows(b, [b EXCEPT !.drag = p])
  BY <1>1, <1>2 DEF Follows, Inside, Record, Scrolled
<1> QED
  BY <1>3, <1>4, <1>5

\* Another text, with its positions.
LEMMA RewrittenIs ==
  ASSUME NEW b, Inside(b), NEW t \in Text, NEW p \in 0..Len(t), NEW q \in 0..Len(t), NEW d \in 0..Len(t),
         NEW n, n = [b EXCEPT !.text = t, !.sel = p, !.end = q, !.drag = d]
  PROVE  Follows(b, n)
<1>1. Len(t) \in Nat
  BY BreaksIn
<1>2. p \in Nat /\ q \in Nat /\ d \in Nat /\ d # Stale
  BY TextBoxAssumption
<1>3. /\ n \in Record /\ n.text = t /\ n.sel = p /\ n.end = q /\ n.drag = d
      /\ n.pos = b.pos /\ n.max = b.max
  BY <1>2 DEF Inside, Record
<1> QED
  BY ONLY <1>1, <1>2, <1>3, p \in 0..Len(t), q \in 0..Len(t), d \in 0..Len(t) DEF Follows, Inside, Scrolled

LEMMA InserTextIs ==
  ASSUME NEW b, Inside(b), b.sel <= b.end, NEW u \in Text
  PROVE  LET n == TextBoxInserText(b, u)
         IN /\ Follows(b, n)
            /\ n.text = Before(b.text, b.sel) \o u \o From(b.text, b.end)
            /\ n.sel = b.sel + Len(u) /\ n.end = b.sel + Len(u)
<1>1. b.text \in Text /\ b.sel \in 0..Len(b.text) /\ b.end \in 0..Len(b.text) /\ Len(b.text) \in Nat
  BY InsideIs
<1>2. PICK v : v = Before(b.text, b.sel)
  OBVIOUS
<1>3. PICK w : w = From(b.text, b.end)
  OBVIOUS
<1>4. v \in Text /\ Len(v) = b.sel /\ w \in Text
  BY <1>1, <1>2, <1>3, BeforeIs, FromIs
<1>5. v \o u \in Text /\ Len(v \o u) = Len(v) + Len(u)
  BY ONLY <1>4, u \in Text, Apart
<1>6. PICK t : t = (v \o u) \o w
  OBVIOUS
<1>7. t \in Text /\ Len(v \o u) \in 0..Len(t)
  BY ONLY <1>4, <1>5, <1>6, Apart
<1>8. PICK p : p = b.sel + Len(u)
  OBVIOUS
<1>9. p \in 0..Len(t) /\ 0 \in 0..Len(t)
  BY <1>4, <1>5, <1>7, <1>8, BreaksIn
<1>10. TextBoxInserText(b, u) = [b EXCEPT !.text = t, !.sel = p, !.end = p, !.drag = 0]
  BY <1>2, <1>3, <1>6, <1>8 DEF TextBoxInserText
<1>11. Follows(b, TextBoxInserText(b, u))
  BY ONLY <1>7, <1>9, <1>10, Inside(b), RewrittenIs
<1> QED
  BY <1>2, <1>3, <1>6, <1>8, <1>10, <1>11 DEF Inside, Record

\* A part of a text is taken out.
LEMMA CutOut ==
  ASSUME NEW t \in Text, NEW p \in 0..Len(t), NEW q \in p..Len(t)
  PROVE  /\ Before(t, p) \o From(t, q) \in Text
         /\ Len(Before(t, p) \o From(t, q)) = Len(t) - (q - p)
         /\ p \in 0..Len(Before(t, p) \o From(t, q))
<1>1. Len(t) \in Nat
  BY BreaksIn
<1>2. PICK v : v = Before(t, p)
  OBVIOUS
<1>3. PICK w : w = From(t, q)
  OBVIOUS
<1>4. q \in 0..Len(t)
  BY <1>1
<1>5. v \in Text /\ Len(v) = p /\ w \in Text /\ Len(w) = Len(t) - q
  BY <1>2, <1>3, <1>4, BeforeIs, FromIs
<1>6. v \o w \in Text /\ Len(v \o w) = Len(v) + Len(w) /\ Len(v) \in 0..Len(v \o w)
  BY ONLY <1>5, Apart
<1> QED
  BY <1>1, <1>2, <1>3, <1>4, <1>5, <1>6

\* Where DragPos goes when the selection is taken out.
DragAfter(b) == IF b.drag = Stale \/ b.drag < b.sel THEN b.drag
                ELSE IF b.drag <= b.end THEN b.sel ELSE b.drag - (b.end - b.sel)

LEMMA DeleteSelectionIs ==
  ASSUME NEW b, Inside(b), b.sel <= b.end
  PROVE  LET n == TextBoxDeleteSelection(b)
         IN /\ Follows(b, n)
            /\ n.text = Before(b.text, b.sel) \o From(b.text, b.end)
            /\ n.sel = b.sel /\ n.end = b.sel /\ n.drag = DragAfter(b)
<1>1. b.text \in Text /\ b.sel \in 0..Len(b.text) /\ b.end \in 0..Len(b.text) /\ Len(b.text) \in Nat
  BY InsideIs
<1>2. PICK t : t = Before(b.text, b.sel) \o From(b.text, b.end)
  OBVIOUS
<1>3. t \in Text /\ Len(t) = Len(b.text) - (b.end - b.sel) /\ b.sel \in 0..Len(t)
  <2>1. b.end \in b.sel..Len(b.text)
    BY <1>1
  <2> QED
    BY <1>1, <1>2, <2>1, CutOut
<1>4. PICK n : n = TextBoxDeleteSelection(b)
  OBVIOUS
<1>5. n = [b EXCEPT !.text = t, !.end = b.sel, !.drag = DragAfter(b)]
  BY <1>2, <1>4 DEF TextBoxDeleteSelection, DragAfter, Inside, Record
<1>6. b.drag # Stale => DragAfter(b) \in 0..Len(t) /\ DragAfter(b) # Stale
  <2> SUFFICES ASSUME b.drag # Stale PROVE DragAfter(b) \in 0..Len(t) /\ DragAfter(b) # Stale
    OBVIOUS
  <2>1. b.drag \in 0..Len(b.text)
    BY InsideIs
  <2>2. DragAfter(b) \in 0..Len(t)
    BY <1>1, <1>3, <2>1 DEF DragAfter
  <2> QED
    BY <1>3, <2>2, TextBoxAssumption
<1>7. b.drag = Stale => DragAfter(b) = Stale
  BY DEF DragAfter
<1>8. Len(t) \in Nat
  BY <1>3, BreaksIn
<1>9. /\ n \in Record /\ n.text = t /\ n.sel = b.sel /\ n.end = b.sel /\ n.drag = DragAfter(b)
      /\ n.pos = b.pos /\ n.max = b.max
  <2>1. DragAfter(b) \in Nat \cup {Stale}
    BY <1>6, <1>7, <1>8
  <2> QED
    BY <1>3, <1>5, <2>1 DEF Inside, Record
<1>10. Follows(b, n)
  BY <1>3, <1>6, <1>7, <1>8, <1>9 DEF Follows, Inside, Scrolled
<1> QED
  BY <1>2, <1>4, <1>9, <1>10

LEMMA DeleteMoveIs ==
  ASSUME NEW b, Inside(b), NEW p \in {-1, 0}, NEW e \in {0, 1},
         b.sel + p \in 0..Len(b.text), b.end + e \in 0..Len(b.text), b.sel <= b.end
  PROVE  Follows(b, TextBoxDeleteMove(b, p, e))
<1>1. b.text \in Text /\ b.sel \in 0..Len(b.text) /\ b.end \in 0..Len(b.text) /\ Len(b.text) \in Nat
  BY InsideIs
<1>2. b.end + e \in (b.sel + p)..Len(b.text)
  BY <1>1
<1>3. PICK t : t = Before(b.text, b.sel + p) \o From(b.text, b.end + e)
  OBVIOUS
<1>4. t \in Text /\ b.sel + p \in 0..Len(t)
  BY <1>1, <1>2, <1>3, CutOut
<1>5. 0 \in 0..Len(t)
  BY <1>4, BreaksIn
<1>6. PICK k : k = b.sel + p
  OBVIOUS
<1>7. PICK n : n = TextBoxDeleteMove(b, p, e)
  OBVIOUS
<1>8. n = [b EXCEPT !.text = t, !.sel = k, !.end = k, !.drag = 0]
  BY <1>3, <1>6, <1>7 DEF TextBoxDeleteMove
<1>9. Follows(b, n)
  BY <1>4, <1>5, <1>6, <1>8, RewrittenIs
<1> QED
  BY <1>7, <1>9

\* Only a letter that is typed may lose DragPos.
LEMMA WriteCharIs ==
  ASSUME NEW b, Inside(b), b.sel <= b.end, NEW c \in Letters \cup {NL}, NEW moved \in BOOLEAN
  PROVE  Inside(TextBoxWriteChar(b, c, moved))
<1>1. <<c>> \in Text /\ Len(<<c>>) = 1
  BY DEF Text
<1>2. PICK n : n = TextBoxInserText(b, <<c>>)
  OBVIOUS
<1>3. Inside(n)
  BY <1>1, <1>2, InserTextIs DEF Follows
<1>4. PICK d : d = IF moved THEN Stale ELSE 0
  OBVIOUS
<1>5. TextBoxWriteChar(b, c, moved) = [n EXCEPT !.drag = d]
  BY <1>1, <1>2, <1>4 DEF TextBoxWriteChar, TextBoxInserText, Inside, Record
<1>6. n.text \in Text /\ Len(n.text) \in Nat
  BY <1>3, InsideIs
<1> QED
  BY <1>3, <1>4, <1>5, <1>6 DEF Inside, Record

LEMMA ForwardIs ==
  ASSUME NEW b, Inside(b)
  PROVE  Follows(b, Forward(b)) /\ Forward(b).sel <= Forward(b).end
<1>1. b.sel \in 0..Len(b.text) /\ b.end \in 0..Len(b.text) /\ Len(b.text) \in Nat
  BY InsideIs
<1>2. CASE b.sel > b.end
  <2>1. Forward(b) = [b EXCEPT !.sel = b.end, !.end = b.sel]
    BY <1>2 DEF Forward
  <2>2. Follows(b, [b EXCEPT !.sel = b.end, !.end = b.sel])
    BY <1>1, MovedIs
  <2>3. Follows(b, Forward(b))
    BY <2>1, <2>2
  <2> QED
    BY <1>1, <1>2, <2>1, <2>3 DEF Inside, Record
<1>3. CASE ~(b.sel > b.end)
  BY <1>1, <1>3 DEF Forward, Follows
<1> QED
  BY <1>2, <1>3

LEMMA SetTextIs ==
  ASSUME NEW b, Inside(b), NEW t \in Text
  PROVE  Inside(TextBoxSetTextEx(b, t)) /\ Scrolled(TextBoxSetTextEx(b, t))
<1>1. PICK n : n = [b EXCEPT !.text = t, !.sel = 0, !.end = 0, !.drag = 0]
  OBVIOUS
<1>2. 0 \in 0..Len(t)
  BY BreaksIn
<1>3. Inside(n)
  BY <1>1, <1>2, RewrittenIs DEF Follows
<1> QED
  BY <1>1, <1>3, CalculateMaxIs DEF TextBoxSetTextEx
-----------------------------------------------------------------------------
(***************************************************************************)
(* The invariant.  It says of DragPos what DropsKnowWhere does: where a    *)
(* text that is dropped goes depends on it.                                *)
(***************************************************************************)
Boxes == box \in [Box -> Record] /\ \A o \in Box : Inside(box[o]) /\ Scrolled(box[o])

Others ==
  /\ predrag \subseteq Box /\ over \in Box \cup {NULL} /\ focus \in Box /\ master \in Box \cup {NULL}
  /\ clip = NULL \/ clip \in Text
  /\ drag = NULL \/ drag \in [caller : Box, data : Text]

Inv == Boxes /\ Others /\ DropsKnowWhere

\* The boundaries at which a position can leave the text.
Bounded == {"reversed", "ragged", "unmoved"} \cap Odd = {}

LEMMA InvIsInText == Inv => InText
<1> SUFFICES ASSUME Inv PROVE InText
  OBVIOUS
<1>1. ASSUME NEW o \in Box
      PROVE  /\ {box[o].sel, box[o].end} \subseteq 0..Len(box[o].text)
             /\ box[o].drag \in 0..Len(box[o].text) \cup {Stale}
             /\ box[o].pos.x \in 0..box[o].max.x /\ box[o].pos.y \in 0..box[o].max.y
  <2>1. Inside(box[o]) /\ Scrolled(box[o])
    BY DEF Inv, Boxes
  <2> QED
    BY <2>1, InsideIs DEF Scrolled
<1>2. TypeOK
  BY DEF Inv, Boxes, Others, TypeOK, Record, Point, Text
<1> QED
  BY <1>1, <1>2 DEF InText, PositionsInText, ScrolledInText

\* A box becomes another; it may lose DragPos if it is no more the one the mouse was over.
LEMMA BecomesInv ==
  ASSUME Inv, NEW o \in Box, NEW n, Becomes(o, n), Inside(n), Scrolled(n),
         \/ /\ UNCHANGED over
            /\ box[o].drag # Stale => n.drag # Stale
         \/ over' = IF over = o THEN NULL ELSE over
         \/ over' = o /\ n.drag # Stale,
         Others'
  PROVE  Inv'
<1>1. box' = [box EXCEPT ![o] = n]
  BY DEF Becomes
<1>2. box \in [Box -> Record] /\ n \in Record
  BY DEF Inv, Boxes, Inside
<1>3. \A k \in Box : box'[k] = IF k = o THEN n ELSE box[k]
  BY <1>1, <1>2
<1>4. box' \in [Box -> Record] /\ \A k \in Box : Inside(box'[k]) /\ Scrolled(box'[k])
  <2>1. box' \in [Box -> Record]
    BY <1>1, <1>2
  <2>2. ASSUME NEW k \in Box PROVE Inside(box'[k]) /\ Scrolled(box'[k])
    <3>1. CASE k = o
      BY <1>3, <3>1
    <3>2. CASE k # o
      <4>1. box'[k] = box[k]
        BY <1>3, <3>2
      <4>2. Inside(box[k]) /\ Scrolled(box[k])
        BY DEF Inv, Boxes
      <4> QED
        BY <4>1, <4>2
    <3> QED
      BY <3>1, <3>2
  <2> QED
    BY <2>1, <2>2
<1>5. over' # NULL => box'[over'].drag # Stale
  BY <1>3, TextBoxAssumption DEF Inv, DropsKnowWhere, Others
<1> QED
  BY <1>4, <1>5 DEF Inv, Boxes, DropsKnowWhere

LEMMA InitInv ==
  ASSUME Init
  PROVE  Inv
<1>1. PICK b : b = [text |-> << >>, sel |-> 0, end |-> 0, drag |-> 0,
                    pos |-> [x |-> 0, y |-> 0], max |-> [x |-> 0, y |-> 0]]
  OBVIOUS
<1>2. box = [o \in Box |-> b]
  BY <1>1 DEF Init
<1>3. << >> \in Text /\ Len(<< >>) = 0
  BY DEF Text
<1>4. [x |-> 0, y |-> 0] \in Point
  BY DEF Point
<1>5. b \in Record
  BY <1>1, <1>3, <1>4 DEF Record
<1>6. Inside(b) /\ Scrolled(b)
  BY <1>1, <1>3, <1>5 DEF Inside, Scrolled
<1>7. Boxes
  BY <1>2, <1>5, <1>6 DEF Boxes
<1> QED
  BY <1>7 DEF Init, Inv, Others, DropsKnowWhere

LEMMA SetTextInv ==
  ASSUME Inv, NEW o \in Box, NEW t \in Texts, SetText(o, t)
  PROVE  Inv'
<1>1. PICK n : n = TextBoxSetTextEx(box[o], t)
  OBVIOUS
<1>2. t \in Text
  BY TextBoxAssumption DEF Text
<1>3. Inside(n) /\ Scrolled(n)
  BY <1>1, <1>2, SetTextIs DEF Inv, Boxes
<1>4. Becomes(o, n) /\ over' = IF over = o THEN NULL ELSE over
  BY <1>1 DEF SetText
<1>5. Others'
  BY DEF SetText, Inv, Others
<1> QED
  BY <1>3, <1>4, <1>5, BecomesInv

LEMMA MouseDownInv ==
  ASSUME Inv, NEW o \in Box, NEW p, MouseDown(o, p)
  PROVE  Inv'
<1>1. Inside(box[o]) /\ Scrolled(box[o]) /\ p \in 0..Len(box[o].text)
  BY DEF Inv, Boxes, MouseDown
<1>2. Others' /\ UNCHANGED over
  BY DEF MouseDown, Inv, Others
<1>3. CASE UNCHANGED box
  BY <1>2, <1>3 DEF Inv, Boxes, DropsKnowWhere
<1>4. CASE Becomes(o, [box[o] EXCEPT !.sel = p, !.end = p])
  <2>1. PICK n : n = [box[o] EXCEPT !.sel = p, !.end = p]
    OBVIOUS
  <2>2. Follows(box[o], n)
    BY <1>1, <2>1, MovedIs
  <2> QED
    BY <1>1, <1>2, <1>4, <2>1, <2>2, BecomesInv DEF Follows
<1> QED
  BY <1>3, <1>4 DEF MouseDown

\* The selection that is copied.
LEMMA GetSelectionIs ==
  ASSUME NEW b, Inside(b), b.sel <= b.end
  PROVE  /\ TextBoxGetSelection(b) = SubSeq(b.text, b.sel + 1, b.end)
         /\ TextBoxGetSelection(b) \in Text /\ Len(TextBoxGetSelection(b)) = b.end - b.sel
<1>1. b.text \in Text /\ b.sel \in 0..Len(b.text) /\ b.end \in 0..Len(b.text) /\ Len(b.text) \in Nat
  BY InsideIs
<1>2. b.end \in b.sel..Len(b.text)
  BY <1>1
<1> QED
  BY <1>1, <1>2, BetweenIs DEF TextBoxGetSelection

LEMMA GivesIs ==
  ASSUME Bounded, NEW b, Inside(b), Gives(b)
  PROVE  b.sel <= b.end
BY InsideIs DEF Gives, Bounded

LEMMA MouseMoveInv ==
  ASSUME Bounded, Inv, NEW o \in Box, NEW p, MouseMove(o, p)
  PROVE  Inv'
<1>1. Inside(box[o]) /\ Scrolled(box[o]) /\ p \in 0..Len(box[o].text)
  BY DEF Inv, Boxes, MouseMove
<1>2. UNCHANGED <<clip, over, focus>>
  BY DEF MouseMove
<1>3. CASE o \in predrag /\ box[o].sel # box[o].end
  <2>1. /\ Gives(box[o]) /\ drag' = [caller |-> o, data |-> TextBoxGetSelection(box[o])]
        /\ predrag' = predrag \ {o} /\ master' = NULL
        /\ Becomes(o, CheckSelVisibility(box[o]))
    BY <1>3 DEF MouseMove
  <2>2. TextBoxGetSelection(box[o]) \in Text
    BY <1>1, <2>1, GivesIs, GetSelectionIs
  <2>3. Others'
    BY <1>2, <2>1, <2>2 DEF Inv, Others
  <2>4. PICK n : n = CheckSelVisibility(box[o])
    OBVIOUS
  <2>5. Inside(n) /\ Scrolled(n) /\ n.drag = box[o].drag
    BY <1>1, <2>4, CheckSelVisibilityIs DEF Same
  <2> QED
    BY <1>2, <2>1, <2>3, <2>4, <2>5, BecomesInv
<1>4. CASE ~(o \in predrag /\ box[o].sel # box[o].end)
  <2>1. PICK b : b = [box[o] EXCEPT !.end = p]
    OBVIOUS
  <2>2. Becomes(o, CheckSelVisibility(b)) /\ UNCHANGED <<drag, predrag, master>>
    BY <1>4, <2>1 DEF MouseMove
  <2>3. Follows(box[o], b)
    BY <1>1, <2>1, MovedIs
  <2>4. PICK n : n = CheckSelVisibility(b)
    OBVIOUS
  <2>5. Inside(n) /\ Scrolled(n) /\ n.drag = b.drag
    BY <1>1, <2>3, <2>4, CheckSelVisibilityIs DEF Same, Follows
  <2>6. Others'
    BY <1>2, <2>2 DEF Inv, Others
  <2> QED
    BY <1>2, <2>2, <2>3, <2>4, <2>5, <2>6, BecomesInv DEF Follows
<1> QED
  BY <1>3, <1>4

LEMMA MouseUpInv ==
  ASSUME Inv, NEW o \in Box, NEW p, MouseUp(o, p)
  PROVE  Inv'
<1>1. Inside(box[o]) /\ Scrolled(box[o]) /\ p \in 0..Len(box[o].text)
  BY DEF Inv, Boxes, MouseUp
<1>2. Others' /\ UNCHANGED over
  BY DEF MouseUp, Inv, Others
<1>3. PICK q : q = IF o \in predrag THEN p ELSE Min({box[o].sel, p})
  OBVIOUS
<1>4. PICK e : e = IF o \in predrag THEN p ELSE Max({box[o].sel, p})
  OBVIOUS
<1>5. q \in 0..Len(box[o].text) /\ e \in 0..Len(box[o].text)
  <2>1. box[o].sel \in 0..Len(box[o].text)
    BY <1>1, InsideIs
  <2>2. Min({box[o].sel, p}) \in {box[o].sel, p} /\ Max({box[o].sel, p}) \in {box[o].sel, p}
    <3>1. PICK i \in Int : i = box[o].sel
      BY <2>1
    <3>2. p \in Int
      BY <1>1
    <3>3. Min({i, p}) \in {i, p} /\ Max({i, p}) \in {i, p}
      BY <3>2, OfTwo
    <3> QED
      BY <3>1, <3>3
  <2> QED
    BY <1>1, <1>3, <1>4, <2>1, <2>2
<1>6. PICK n : n = [box[o] EXCEPT !.sel = q, !.end = e]
  OBVIOUS
<1>7. Follows(box[o], n)
  BY <1>1, <1>5, <1>6, MovedIs
<1>8. Becomes(o, n)
  <2>1. n = IF o \in predrag THEN [box[o] EXCEPT !.sel = p, !.end = p]
            ELSE [box[o] EXCEPT !.sel = Min({@, p}), !.end = Max({box[o].sel, p})]
    BY <1>1, <1>3, <1>4, <1>6 DEF Inside, Record
  <2> QED
    BY <2>1 DEF MouseUp
<1> QED
  BY <1>1, <1>2, <1>7, <1>8, BecomesInv DEF Follows

LEMMA DragOverInv ==
  ASSUME Inv, NEW o \in Box, NEW p, DragOver(o, p)
  PROVE  Inv'
<1>1. Inside(box[o]) /\ Scrolled(box[o]) /\ p \in 0..Len(box[o].text)
  BY DEF Inv, Boxes, DragOver
<1>2. PICK n : n = [box[o] EXCEPT !.drag = p]
  OBVIOUS
<1>3. Follows(box[o], n)
  BY <1>1, <1>2, MovedIs
<1>4. n.drag = p /\ p # Stale
  BY <1>1, <1>2, TextBoxAssumption, InsideIs DEF Inside, Record
<1>5. Becomes(o, n) /\ over' = o
  BY <1>2 DEF DragOver
<1>6. Others'
  BY DEF DragOver, Inv, Others
<1> QED
  BY <1>1, <1>3, <1>4, <1>5, <1>6, BecomesInv DEF Follows

LEMMA DragCancelInv ==
  ASSUME Inv, DragCancel
  PROVE  Inv'
BY DEF DragCancel, Inv, Boxes, Others, DropsKnowWhere

LEMMA ScrollInv ==
  ASSUME Inv, NEW o \in Box, NEW x \in 0..box[o].max.x, NEW y \in 0..box[o].max.y, Scroll(o, x, y)
  PROVE  Inv'
<1>1. Inside(box[o])
  BY DEF Inv, Boxes
<1>2. x \in Nat /\ x <= box[o].max.x /\ y \in Nat /\ y <= box[o].max.y
  BY <1>1, InsideIs
<1>3. PICK at : at = [x |-> x, y |-> y]
  OBVIOUS
<1>4. at \in Point /\ at.x = x /\ at.y = y
  BY <1>2, <1>3 DEF Point
<1>5. PICK n : n = [box[o] EXCEPT !.pos = at]
  OBVIOUS
<1>6. n \in Record /\ n.pos = at /\ n.max = box[o].max /\ Same(box[o], n)
  BY <1>1, <1>4, <1>5 DEF Inside, Record, Same
<1>7. Inside(n) /\ Scrolled(n) /\ n.drag = box[o].drag
  BY <1>1, <1>2, <1>4, <1>6 DEF Inside, Scrolled, Same
<1>8. Becomes(o, n) /\ UNCHANGED over
  BY <1>3, <1>5 DEF Scroll
<1>9. Others'
  BY DEF Scroll, Inv, Others
<1> QED
  BY <1>7, <1>8, <1>9, BecomesInv

\* A key that keeps DragPos; the mouse stays where it was.
LEMMA KeyInv ==
  ASSUME Inv, NEW o \in Box, NEW b, Follows(box[o], b), Key(o, b), UNCHANGED over
  PROVE  Inv' /\ InSight(box'[o]) /\ box'[o].end = b.end
<1>1. /\ Inside(Measured(b)) /\ Scrolled(Measured(b)) /\ Same(b, Measured(b))
      /\ InSight(Measured(b))
  BY MeasuredIs DEF Follows
<1>2. Becomes(o, Measured(b))
  BY DEF Key, Measured
<1>3. Others'
  BY DEF Key, Inv, Others
<1>4. box[o].drag # Stale => Measured(b).drag # Stale
  BY <1>1 DEF Follows, Same
<1>5. Inv'
  BY <1>1, <1>2, <1>3, <1>4, BecomesInv
<1>6. box'[o] = Measured(b)
  BY <1>2 DEF Becomes, Inv, Boxes
<1> QED
  BY <1>1, <1>5, <1>6 DEF Same

\* Left, Right, Up and Down: where the caret goes.
LEMMA MovesInv ==
  ASSUME Inv, NEW o \in Box, NEW p \in 0..Len(box[o].text), NEW shift \in BOOLEAN,
         Key(o, Moves(o, p, shift)), UNCHANGED over
  PROVE  Inv' /\ InSight(box'[o]) /\ box'[o].end = p
<1>1. Inside(box[o])
  BY DEF Inv, Boxes
<1>2. Follows(box[o], [box[o] EXCEPT !.sel = p, !.end = p]) /\ Follows(box[o], [box[o] EXCEPT !.end = p])
  BY <1>1, MovedIs
<1>3. Moves(o, p, shift) = IF shift THEN [box[o] EXCEPT !.end = p] ELSE [box[o] EXCEPT !.sel = p, !.end = p]
  BY <1>1 DEF Moves, Inside, Record
<1>4. Follows(box[o], Moves(o, p, shift))
  BY <1>2, <1>3
<1>5. Moves(o, p, shift).end = p
  BY <1>1, <1>3 DEF Inside, Record
<1> QED
  BY <1>4, <1>5, KeyInv

LEMMA KeyLeftRightInv ==
  ASSUME Inv, NEW o \in Box, NEW shift \in BOOLEAN, KeyLeft(o, shift) \/ KeyRight(o, shift)
  PROVE  Inv' /\ InSight(box'[o])
<1>1. PICK n : n = Len(box[o].text)
  OBVIOUS
<1>2. n \in Nat /\ box[o].sel \in 0..n /\ box[o].end \in 0..n
  BY <1>1, InsideIs DEF Inv, Boxes
<1>3. PICK from \in 0..n : from = IF shift THEN box[o].end ELSE box[o].sel
  BY <1>2
<1>4. CASE KeyLeft(o, shift)
  <2>1. PICK p : p = Max({from - 1, 0})
    OBVIOUS
  <2>2. p \in 0..n
    <3>1. p = IF from - 1 <= 0 THEN 0 ELSE from - 1
      <4>1. PICK k \in Int : k = from - 1
        BY <1>2
      <4>2. Max({k, 0}) = IF k <= 0 THEN 0 ELSE k
        BY OfTwo
      <4> QED
        BY <2>1, <4>1, <4>2
    <3> QED
      BY <1>2, <3>1
  <2>3. Key(o, Moves(o, p, shift)) /\ UNCHANGED over
    BY <1>3, <1>4, <2>1 DEF KeyLeft
  <2> QED
    BY <1>1, <2>2, <2>3, MovesInv
<1>5. CASE KeyRight(o, shift)
  <2>1. PICK p : p = Min({from + 1, n})
    OBVIOUS
  <2>2. p \in 0..n
    <3>1. p = IF from + 1 <= n THEN from + 1 ELSE n
      BY <1>2, <2>1, OfTwo
    <3> QED
      BY <1>2, <3>1
  <2>3. Key(o, Moves(o, p, shift)) /\ UNCHANGED over
    BY <1>1, <1>3, <1>5, <2>1 DEF KeyRight
  <2> QED
    BY <1>1, <2>2, <2>3, MovesInv
<1> QED
  BY <1>4, <1>5

LEMMA KeyUpInv ==
  ASSUME Inv, NEW o \in Box, NEW shift \in BOOLEAN, KeyUp(o, shift)
  PROVE  Inv' /\ InSight(box'[o])
<1>1. PICK t : t = box[o].text
  OBVIOUS
<1>2. PICK end : end = box[o].end
  OBVIOUS
<1>3. t \in Text /\ Len(t) \in Nat /\ end \in 0..Len(t)
  BY <1>1, <1>2, InsideIs DEF Inv, Boxes
<1>4. PICK line \in 0..end : line = ReachStartOfLine(t, end)
  BY <1>3, ReachStartOfLineIs
<1>5. line # 0
  BY <1>1, <1>2, <1>4 DEF KeyUp
<1>6. PICK q : q = Max({line - 2, 0})
  OBVIOUS
<1>7. q \in 0..line /\ q \in 0..Len(t)
  <2>1. q = IF line - 2 <= 0 THEN 0 ELSE line - 2
    <3>1. PICK k \in Int : k = line - 2
      BY <1>3
    <3>2. Max({k, 0}) = IF k <= 0 THEN 0 ELSE k
      BY OfTwo
    <3> QED
      BY <1>6, <3>1, <3>2
  <2> QED
    BY <1>3, <1>5, <2>1
<1>8. PICK above \in 0..q : above = ReachStartOfLine(t, q)
  BY <1>3, <1>7, ReachStartOfLineIs
<1>9. PICK p : p = above + (IF end - line <= line - above THEN end - line ELSE 0)
  OBVIOUS
<1>10. p \in 0..Len(t)
  BY <1>3, <1>7, <1>9
<1>11. Key(o, Moves(o, p, shift)) /\ UNCHANGED over
  BY <1>1, <1>2, <1>4, <1>6, <1>8, <1>9 DEF KeyUp
<1> QED
  BY <1>1, <1>10, <1>11, MovesInv

LEMMA KeyDownInv ==
  ASSUME Bounded, Inv, NEW o \in Box, NEW shift \in BOOLEAN, KeyDown(o, shift)
  PROVE  Inv' /\ InSight(box'[o])
<1>1. PICK t : t = box[o].text
  OBVIOUS
<1>2. PICK end : end = box[o].end
  OBVIOUS
<1>3. t \in Text /\ Len(t) \in Nat /\ end \in 0..Len(t)
  BY <1>1, <1>2, InsideIs DEF Inv, Boxes
<1>4. PICK break : break = NextBreak(t, end)
  OBVIOUS
<1>5. break \in Nat /\ end <= break /\ break < Len(t)
  <2>1. NextBreak(t, end) # NULL
    BY <1>1, <1>2 DEF KeyDown
  <2> QED
    BY <1>3, <1>4, <2>1, NextBreakIs
<1>6. PICK below : below = IF NextBreak(t, break + 1) = NULL THEN Len(t) ELSE NextBreak(t, break + 1)
  OBVIOUS
<1>7. below \in Nat /\ break < below /\ below <= Len(t)
  <2>1. CASE NextBreak(t, break + 1) = NULL
    BY <1>3, <1>5, <1>6, <2>1
  <2>2. CASE NextBreak(t, break + 1) # NULL
    <3>1. break + 1 \in Nat
      BY <1>5
    <3>2. PICK k : k = NextBreak(t, break + 1)
      OBVIOUS
    <3>3. k \in Nat /\ break + 1 <= k /\ k < Len(t)
      BY <1>3, <2>2, <3>1, <3>2, NextBreakIs
    <3> QED
      BY <1>3, <1>5, <1>6, <2>2, <3>2, <3>3
  <2> QED
    BY <2>1, <2>2
<1>8. PICK line \in 0..end : line = ReachStartOfLine(t, end)
  BY <1>3, ReachStartOfLineIs
<1>9. end - line # below - break
  BY <1>1, <1>2, <1>4, <1>6, <1>8 DEF KeyDown, Bounded
<1>10. PICK p : p = break + 1 + (IF end - line <= below - break THEN end - line ELSE 0)
  OBVIOUS
<1>11. p \in 0..Len(t)
  <2>1. PICK n, col : n = Len(t) /\ col = end - line
    OBVIOUS
  <2>2. n \in Nat /\ col \in Nat /\ break \in Nat /\ below \in (break + 1)..n
    BY <1>3, <1>5, <1>7, <1>8, <2>1
  <2>3. CASE col <= below - break
    <3>1. p = break + 1 + col /\ col < below - break
      BY <1>9, <1>10, <2>1, <2>2, <2>3
    <3> QED
      BY ONLY <2>1, <2>2, <3>1
  <2>4. CASE ~(col <= below - break)
    <3>1. p = break + 1
      BY <1>10, <2>1, <2>2, <2>4
    <3> QED
      BY ONLY <2>1, <2>2, <3>1
  <2> QED
    BY <2>3, <2>4
<1>12. Key(o, Moves(o, p, shift)) /\ UNCHANGED over
  BY <1>1, <1>2, <1>4, <1>6, <1>8, <1>10 DEF KeyDown
<1> QED
  BY <1>1, <1>11, <1>12, MovesInv

LEMMA KeyHomeInv ==
  ASSUME Inv, NEW o \in Box, KeyHome(o)
  PROVE  Inv' /\ InSight(box'[o])
<1>1. Inside(box[o])
  BY DEF Inv, Boxes
<1>2. 0 \in 0..Len(box[o].text)
  BY <1>1, InsideIs
<1>3. Follows(box[o], [box[o] EXCEPT !.sel = 0, !.end = 0])
  BY <1>1, <1>2, MovedIs
<1> QED
  BY <1>3, KeyInv DEF KeyHome

LEMMA KeyErasesInv ==
  ASSUME Inv, NEW o \in Box, NEW backwards \in BOOLEAN, KeyErases(o, backwards)
  PROVE  Inv' /\ InSight(box'[o])
<1>1. PICK b : b = Forward(box[o])
  OBVIOUS
<1>2. Follows(box[o], b) /\ Inside(b) /\ b.sel <= b.end
  BY <1>1, ForwardIs DEF Inv, Boxes, Follows
<1>3. b.sel \in 0..Len(b.text) /\ b.end \in 0..Len(b.text) /\ Len(b.text) \in Nat
  BY <1>2, InsideIs
<1>4. PICK n : n = IF b.sel # b.end THEN TextBoxDeleteSelection(b)
                   ELSE IF backwards THEN (IF b.sel = 0 THEN b ELSE TextBoxDeleteMove(b, -1, 0))
                   ELSE (IF b.end = Len(b.text) THEN b ELSE TextBoxDeleteMove(b, 0, 1))
  OBVIOUS
<1>5. Follows(b, n)
  <2>1. CASE b.sel # b.end
    BY <1>2, <1>4, <2>1, DeleteSelectionIs
  <2>2. CASE b.sel = b.end /\ backwards /\ b.sel # 0
    <3>1. -1 \in {-1, 0} /\ 0 \in {0, 1} /\ b.sel + (-1) \in 0..Len(b.text) /\ b.end + 0 \in 0..Len(b.text)
      BY <1>3, <2>2
    <3>2. Follows(b, TextBoxDeleteMove(b, -1, 0))
      BY <1>2, <3>1, DeleteMoveIs
    <3> QED
      BY <1>4, <2>2, <3>2
  <2>3. CASE b.sel = b.end /\ ~backwards /\ b.end # Len(b.text)
    <3>1. 0 \in {-1, 0} /\ 1 \in {0, 1} /\ b.sel + 0 \in 0..Len(b.text) /\ b.end + 1 \in 0..Len(b.text)
      BY <1>3, <2>3
    <3>2. Follows(b, TextBoxDeleteMove(b, 0, 1))
      BY <1>2, <3>1, DeleteMoveIs
    <3> QED
      BY <1>4, <2>3, <3>2
  <2>4. CASE n = b
    BY <1>2, <2>4 DEF Follows
  <2> QED
    BY <1>4, <2>1, <2>2, <2>3, <2>4
<1>6. Follows(box[o], n)
  BY <1>2, <1>5 DEF Follows
<1>7. Key(o, n) /\ UNCHANGED over
  BY <1>1, <1>4 DEF KeyErases
<1> QED
  BY <1>6, <1>7, KeyInv

LEMMA KeyWritesInv ==
  ASSUME Inv, NEW o \in Box, NEW ch \in Letters \cup {NL}, NEW moved \in BOOLEAN, KeyWrites(o, ch, moved)
  PROVE  Inv' /\ InSight(box'[o])
<1>1. PICK n : n = TextBoxWriteChar(Forward(box[o]), ch, moved)
  OBVIOUS
<1>2. Inside(n)
  <2>1. Inside(Forward(box[o])) /\ Forward(box[o]).sel <= Forward(box[o]).end
    BY ForwardIs DEF Inv, Boxes, Follows
  <2> QED
    BY <1>1, <2>1, WriteCharIs
<1>3. Inside(Measured(n)) /\ Scrolled(Measured(n)) /\ InSight(Measured(n))
  BY <1>2, MeasuredIs
<1>4. Becomes(o, Measured(n)) /\ over' = IF over = o THEN NULL ELSE over
  BY <1>1 DEF KeyWrites, Key, Measured
<1>5. Others'
  BY DEF KeyWrites, Key, Inv, Others
<1>6. box'[o] = Measured(n)
  BY <1>4 DEF Becomes, Inv, Boxes
<1> QED
  BY <1>3, <1>4, <1>5, <1>6, BecomesInv

LEMMA ClipboardInv ==
  ASSUME Bounded, Inv, NEW o \in Box, Copy(o) \/ Cut(o) \/ Paste(o) \/ Delete(o)
  PROVE  Inv'
<1>1. Inside(box[o]) /\ Scrolled(box[o])
  BY DEF Inv, Boxes
<1>2. box[o].sel <= box[o].end
  <2>1. Gives(box[o]) \/ (box[o].sel > box[o].end => "reversed" \in Odd)
    BY DEF Copy, Cut, Paste, Delete
  <2> QED
    BY <1>1, <2>1, GivesIs, InsideIs DEF Bounded
<1>3. TextBoxGetSelection(box[o]) \in Text
  BY <1>1, <1>2, GetSelectionIs
<1>4. CASE Copy(o)
  BY <1>3, <1>4 DEF Copy, Inv, Boxes, Others, DropsKnowWhere
<1>5. PICK d : d = TextBoxDeleteSelection(box[o])
  OBVIOUS
<1>6. Follows(box[o], d)
  BY <1>1, <1>2, <1>5, DeleteSelectionIs
<1>7. CASE Cut(o) \/ Delete(o)
  <2>1. Becomes(o, d) /\ UNCHANGED over
    BY <1>5, <1>7 DEF Cut, Delete
  <2>2. Others'
    BY <1>3, <1>7 DEF Cut, Delete, Inv, Others
  <2> QED
    BY <1>1, <1>6, <2>1, <2>2, BecomesInv DEF Follows
<1>8. CASE Paste(o)
  <2>1. PICK u : u = IF clip = NULL THEN << >> ELSE clip
    OBVIOUS
  <2>2. u \in Text
    BY <2>1 DEF Inv, Others, Text
  <2>3. PICK n : n = TextBoxInserText(box[o], u)
    OBVIOUS
  <2>4. Follows(box[o], n)
    BY <1>1, <1>2, <2>2, <2>3, InserTextIs
  <2>5. Becomes(o, n) /\ over' = IF over = o THEN NULL ELSE over
    BY <1>8, <2>1, <2>3 DEF Paste
  <2>6. Others'
    BY <1>8 DEF Paste, Inv, Others
  <2> QED
    BY <1>1, <2>4, <2>5, <2>6, BecomesInv DEF Follows
<1> QED
  BY <1>4, <1>7, <1>8
-----------------------------------------------------------------------------
(***************************************************************************)
(* A drop: the selection of one box is taken out and put into another, or  *)
(* elsewhere into the same.                                                *)
(***************************************************************************)
\* The box the text is taken from, what it becomes, the box it is put into, and what that becomes.
Source == box[drag.caller]
Taken  == TextBoxDeleteSelection(Source)
Target(o) == IF o = drag.caller THEN Taken ELSE box[o]
Put(o) == TextBoxInserText([Target(o) EXCEPT !.sel = Target(o).drag, !.end = Target(o).drag], drag.data)

\* What a drop does, once it is known where it goes.
LEMMA DropIs ==
  ASSUME Bounded, Inv, NEW o \in Box, Drop(o)
  PROVE  /\ drag.caller \in Box /\ drag.data \in Text
         /\ Inside(Source) /\ Scrolled(Source) /\ Source.sel <= Source.end /\ Follows(Source, Taken)
         /\ Inside(Target(o)) /\ Scrolled(Target(o)) /\ box[o].drag # Stale /\ Target(o).drag \in 0..Len(Target(o).text)
         /\ Follows(Target(o), Put(o))
         /\ Put(o).text = Before(Target(o).text, Target(o).drag) \o drag.data \o From(Target(o).text, Target(o).drag)
         /\ \/ /\ UNCHANGED box
               /\ o = drag.caller /\ InSelection(box[o])
            \/ /\ box' = [box EXCEPT ![drag.caller] = Taken]
               /\ o = drag.caller /\ ~InSelection(box[o]) /\ InSelection(Taken)
            \/ /\ box' = [[box EXCEPT ![drag.caller] = Taken] EXCEPT ![o] = Put(o)]
               /\ o = drag.caller => ~InSelection(box[o]) /\ ~InSelection(Taken)
<1>1. drag # NULL /\ drag.caller \in Box /\ drag.data \in Text
  BY DEF Drop, Inv, Others
<1>2. Inside(Source) /\ Scrolled(Source) /\ Inside(box[o]) /\ Scrolled(box[o])
  BY <1>1 DEF Inv, Boxes, Source
<1>3. Source.sel <= Source.end
  <2>1. ~(Source.sel > Source.end)
    BY DEF Drop, Bounded, Source
  <2> QED
    BY <1>2, <2>1, InsideIs
<1>4. Follows(Source, Taken)
  BY <1>2, <1>3, DeleteSelectionIs DEF Taken
<1>5. over = o
  BY DEF Drop, Bounded
<1>6. box[o].drag # Stale
  BY <1>5, TextBoxAssumption DEF Inv, DropsKnowWhere
<1>7. Inside(Target(o)) /\ Scrolled(Target(o)) /\ Target(o).drag # Stale
  <2>1. CASE o = drag.caller
    <3>1. Target(o) = Taken /\ Source = box[o]
      BY <2>1 DEF Target, Source
    <3>2. Inside(Taken) /\ Scrolled(Taken) /\ (Source.drag # Stale => Taken.drag # Stale)
      BY <1>2, <1>4 DEF Follows
    <3> QED
      BY <1>6, <3>1, <3>2
  <2>2. CASE o # drag.caller
    <3>1. Target(o) = box[o]
      BY <2>2 DEF Target
    <3> QED
      BY <1>2, <1>6, <3>1
  <2> QED
    BY <2>1, <2>2
<1>8. Target(o).drag \in 0..Len(Target(o).text)
  BY <1>7, InsideIs
<1>9. PICK e : e = [Target(o) EXCEPT !.sel = Target(o).drag, !.end = Target(o).drag]
  OBVIOUS
<1>10. Follows(Target(o), e)
  BY <1>7, <1>8, <1>9, MovedIs
<1>11. e.sel = Target(o).drag /\ e.end = Target(o).drag /\ e.text = Target(o).text /\ e.drag = Target(o).drag
  BY <1>7, <1>9 DEF Inside, Record
<1>12. e.sel <= e.end
  BY <1>7, <1>8, <1>11, InsideIs
<1>13. Follows(e, Put(o)) /\ Put(o).text = Before(Target(o).text, Target(o).drag) \o drag.data \o From(Target(o).text, Target(o).drag)
  <2>1. PICK u \in Text : u = drag.data
    BY <1>1
  <2>2. Inside(e)
    BY <1>10 DEF Follows
  <2>3. PICK n : n = TextBoxInserText(e, u)
    OBVIOUS
  <2>4. Follows(e, n) /\ n.text = Before(e.text, e.sel) \o u \o From(e.text, e.end)
    BY ONLY <2>2, <1>12, <2>3, u \in Text, InserTextIs
  <2>5. Put(o) = n
    BY <1>9, <2>1, <2>3 DEF Put
  <2> QED
    BY <1>11, <2>1, <2>4, <2>5
<1>14. Follows(Target(o), Put(o))
  BY <1>10, <1>13 DEF Follows
<1>15. \/ /\ UNCHANGED box
          /\ o = drag.caller /\ InSelection(box[o])
       \/ /\ box' = [box EXCEPT ![drag.caller] = Taken]
          /\ o = drag.caller /\ ~InSelection(box[o]) /\ InSelection(Taken)
       \/ /\ box' = [[box EXCEPT ![drag.caller] = Taken] EXCEPT ![o] = Put(o)]
          /\ o = drag.caller => ~InSelection(box[o]) /\ ~InSelection(Taken)
  <2>1. PICK deleted : deleted = [box EXCEPT ![drag.caller] = Taken]
    OBVIOUS
  <2>2. deleted = [box EXCEPT ![drag.caller] = TextBoxDeleteSelection(@)] /\ deleted[o] = Target(o)
    BY <1>1, <2>1 DEF Inv, Boxes, Taken, Source, Target
  <2>3. box' = IF o = drag.caller /\ InSelection(box[o]) THEN box
               ELSE IF o = drag.caller /\ InSelection(Target(o)) THEN deleted
               ELSE [deleted EXCEPT ![o] = Put(o)]
    BY <2>2 DEF Drop, Put
  <2> QED
    BY <2>1, <2>3 DEF Target
<1> QED
  BY <1>1, <1>2, <1>3, <1>4, <1>6, <1>7, <1>8, <1>13, <1>14, <1>15

LEMMA DropInv ==
  ASSUME Bounded, Inv, NEW o \in Box, Drop(o)
  PROVE  Inv'
<1>1. /\ drag.caller \in Box /\ Scrolled(Source) /\ Follows(Source, Taken) /\ Scrolled(Target(o)) /\ Follows(Target(o), Put(o))
      /\ box' \in {box, [box EXCEPT ![drag.caller] = Taken],
                   [[box EXCEPT ![drag.caller] = Taken] EXCEPT ![o] = Put(o)]}
  <2>1. /\ drag.caller \in Box /\ Scrolled(Source) /\ Follows(Source, Taken) /\ Scrolled(Target(o)) /\ Follows(Target(o), Put(o))
    BY DropIs
  <2>2. \/ box' = box
        \/ box' = [box EXCEPT ![drag.caller] = Taken]
        \/ box' = [[box EXCEPT ![drag.caller] = Taken] EXCEPT ![o] = Put(o)]
    BY DropIs
  <2> QED
    BY <2>1, <2>2
<1>2. /\ drag.caller \in Box /\ Inside(Taken) /\ Scrolled(Taken) /\ Inside(Put(o)) /\ Scrolled(Put(o))
      /\ box' \in {box, [box EXCEPT ![drag.caller] = Taken],
                   [[box EXCEPT ![drag.caller] = Taken] EXCEPT ![o] = Put(o)]}
  BY <1>1 DEF Follows
<1>3. box \in [Box -> Record] /\ Taken \in Record /\ Put(o) \in Record
  BY <1>2 DEF Inv, Boxes, Inside
<1>4. box' \in [Box -> Record] /\ \A k \in Box : box'[k] \in {box[k], Taken, Put(o)}
  BY <1>2, <1>3
<1>5. ASSUME NEW k \in Box PROVE Inside(box'[k]) /\ Scrolled(box'[k])
  <2>1. Inside(box[k]) /\ Scrolled(box[k])
    BY DEF Inv, Boxes
  <2> QED
    BY <1>2, <1>4, <2>1
<1>6. Others' /\ over' = NULL
  BY DEF Drop, Inv, Others
<1> QED
  BY <1>4, <1>5, <1>6 DEF Inv, Boxes, DropsKnowWhere

LEMMA NextInv ==
  ASSUME Bounded, Inv, [Next]_vars
  PROVE  Inv'
<1>1. ASSUME NEW o \in Box, NEW t \in Texts, SetText(o, t) PROVE Inv'
  BY <1>1, SetTextInv
<1>2. ASSUME NEW o \in Box, NEW p \in 0..MaxText, MouseDown(o, p) \/ MouseMove(o, p) \/ MouseUp(o, p) \/ DragOver(o, p)
      PROVE  Inv'
  BY <1>2, MouseDownInv, MouseMoveInv, MouseUpInv, DragOverInv
<1>3. ASSUME NEW o \in Box, Drop(o) \/ DragCancel PROVE Inv'
  BY <1>3, DropInv, DragCancelInv
<1>4. ASSUME NEW o \in Box, Keyboard(o) PROVE Inv'
  <2>1. CASE \E shift \in BOOLEAN : KeyLeft(o, shift) \/ KeyRight(o, shift) \/ KeyUp(o, shift) \/ KeyDown(o, shift)
    BY <2>1, KeyLeftRightInv, KeyUpInv, KeyDownInv
  <2>2. CASE KeyHome(o) \/ KeyErases(o, TRUE) \/ KeyErases(o, FALSE)
    BY <2>2, KeyHomeInv, KeyErasesInv
  <2>3. CASE \E c \in Letters \cup {NL}, moved \in BOOLEAN : KeyWrites(o, c, moved)
    BY <2>3, KeyWritesInv
  <2> QED
    BY <1>4, <2>1, <2>2, <2>3 DEF Keyboard
<1>5. ASSUME NEW o \in Box, Copy(o) \/ Cut(o) \/ Paste(o) \/ Delete(o) PROVE Inv'
  BY <1>5, ClipboardInv
<1>6. ASSUME NEW o \in Box, NEW x \in 0..box[o].max.x, NEW y \in 0..box[o].max.y, Scroll(o, x, y)
      PROVE  Inv'
  BY <1>6, ScrollInv
<1>7. CASE UNCHANGED vars
  BY <1>7 DEF vars, Inv, Boxes, Others, DropsKnowWhere
<1> QED
  BY <1>1, <1>2, <1>3, <1>4, <1>5, <1>6, <1>7 DEF Next
-----------------------------------------------------------------------------
LEMMA InvAlways ==
  ASSUME Bounded
  PROVE  Spec => []Inv
<1>1. Init => Inv
  BY InitInv
<1>2. Inv /\ [Next]_vars => Inv'
  BY NextInv
<1> QED
  BY <1>1, <1>2, PTL DEF Spec

\* The selection, the caret and DragPos stay in the text they point into, and no box is scrolled
\* beyond it, whatever keys, mouse, clipboard, drags and programs do, but for a selection that is
\* copied backwards, a caret that goes down to a ragged line and a drop without a move.
THEOREM StaysInText ==
  ASSUME Bounded
  PROVE  Spec => []InText
BY InvAlways, InvIsInText, PTL
-----------------------------------------------------------------------------
(***************************************************************************)
(* The clipboard.                                                          *)
(***************************************************************************)
LEMMA CutPaste ==
  ASSUME NEW b, Inside(b), b.sel <= b.end
  PROVE  LET back == TextBoxInserText(TextBoxDeleteSelection(b), TextBoxGetSelection(b))
         IN back.text = b.text /\ back.end = b.end
<1>1. b.text \in Text /\ b.sel \in 0..Len(b.text) /\ b.end \in 0..Len(b.text) /\ Len(b.text) \in Nat
  BY InsideIs
<1>2. PICK d : d = TextBoxDeleteSelection(b)
  OBVIOUS
<1>3. PICK t : t = b.text
  OBVIOUS
<1>4. PICK p \in 0..Len(t) : p = b.sel
  BY <1>1, <1>3
<1>5. PICK q \in p..Len(t) : q = b.end
  BY <1>1, <1>3, <1>4
<1>6. PICK v : v = Before(t, p)
  OBVIOUS
<1>7. PICK w : w = From(t, q)
  OBVIOUS
<1>8. t \in Text /\ v \in Text /\ Len(v) = p /\ w \in Text
  <2>1. q \in 0..Len(t)
    BY <1>1, <1>3
  <2> QED
    BY <1>1, <1>3, <1>6, <1>7, <2>1, BeforeIs, FromIs
<1>9. Follows(b, d) /\ d.text = v \o w /\ d.sel = p /\ d.end = p
  BY <1>2, <1>3, <1>4, <1>5, <1>6, <1>7, DeleteSelectionIs
<1>10. Inside(d) /\ d.sel <= d.end
  BY <1>1, <1>3, <1>9 DEF Follows
<1>11. PICK u : u = TextBoxGetSelection(b)
  OBVIOUS
<1>12. u = SubSeq(t, p + 1, q) /\ u \in Text /\ Len(u) = q - p
  BY <1>3, <1>4, <1>5, <1>11, GetSelectionIs
<1>13. PICK back : back = TextBoxInserText(d, u)
  OBVIOUS
<1>14. back.text = Before(v \o w, p) \o u \o From(v \o w, p) /\ back.end = p + Len(u)
  <2>1. back.text = Before(d.text, d.sel) \o u \o From(d.text, d.end) /\ back.end = d.sel + Len(u)
    BY ONLY <1>10, <1>12, <1>13, InserTextIs
  <2> QED
    BY <1>9, <2>1
<1>15. Before(v \o w, p) = v /\ From(v \o w, p) = w
  BY <1>8, Apart
<1>16. (v \o u) \o w = v \o (u \o w)
  <2>1. v \in Text /\ u \in Text /\ w \in Text
    BY <1>8, <1>12
  <2> QED
    BY ONLY <2>1, Together, Zenon
<1>17. u \o w = From(t, p) /\ v \o From(t, p) = t
  BY <1>6, <1>7, <1>8, <1>12, Adjacent
<1>18. back.text = t /\ back.end = q
  <2>1. back.text = (v \o u) \o w
    BY <1>14, <1>15
  <2>2. back.end = q
    BY <1>1, <1>3, <1>12, <1>14
  <2> QED
    BY <1>16, <1>17, <2>1, <2>2
<1> QED
  BY <1>2, <1>3, <1>5, <1>11, <1>13, <1>18

LEMMA InvCutPaste == Inv => CutIsUndoneByPaste
<1> SUFFICES ASSUME Inv, NEW o \in Box, box[o].sel <= box[o].end
             PROVE  LET back == TextBoxInserText(TextBoxDeleteSelection(box[o]), TextBoxGetSelection(box[o]))
                    IN back.text = box[o].text /\ back.end = box[o].end
  BY DEF CutIsUndoneByPaste
<1>1. Inside(box[o])
  BY DEF Inv, Boxes
<1> QED
  BY <1>1, CutPaste

\* What Copy puts on the clipboard.
CopyIs(b) == Copy(focus) => clip' = SubSeq(b.text, Min({b.sel, b.end}) + 1, Max({b.sel, b.end}))

LEMMA CopyIsSelection ==
  ASSUME Bounded, Inv
  PROVE  CopyIs(box[focus])
<1> SUFFICES ASSUME Copy(focus)
             PROVE  clip' = SubSeq(box[focus].text, Min({box[focus].sel, box[focus].end}) + 1,
                                   Max({box[focus].sel, box[focus].end}))
  BY DEF CopyIs
<1>1. Inside(box[focus]) /\ Gives(box[focus]) /\ clip' = TextBoxGetSelection(box[focus])
  BY DEF Inv, Boxes, Others, Copy
<1>2. PICK p \in Int : p = box[focus].sel
  BY <1>1, InsideIs
<1>3. PICK q \in Int : q = box[focus].end
  BY <1>1, InsideIs
<1>4. p <= q /\ clip' = SubSeq(box[focus].text, p + 1, q)
  BY <1>1, <1>2, <1>3, GivesIs, GetSelectionIs
<1>5. Min({p, q}) = p /\ Max({p, q}) = q
  BY <1>4, OfTwo
<1> QED
  BY <1>2, <1>3, <1>4, <1>5

\* What is copied is what is selected, and what is cut and pasted at once leaves the text as it
\* was (TextBoxGetSelection, TextBoxDeleteSelection, TextBoxInserText).
THEOREM ClipboardPassesText ==
  ASSUME Bounded
  PROVE  Spec => ClipboardIsText
<1>1. Inv /\ [Next]_vars => [CopyIs(box[focus])]_vars
  BY CopyIsSelection
<1>2. [][CopyIs(box[focus])]_vars <=> CopiesSelection
  <2>1. CopyIs(box[focus]) <=>
          LET b == box[focus]
          IN Copy(focus) => clip' = SubSeq(b.text, Min({b.sel, b.end}) + 1, Max({b.sel, b.end}))
    BY DEF CopyIs
  <2> QED
    BY <2>1, PTL DEF CopiesSelection
<1> QED
  BY <1>1, <1>2, InvAlways, InvCutPaste, PTL DEF Spec, ClipboardIsText
-----------------------------------------------------------------------------
(***************************************************************************)
(* Drags.                                                                  *)
(***************************************************************************)
\* What is left of t without the letters from p to q, and u put into r at d.
Rest(t, p, q) == Before(t, p) \o From(t, q)
With(r, d, u) == Before(r, d) \o u \o From(r, d)

\* A text put before the letters that were taken away.
LEMMA PutBefore ==
  ASSUME NEW t \in Text, NEW p \in 0..Len(t), NEW q \in p..Len(t), NEW d \in 0..p, NEW u \in Text
  PROVE  With(Rest(t, p, q), d, u) = Before(t, d) \o u \o SubSeq(t, d + 1, p) \o From(t, q)
<1>0. PICK r : r = Rest(t, p, q)
  OBVIOUS
<1>1. Len(t) \in Nat
  BY BreaksIn
<1>2. d \in 0..Len(t) /\ p \in d..Len(t) /\ q \in 0..Len(t)
  BY <1>1
<1>3. PICK x : x = Before(t, d)
  OBVIOUS
<1>4. PICK y : y = SubSeq(t, d + 1, p)
  OBVIOUS
<1>5. PICK w : w = From(t, q)
  OBVIOUS
<1>6. x \in Text /\ Len(x) = d /\ y \in Text /\ w \in Text
  BY <1>2, <1>3, <1>4, <1>5, BeforeIs, BetweenIs, FromIs
<1>7. x \o y = Before(t, p)
  <2>1. Before(t, d) \o SubSeq(t, d + 1, p) = Before(t, p)
    BY ONLY t \in Text, <1>2, Adjacent
  <2> QED
    BY <1>3, <1>4, <2>1
<1>8. r = x \o (y \o w)
  <2>1. x \in Text /\ y \in Text /\ w \in Text
    BY <1>6
  <2>2. (x \o y) \o w = x \o (y \o w)
    BY ONLY <2>1, Together, SMTT(60)
  <2> QED
    BY ONLY <1>0, <1>5, <1>7, <2>2 DEF Rest
<1>9. y \o w \in Text
  BY <1>6, Apart
<1>10. Before(r, d) = x /\ From(r, d) = y \o w
  <2>1. PICK z : z = y \o w
    OBVIOUS
  <2>2. z \in Text /\ r = x \o z
    BY ONLY <1>8, <1>9, <2>1
  <2>3. Before(x \o z, Len(x)) = x /\ From(x \o z, Len(x)) = z
    BY ONLY <1>6, <2>2, Apart
  <2> QED
    BY ONLY <1>6, <2>1, <2>2, <2>3
<1>11. x \o u \in Text
  BY <1>6, Apart
<1>12. ((x \o u) \o y) \o w = (x \o u) \o (y \o w)
  BY ONLY <1>6, <1>11, Together
<1> QED
  BY ONLY <1>0, <1>3, <1>4, <1>5, <1>10, <1>12 DEF With

\* And from a position behind them, which has moved with its letter.
LEMMA PutBehind ==
  ASSUME NEW t \in Text, NEW p \in 0..Len(t), NEW q \in p..Len(t), NEW d \in q..Len(t), NEW u \in Text
  PROVE  With(Rest(t, p, q), d - (q - p), u) = Before(t, p) \o SubSeq(t, q + 1, d) \o u \o From(t, d)
<1>0. PICK r : r = Rest(t, p, q)
  OBVIOUS
<1>00. PICK e : e = d - (q - p)
  OBVIOUS
<1>1. Len(t) \in Nat
  BY BreaksIn
<1>2. d \in 0..Len(t) /\ q \in 0..Len(t)
  BY <1>1
<1>3. PICK v : v = Before(t, p)
  OBVIOUS
<1>4. PICK y : y = SubSeq(t, q + 1, d)
  OBVIOUS
<1>5. PICK z : z = From(t, d)
  OBVIOUS
<1>6. v \in Text /\ Len(v) = p /\ y \in Text /\ Len(y) = d - q /\ z \in Text
  BY <1>2, <1>3, <1>4, <1>5, BeforeIs, BetweenIs, FromIs
<1>7. y \o z = From(t, q)
  <2>1. SubSeq(t, q + 1, d) \o From(t, d) = From(t, q)
    BY ONLY t \in Text, <1>2, d \in q..Len(t), Adjacent
  <2> QED
    BY <1>4, <1>5, <2>1
<1>8. r = (v \o y) \o z
  <2>1. v \in Text /\ y \in Text /\ z \in Text
    BY <1>6
  <2>2. (v \o y) \o z = v \o (y \o z)
    BY ONLY <2>1, Together, SMTT(60)
  <2> QED
    BY ONLY <1>0, <1>3, <1>7, <2>2 DEF Rest
<1>9. v \o y \in Text /\ Len(v \o y) = e
  <2>1. v \o y \in Text /\ Len(v \o y) = Len(v) + Len(y)
    BY ONLY <1>6, Apart
  <2> QED
    BY <1>00, <1>1, <1>6, <2>1
<1>10. Before(r, e) = v \o y /\ From(r, e) = z
  <2>1. PICK x : x = v \o y
    OBVIOUS
  <2>2. x \in Text /\ Len(x) = e /\ r = x \o z
    BY ONLY <1>8, <1>9, <2>1
  <2>3. Before(x \o z, Len(x)) = x /\ From(x \o z, Len(x)) = z
    BY ONLY <1>6, <2>2, Apart
  <2> QED
    BY ONLY <2>1, <2>2, <2>3
<1> QED
  BY ONLY <1>0, <1>00, <1>3, <1>4, <1>5, <1>10 DEF With

\* The state a drop leads to.
Dropped(o) ==
  LET c == drag.caller
      b == box[c]
      d == box[o].drag
  IN IF o # c
     THEN /\ box'[o].text = Before(box[o].text, d) \o drag.data \o From(box[o].text, d)
          /\ box'[c].text = Before(b.text, b.sel) \o From(b.text, b.end)
     ELSE box'[c].text =
            IF d < b.sel THEN Before(b.text, d) \o drag.data \o SubSeq(b.text, d + 1, b.sel) \o From(b.text, b.end)
            ELSE Before(b.text, b.sel) \o SubSeq(b.text, b.end + 1, d) \o drag.data \o From(b.text, d)

LEMMA DropMovesText ==
  ASSUME Bounded, Inv, NEW o \in Box, Drop(o), box' # box
  PROVE  Dropped(o)
<1>1. drag.caller \in Box /\ box \in [Box -> Record] /\ Inside(box[o])
  BY DropIs DEF Inv, Boxes
<1>2. PICK b : b = box[drag.caller]
  OBVIOUS
<1>3. PICK t : t = b.text
  OBVIOUS
<1>4. PICK d : d = box[o].drag
  OBVIOUS
<1>5. PICK u \in Text : u = drag.data
  BY DropIs
<1>6. Inside(b) /\ b.sel <= b.end /\ Source = b
  BY <1>2, DropIs DEF Source
<1>7. t \in Text /\ Len(t) \in Nat /\ b.sel \in 0..Len(t) /\ b.end \in b.sel..Len(t) /\ b.end \in 0..Len(t)
  BY <1>3, <1>6, InsideIs
<1>8. /\ Taken.text = Before(t, b.sel) \o From(t, b.end)
      /\ Taken.sel = b.sel /\ Taken.end = b.sel /\ Taken.drag = DragAfter(b)
  BY <1>3, <1>6, DeleteSelectionIs DEF Taken
<1>9. d \in 0..Len(box[o].text)
  BY <1>1, <1>4, DropIs, InsideIs
<1>10. Put(o).text = Before(Target(o).text, Target(o).drag) \o u \o From(Target(o).text, Target(o).drag)
  BY <1>5, DropIs
<1>11. CASE o # drag.caller
  <2>1. box' = [[box EXCEPT ![drag.caller] = Taken] EXCEPT ![o] = Put(o)]
    BY <1>11, DropIs
  <2>2. box'[o] = Put(o) /\ box'[drag.caller] = Taken
    BY <1>1, <1>11, <2>1
  <2>3. Target(o) = box[o]
    BY <1>11 DEF Target
  <2> QED
    BY <1>2, <1>3, <1>4, <1>5, <1>8, <1>10, <1>11, <2>2, <2>3 DEF Dropped
<1>12. CASE o = drag.caller
  <2>1. Target(o) = Taken /\ b = box[o] /\ d = b.drag /\ d \in 0..Len(t) /\ d # Stale
    BY <1>2, <1>3, <1>4, <1>9, <1>12, DropIs DEF Target
  <2>2. ~(b.sel <= d /\ d <= b.end)
    BY <1>4, <1>12, <2>1, DropIs DEF InSelection
  <2>3. DragAfter(b) = IF d < b.sel THEN d ELSE d - (b.end - b.sel)
    BY <1>7, <2>1, <2>2 DEF DragAfter
  <2>4. ~InSelection(Taken)
    BY <1>7, <1>8, <2>1, <2>2, <2>3 DEF InSelection
  <2>5. box' = [[box EXCEPT ![drag.caller] = Taken] EXCEPT ![o] = Put(o)]
    BY <2>4, DropIs
  <2>6. box'[o] = Put(o)
    BY <1>1, <2>5
  <2>7. PICK e : e = DragAfter(b)
    OBVIOUS
  <2>8. PICK p, q : p = b.sel /\ q = b.end
    OBVIOUS
  <2>9. box'[o].text = With(Rest(t, p, q), e, u)
    BY <1>8, <1>10, <2>1, <2>6, <2>7, <2>8 DEF With, Rest
  <2>90. t \in Text /\ p \in 0..Len(t) /\ q \in p..Len(t) /\ u \in Text
    BY <1>5, <1>7, <2>8
  <2>10. CASE d < b.sel
    <3>1. d \in 0..p /\ e = d
      BY <1>7, <2>1, <2>3, <2>7, <2>8, <2>10
    <3>2. With(Rest(t, p, q), d, u) = Before(t, d) \o u \o SubSeq(t, d + 1, p) \o From(t, q)
      BY ONLY <2>90, <3>1, PutBefore
    <3> QED
      BY <1>2, <1>3, <1>4, <1>5, <1>12, <2>8, <2>9, <2>10, <3>1, <3>2 DEF Dropped
  <2>11. CASE ~(d < b.sel)
    <3>1. d \in q..Len(t) /\ e = d - (q - p)
      BY <1>7, <2>1, <2>2, <2>3, <2>7, <2>8, <2>11
    <3>2. With(Rest(t, p, q), d - (q - p), u) = Before(t, p) \o SubSeq(t, q + 1, d) \o u \o From(t, d)
      BY ONLY <2>90, <3>1, PutBehind
    <3> QED
      BY <1>2, <1>3, <1>4, <1>5, <1>12, <2>8, <2>9, <2>11, <3>1, <3>2 DEF Dropped
  <2> QED
    BY <2>10, <2>11
<1> QED
  BY <1>11, <1>12

\* A drag moves its text to where the mouse shows it and loses no letter (TextBoxDropData,
\* TextBoxDragAfterDrop), and no drop goes to a place that was freed.
THEOREM DragsMoveText ==
  ASSUME Bounded
  PROVE  Spec => DragMoves
<1> DEFINE A == \A o \in Box : Drop(o) /\ box' # box => Dropped(o)
<1>1. Inv /\ [Next]_vars => [A]_vars
  BY DropMovesText
<1>2. [][A]_vars => DropMoves
  <2>1. [A]_vars => [\A o \in Box : Drop(o) /\ box' # box =>
      LET c == drag.caller
          b == box[c]
          d == box[o].drag
      IN IF o # c
         THEN /\ box'[o].text = Before(box[o].text, d) \o drag.data \o From(box[o].text, d)
              /\ box'[c].text = Before(b.text, b.sel) \o From(b.text, b.end)
         ELSE box'[c].text =
                IF d < b.sel THEN Before(b.text, d) \o drag.data \o SubSeq(b.text, d + 1, b.sel) \o From(b.text, b.end)
                ELSE Before(b.text, b.sel) \o SubSeq(b.text, b.end + 1, d) \o drag.data \o From(b.text, d)]_vars
    BY DEF Dropped
  <2> QED
    BY <2>1, PTL DEF DropMoves
<1>3. Inv => DropsKnowWhere
  BY DEF Inv
<1> QED
  BY <1>1, <1>2, <1>3, InvAlways, PTL DEF Spec, DragMoves
-----------------------------------------------------------------------------
(***************************************************************************)
(* Keys.                                                                   *)
(***************************************************************************)
LEMMA KeyboardInv ==
  ASSUME Bounded, Inv, NEW o \in Box, Keyboard(o)
  PROVE  InSight(box'[o])
<1>1. CASE \E shift \in BOOLEAN : KeyLeft(o, shift) \/ KeyRight(o, shift) \/ KeyUp(o, shift) \/ KeyDown(o, shift)
  BY <1>1, KeyLeftRightInv, KeyUpInv, KeyDownInv
<1>2. CASE KeyHome(o)
  BY <1>2, KeyHomeInv
<1>3. CASE KeyErases(o, TRUE) \/ KeyErases(o, FALSE)
  BY <1>3, KeyErasesInv
<1>4. CASE \E c \in Letters \cup {NL}, moved \in BOOLEAN : KeyWrites(o, c, moved)
  BY <1>4, KeyWritesInv
<1> QED
  BY <1>1, <1>2, <1>3, <1>4 DEF Keyboard

\* After a key the caret is in sight, wherever the text was scrolled to (CheckSelVisibility).
THEOREM KeysShowCaret ==
  ASSUME Bounded
  PROVE  Spec => CaretInSight
<1>1. Inv => focus \in Box
  BY DEF Inv, Others
<1>2. Inv /\ [Next]_vars => [InSight(box'[focus]) \/ ~Keyboard(focus)]_vars
  BY <1>1, KeyboardInv
<1> QED
  BY <1>2, InvAlways, PTL DEF Spec, CaretInSight

\* k is the last line break up to p, or the start of the text.
StartsAt(t, p, k) ==
  /\ k \in 0..p /\ (k = 0 \/ k \in Breaks(t))
  /\ \A i \in Breaks(t) : i <= p => i <= k

LEMMA ColumnFrom ==
  ASSUME NEW t \in Text, NEW p \in 0..Len(t), NEW k, StartsAt(t, p, k)
  PROVE  Column(t, p) = p - k
<1>1. PICK j \in 0..p : /\ Column(t, p) = p - j /\ (j = 0 \/ j \in Breaks(t))
                        /\ \A i \in Breaks(t) : i <= p => i <= j
  BY ColumnIs
<1>2. Len(t) \in Nat /\ Breaks(t) \subseteq 1..Len(t)
  BY BreaksIn
<1>3. k <= j /\ j <= k
  BY <1>1, <1>2 DEF StartsAt
<1> QED
  BY <1>1, <1>2, <1>3 DEF StartsAt

\* A text that does not begin with a line break: ReachStartOfLine need not look at its first letter.
LEMMA ReachesStart ==
  ASSUME NEW t \in Text, t[1] # NL, NEW p \in 0..Len(t)
  PROVE  \E k \in 0..p : ReachStartOfLine(t, p) = k /\ StartsAt(t, p, k)
<1>1. PICK k \in 0..p : /\ ReachStartOfLine(t, p) = k /\ (k = 0 \/ (k > 1 /\ k \in Breaks(t)))
                        /\ \A i \in Breaks(t) : 1 < i /\ i <= p => i <= k
  BY ReachStartOfLineIs
<1>2. Len(t) \in Nat /\ \A i \in Breaks(t) : i \in 1..Len(t) /\ i # 1
  BY BreaksIn DEF Breaks
<1>3. \A i \in Breaks(t) : 1 < i
  BY <1>2
<1> QED
  BY <1>1, <1>3 DEF StartsAt

\* One line break, at k, lies between p and r.
LEMMA LineBelow ==
  ASSUME NEW t \in Text, NEW p \in Nat, NEW r \in Nat, NEW k \in Breaks(t), p < k, k <= r,
         \A i \in Breaks(t) : p < i /\ i <= r => i = k
  PROVE  Line(t, r) = Line(t, p) + 1
<1> DEFINE D == {i \in Breaks(t) : i <= p}
           E == {i \in Breaks(t) : i <= r}
<1>1. Len(t) \in Nat /\ Breaks(t) \subseteq 1..Len(t)
  BY BreaksIn
<1>2. E = D \cup {k}
  BY <1>1
<1>3. k \notin D
  BY <1>1
<1>4. IsFiniteSet(D)
  <2>1. D \in SUBSET Breaks(t)
    OBVIOUS
  <2> QED
    BY <2>1, LineIs, FS_Subset
<1>5. Line(t, p) = Cardinality(D) /\ Line(t, r) = Cardinality(E)
  BY DEF Line
<1> HIDE DEF D, E
<1> QED
  BY <1>2, <1>3, <1>4, <1>5, FS_AddElement

LEMMA UpMoves ==
  ASSUME Odd = {}, Inv, NEW o \in Box, NEW shift \in BOOLEAN, KeyUp(o, shift), NEW t, t = box[o].text
  PROVE  /\ Line(t, box'[o].end) = Line(t, box[o].end) - 1
         /\ Column(t, box'[o].end) <= Column(t, box[o].end)
<1>1. PICK end : end = box[o].end
  OBVIOUS
<1>2. t \in Text /\ Len(t) \in Nat /\ end \in 0..Len(t) /\ Breaks(t) \subseteq 1..Len(t)
  BY <1>1, InsideIs, BreaksIn DEF Inv, Boxes
<1>3. PICK line : line = ReachStartOfLine(t, end)
  OBVIOUS
<1>4. line # 0 /\ t[1] # NL /\ ~(line > 1 /\ t[line - 1] = NL)
  BY <1>1, <1>3 DEF KeyUp
<1>5. line \in 0..end /\ StartsAt(t, end, line)
  BY <1>2, <1>3, <1>4, ReachesStart
<1>6. line \in Breaks(t) /\ line > 1
  BY <1>2, <1>4, <1>5 DEF StartsAt, Breaks
<1>7. PICK q : q = line - 2
  OBVIOUS
<1>8. q \in 0..Len(t) /\ Max({q, 0}) = q
  <2>1. q \in Int /\ 0 <= q /\ q <= Len(t)
    BY <1>2, <1>5, <1>6, <1>7
  <2>2. Max({q, 0}) = IF q <= 0 THEN 0 ELSE q
    <3>1. q \in Int /\ 0 \in Int
      BY <2>1
    <3> QED
      BY ONLY <3>1, OfTwo
  <2> QED
    BY <2>1, <2>2
<1>9. PICK above \in 0..q : above = ReachStartOfLine(t, q) /\ StartsAt(t, q, above)
  BY <1>2, <1>4, <1>8, ReachesStart
<1>10. PICK p : p = above + (IF end - line <= line - above THEN end - line ELSE 0)
  OBVIOUS
<1>11. end - line # line - above
  BY <1>1, <1>3, <1>7, <1>8, <1>9 DEF KeyUp
<1>12. above <= p /\ p < line /\ p \in 0..Len(t) /\ p - above <= end - line
  <2>1. PICK n, col : n = Len(t) /\ col = end - line
    OBVIOUS
  <2>2. n \in Nat /\ end \in 0..n /\ line \in 2..end /\ above \in 0..(line - 2) /\ col \in Nat
    BY <1>2, <1>5, <1>6, <1>7, <1>8, <1>9, <2>1
  <2>3. CASE col <= line - above
    <3>1. p = above + col /\ col < line - above
      BY <1>10, <1>11, <2>1, <2>2, <2>3
    <3> QED
      BY ONLY <2>1, <2>2, <3>1
  <2>4. CASE ~(col <= line - above)
    <3>1. p = above
      BY <1>10, <2>1, <2>2, <2>4
    <3> QED
      BY ONLY <2>1, <2>2, <3>1
  <2> QED
    BY <2>3, <2>4
<1>13. Key(o, Moves(o, p, shift)) /\ UNCHANGED over
  BY <1>1, <1>3, <1>7, <1>8, <1>9, <1>10 DEF KeyUp
<1>14. box'[o].end = p
  BY <1>12, <1>13, MovesInv
<1>15. \A i \in Breaks(t) : i < line => i <= above
  <2>1. line - 1 \notin Breaks(t)
    BY <1>4, <1>6 DEF Breaks
  <2> QED
    BY <1>2, <1>5, <1>7, <1>9, <2>1 DEF StartsAt
<1>16. Line(t, end) = Line(t, p) + 1
  <2>1. \A i \in Breaks(t) : p < i /\ i <= end => i = line
    BY <1>2, <1>5, <1>9, <1>12, <1>15 DEF StartsAt
  <2>2. p \in Nat /\ end \in Nat /\ line <= end
    BY <1>2, <1>5, <1>12
  <2> QED
    BY ONLY <1>2, <1>6, <1>12, <2>1, <2>2, LineBelow
<1>17. Column(t, end) = end - line
  BY <1>2, <1>5, ColumnFrom
<1>18. Column(t, p) = p - above
  <2>1. StartsAt(t, p, above)
    BY <1>2, <1>5, <1>9, <1>12, <1>15 DEF StartsAt
  <2> QED
    BY <1>2, <1>12, <2>1, ColumnFrom
<1>19. Line(t, p) \in Nat
  BY <1>2, LineIs
<1> QED
  BY <1>1, <1>12, <1>14, <1>16, <1>17, <1>18, <1>19

LEMMA DownMoves ==
  ASSUME Odd = {}, Inv, NEW o \in Box, NEW shift \in BOOLEAN, KeyDown(o, shift), NEW t, t = box[o].text
  PROVE  /\ Line(t, box'[o].end) = Line(t, box[o].end) + 1
         /\ Column(t, box'[o].end) <= Column(t, box[o].end)
<1>1. PICK end : end = box[o].end
  OBVIOUS
<1>2. t \in Text /\ Len(t) \in Nat /\ end \in 0..Len(t) /\ Breaks(t) \subseteq 1..Len(t)
  BY <1>1, InsideIs, BreaksIn DEF Inv, Boxes
<1>3. PICK break : break = NextBreak(t, end)
  OBVIOUS
<1>4. break # NULL /\ t[1] # NL
  BY <1>1, <1>3 DEF KeyDown
<1>5. /\ break \in Nat /\ end <= break /\ break < Len(t) /\ break + 1 \in Breaks(t)
      /\ \A i \in Breaks(t) : i > end => break + 1 <= i
  BY <1>2, <1>3, <1>4, NextBreakIs
<1>6. PICK below : below = IF NextBreak(t, break + 1) = NULL THEN Len(t) ELSE NextBreak(t, break + 1)
  OBVIOUS
<1>7. /\ below \in Nat /\ break < below /\ below <= Len(t)
      /\ \A i \in Breaks(t) : i > break + 1 => below < i
  <2>1. CASE NextBreak(t, break + 1) = NULL
    <3> DEFINE D == {i \in Breaks(t) : i > break + 1}
    <3>1. D = {}
      <4> SUFFICES ASSUME D # {} PROVE FALSE
        OBVIOUS
      <4>1. D \in SUBSET (0..Len(t))
        BY <1>2
      <4>2. Min(D) \in D
        <5> HIDE DEF D
        <5> QED
          BY <1>2, <4>1, MinIs
      <4>3. Min(D) \in Breaks(t)
        BY <4>2
      <4>4. Min(D) - 1 \in Nat
        BY <1>2, <4>3
      <4>5. NextBreak(t, break + 1) = Min(D) - 1
        BY DEF NextBreak
      <4> QED
        BY <2>1, <4>4, <4>5, TextBoxAssumption
    <3>2. \A i \in Breaks(t) : ~(i > break + 1)
      BY <3>1
    <3> QED
      BY <1>2, <1>5, <1>6, <2>1, <3>2
  <2>2. CASE NextBreak(t, break + 1) # NULL
    <3>1. break + 1 \in Nat
      BY <1>5
    <3>2. PICK m, k : m = break + 1 /\ k = NextBreak(t, m)
      OBVIOUS
    <3>3. k \in Nat /\ m <= k /\ k < Len(t) /\ \A i \in Breaks(t) : i > m => k + 1 <= i
      BY <1>2, <2>2, <3>1, <3>2, NextBreakIs
    <3> QED
      BY <1>2, <1>5, <1>6, <2>2, <3>2, <3>3
  <2> QED
    BY <2>1, <2>2
<1>8. PICK line \in 0..end : line = ReachStartOfLine(t, end) /\ StartsAt(t, end, line)
  BY <1>2, <1>4, ReachesStart
<1>9. end - line # below - break
  BY <1>1, <1>3, <1>6, <1>8 DEF KeyDown
<1>10. PICK p : p = break + 1 + (IF end - line <= below - break THEN end - line ELSE 0)
  OBVIOUS
<1>11. break < p /\ p <= below /\ p \in 0..Len(t) /\ p - (break + 1) <= end - line
  <2>1. PICK n, col : n = Len(t) /\ col = end - line
    OBVIOUS
  <2>2. n \in Nat /\ col \in Nat /\ break \in Nat /\ below \in (break + 1)..n
    BY <1>2, <1>5, <1>7, <1>8, <2>1
  <2>3. CASE col <= below - break
    <3>1. p = break + 1 + col /\ col < below - break
      BY <1>9, <1>10, <2>1, <2>2, <2>3
    <3> QED
      BY ONLY <2>1, <2>2, <3>1
  <2>4. CASE ~(col <= below - break)
    <3>1. p = break + 1
      BY <1>10, <2>1, <2>2, <2>4
    <3> QED
      BY ONLY <2>1, <2>2, <3>1
  <2> QED
    BY <2>3, <2>4
<1>12. Key(o, Moves(o, p, shift)) /\ UNCHANGED over
  BY <1>1, <1>3, <1>6, <1>8, <1>10 DEF KeyDown
<1>13. box'[o].end = p
  BY <1>11, <1>12, MovesInv
<1>14. PICK k : k = break + 1
  OBVIOUS
<1>15. k \in Breaks(t) /\ k \in Nat /\ end < k /\ k <= p
  BY <1>2, <1>5, <1>11, <1>14
<1>16. \A i \in Breaks(t) : i > k => i > p
  BY <1>2, <1>7, <1>11, <1>14
<1>17. Line(t, p) = Line(t, end) + 1
  <2>1. \A i \in Breaks(t) : end < i /\ i <= p => i = k
    BY <1>2, <1>5, <1>11, <1>14, <1>16
  <2>2. p \in Nat /\ end \in Nat
    BY <1>2, <1>11
  <2> QED
    BY ONLY <1>2, <1>15, <2>1, <2>2, LineBelow
<1>18. Column(t, p) = p - k
  <2>1. StartsAt(t, p, k)
    BY <1>2, <1>11, <1>15, <1>16 DEF StartsAt
  <2> QED
    BY <1>2, <1>11, <2>1, ColumnFrom
<1>19. Column(t, end) = end - line
  BY <1>2, <1>8, ColumnFrom
<1> QED
  BY <1>1, <1>11, <1>13, <1>14, <1>17, <1>18, <1>19

\* Up and Down move the caret by one line, and no further to the right (KEY_UP, KEY_DOWN).
THEOREM ArrowsMoveOneLine ==
  ASSUME Odd = {}
  PROVE  Spec => MovesOneLine
<1>1. Bounded
  BY DEF Bounded
<1> DEFINE A == \A shift \in BOOLEAN :
      LET was == box[focus].end
          is == box'[focus].end
          t == box[focus].text
      IN /\ KeyUp(focus, shift) => Line(t, is) = Line(t, was) - 1 /\ Column(t, is) <= Column(t, was)
         /\ KeyDown(focus, shift) => Line(t, is) = Line(t, was) + 1 /\ Column(t, is) <= Column(t, was)
<1>2. Inv => focus \in Box
  BY DEF Inv, Others
<1>3. Inv /\ [Next]_vars => [A]_vars
  <2> SUFFICES ASSUME Inv PROVE A
    OBVIOUS
  <2> QED
    BY <1>2, UpMoves, DownMoves
<1>4. [][A]_vars <=> MovesOneLine
  BY PTL DEF MovesOneLine
<1> QED
  BY <1>1, <1>3, <1>4, InvAlways, PTL DEF Spec
=============================================================================
