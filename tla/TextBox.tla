------------------------------ MODULE TextBox -------------------------------
(***************************************************************************)
(* The text boxes.  A box keeps pointers into its text: the selection goes *)
(* from SelPos to SelPosEnd, where the caret is, and DragPos is where      *)
(* something dragged over the box would be put.  Every change of the text  *)
(* reallocates it, and all three are set anew.  Positions are offsets here *)
(* and Stale is a pointer into the text before the reallocation.           *)
(*                                                                         *)
(* The keyboard, the mouse, the clipboard, the program and a drag from box *)
(* to box act in any order: a key may come with the button down or in the  *)
(* middle of a drag.  Letters are as wide as 1 and as high as 1, lines are *)
(* 2 apart.                                                                *)
(***************************************************************************)
EXTENDS Integers, FiniteSetsExt, SequencesExt

CONSTANTS
  Box, NULL, Stale,
  MultiLine,    \* the boxes with TBF_MULTILINE; all are TBF_EDITABLE
  Letters, NL,
  Texts,        \* what a program may set
  MaxText,      \* bound: the letters in all boxes together
  MaxCopy,      \* bound: the letters that are copied or dragged
  Width, Height, \* of the text area
  Odd           \* boundaries, among the names below

\* "reversed": the selection is copied when the caret is before its start.
\* "ragged": the caret goes up or down to a line that ends one letter before its column.
\* "leading": the caret goes up or down in a text that begins with a line break.
\* "empty": the caret goes up to an empty line; the code goes on to the line above it.
\* "unmoved": a drop on a box over which the mouse has not moved since the last letter.
ASSUME TextBoxAssumption ==
  /\ MultiLine \subseteq Box /\ NL \notin Letters /\ NULL \notin Box \cup Nat /\ Stale \notin Nat
  /\ Odd \subseteq {"reversed", "ragged", "leading", "empty", "unmoved"}
  /\ Texts \subseteq Seq(Letters \cup {NL})
  /\ Width \in Nat /\ Width > 0 /\ Height \in Nat /\ Height > 1

VARIABLES
  box,      \* text, sel, end, drag, and the scrolling: pos and max
  predrag,  \* TBF_PREDRAG
  clip,     \* Clipboard.Data
  drag,     \* DragCaller and DragData
  over,     \* the box that has set its DragPos by the mouse, since the last letter
  focus, master

vars == <<box, predrag, clip, drag, over, focus, master>>
-----------------------------------------------------------------------------
\* The text before and from a position.
Before(t, p) == SubSeq(t, 1, p)
From(t, p) == SubSeq(t, p + 1, Len(t))

Breaks(t) == {i \in DOMAIN t : t[i] = NL}
Line(t, p) == Cardinality({i \in Breaks(t) : i <= p})
Column(t, p) == p - Max({0} \cup {i \in Breaks(t) : i <= p})

\* LocatePointText.
Locate(t, p) == [x |-> Column(t, p), y |-> 2 * Line(t, p)]

\* TextChr: the position of the first line break from p on, or NULL.
NextBreak(t, p) ==
  LET found == {i \in Breaks(t) : i > p} IN IF found = {} THEN NULL ELSE Min(found) - 1

\* ReachStartOfLine does not look at the first letter.
ReachStartOfLine(t, p) == Max({0} \cup {i \in Breaks(t) : 1 < i /\ i <= p})

\* TextBoxGetSelection.  From a caret before the start it asks TextNDup for 2^32 letters
\* less a few, which malloc refuses; less one, malloc(0) is written to.
TextBoxGetSelection(b) ==
  IF b.sel <= b.end THEN SubSeq(b.text, b.sel + 1, b.end)
  ELSE IF b.sel = b.end + 1 THEN From(b.text, b.sel) ELSE NULL

\* TextBoxWriteChar: DragPos is the old Text, which realloc may have moved.
TextBoxWriteChar(b, c, moved) ==
  [b EXCEPT !.text = Before(@, b.sel) \o <<c>> \o From(@, b.end), !.sel = b.sel + 1, !.end = b.sel + 1,
            !.drag = IF moved THEN Stale ELSE 0]

TextBoxInserText(b, s) ==
  [b EXCEPT !.text = Before(@, b.sel) \o s \o From(@, b.end),
            !.sel = b.sel + Len(s), !.end = b.sel + Len(s), !.drag = 0]

\* Mutant of TextBoxDeleteSelection: DragPos goes to the start, as TextBoxDeleteMove has it.
DeleteResetsDrag(b) ==
  [b EXCEPT !.text = Before(@, b.sel) \o From(@, b.end), !.end = b.sel, !.drag = 0]

TextBoxDeleteSelection(b) ==
  [b EXCEPT !.text = Before(@, b.sel) \o From(@, b.end), !.end = b.sel,
            !.drag = IF @ = Stale \/ @ < b.sel THEN @ ELSE IF @ <= b.end THEN b.sel ELSE @ - (b.end - b.sel)]

\* TextBoxDeleteMove, for the letter before (-1, 0) or behind (0, 1) the caret.
TextBoxDeleteMove(b, p, e) ==
  [b EXCEPT !.text = Before(@, b.sel + p) \o From(@, b.end + e),
            !.sel = b.sel + p, !.end = b.sel + p, !.drag = 0]

\* What of the longest line and of all lines is beyond the area: the ranges of the scroll bars.
Longest(t) == Max({Column(t, p) : p \in 0..Len(t)})
Beyond(n, size) == IF n > size THEN n - size ELSE 0
MaxOf(t) == [x |-> Beyond(Longest(t), Width), y |-> Beyond(2 * (Cardinality(Breaks(t)) + 1), Height)]

\* Mutant of TextBoxCalculateMax: a box that was scrolled stays so.
CalculateMaxOnly(b) == [b EXCEPT !.max = MaxOf(b.text)]

\* TextBoxCalculateMax, with ScrollBarSetPosX and ScrollBarSetPosY.
TextBoxCalculateMax(b) ==
  LET max == MaxOf(b.text)
  IN [b EXCEPT !.max = max,
               !.pos = [x |-> Min({b.pos.x, max.x}), y |-> Min({b.pos.y, max.y})]]

\* From p, as far as it takes to see what begins at v and ends at w.
Into(v, w, p, size, max) ==
  IF v < p THEN v ELSE IF w - p >= size THEN Min({max, w - size}) ELSE p

\* Mutant of CheckSelVisibility: the line of the caret is taken for its top.
CheckSelTop(b) ==
  LET at == Locate(b.text, b.end)
  IN [b EXCEPT !.pos = [x |-> Into(at.x, at.x, b.pos.x, Width, b.max.x),
                        y |-> Into(at.y, at.y, b.pos.y, Height, b.max.y)]]

\* CheckSelVisibility: the caret, one letter high, is scrolled into the area.
CheckSelVisibility(b) ==
  LET at == Locate(b.text, b.end)
  IN IF b.max.x = 0 /\ b.max.y = 0 THEN b
     ELSE [b EXCEPT !.pos = [x |-> Into(at.x, at.x, b.pos.x, Width, b.max.x),
                             y |-> Into(at.y, at.y + 1, b.pos.y, Height, b.max.y)]]

\* TextBoxSetTextEx.
TextBoxSetTextEx(b, t) ==
  TextBoxCalculateMax([b EXCEPT !.text = t, !.sel = 0, !.end = 0, !.drag = 0])
-----------------------------------------------------------------------------
\* CreateTextbox.
Init ==
  /\ box = [o \in Box |-> [text |-> << >>, sel |-> 0, end |-> 0, drag |-> 0,
                           pos |-> [x |-> 0, y |-> 0], max |-> [x |-> 0, y |-> 0]]]
  /\ predrag = {} /\ clip = NULL /\ drag = NULL /\ over = NULL
  /\ focus \in Box /\ master = NULL

Becomes(o, b) ==
  /\ SumFunction([p \in Box |-> Len(IF p = o THEN b.text ELSE box[p].text)]) <= MaxText
  /\ box' = [box EXCEPT ![o] = b]

\* The selection may be copied.
Gives(b) ==
  /\ b.end - b.sel <= MaxCopy
  /\ b.sel > b.end => "reversed" \in Odd

\* A program sets the text.
SetText(o, t) ==
  /\ Becomes(o, TextBoxSetTextEx(box[o], t))
  /\ over' = IF over = o THEN NULL ELSE over
  /\ UNCHANGED <<predrag, clip, drag, focus, master>>

\* The mouse is pressed at p: in the selection, which may be dragged, or elsewhere.
MouseDown(o, p) ==
  /\ master = NULL /\ drag = NULL /\ p \in 0..Len(box[o].text)
  /\ IF box[o].sel < p /\ p <= box[o].end
     THEN predrag' = predrag \cup {o} /\ UNCHANGED box
     ELSE Becomes(o, [box[o] EXCEPT !.sel = p, !.end = p]) /\ UNCHANGED predrag
  /\ focus' = o /\ master' = o
  /\ UNCHANGED <<clip, drag, over>>

\* The movements and the release of a button pressed on o, or on what is no text box.
Reaches(o) == master = o \/ (master = NULL /\ drag = NULL)

\* It moves with the button down: the selection is dragged, or goes to p.
MouseMove(o, p) ==
  /\ Reaches(o) /\ p \in 0..Len(box[o].text)
  /\ IF o \in predrag /\ box[o].sel # box[o].end
     THEN /\ Gives(box[o])
          /\ drag' = [caller |-> o, data |-> TextBoxGetSelection(box[o])]
          /\ predrag' = predrag \ {o} /\ master' = NULL
          /\ Becomes(o, CheckSelVisibility(box[o]))
     ELSE /\ Becomes(o, CheckSelVisibility([box[o] EXCEPT !.end = p]))
          /\ UNCHANGED <<drag, predrag, master>>
  /\ UNCHANGED <<clip, over, focus>>

MouseUp(o, p) ==
  /\ Reaches(o) /\ p \in 0..Len(box[o].text)
  /\ Becomes(o, IF o \in predrag THEN [box[o] EXCEPT !.sel = p, !.end = p]
                ELSE [box[o] EXCEPT !.sel = Min({@, p}), !.end = Max({box[o].sel, p})])
  /\ predrag' = predrag \ {o} /\ master' = NULL
  /\ UNCHANGED <<clip, drag, over, focus>>

\* The drag moves over a box.
DragOver(o, p) ==
  /\ drag # NULL /\ p \in 0..Len(box[o].text)
  /\ Becomes(o, [box[o] EXCEPT !.drag = p])
  /\ over' = o
  /\ UNCHANGED <<predrag, clip, drag, focus, master>>

InSelection(b) == b.sel <= b.drag /\ b.drag <= b.end

\* TextBoxDragBeforeDrop, TextBoxDropData and TextBoxDragAfterDrop; the method is DMETHOD_MOVE.
Drop(o) ==
  /\ drag # NULL /\ (over # o => "unmoved" \in Odd)
  /\ box[drag.caller].sel > box[drag.caller].end => "reversed" \in Odd
  /\ LET c == drag.caller
         deleted == [box EXCEPT ![c] = TextBoxDeleteSelection(@)]
         d == deleted[o]
     IN IF o = c /\ InSelection(box[o]) THEN UNCHANGED box
        ELSE IF o = c /\ InSelection(d) THEN box' = deleted
        ELSE box' = [deleted EXCEPT ![o] =
                       TextBoxInserText([d EXCEPT !.sel = d.drag, !.end = d.drag], drag.data)]
  /\ drag' = NULL /\ over' = NULL
  /\ UNCHANGED <<predrag, clip, focus, master>>

\* The scroll bars and, while the button is held on o too, the wheel: only a box of several
\* lines has them.
Scroll(o, x, y) ==
  /\ o \in MultiLine /\ Reaches(o) /\ (master = o => x = box[o].pos.x)
  /\ x \in 0..box[o].max.x /\ y \in 0..box[o].max.y
  /\ Becomes(o, [box[o] EXCEPT !.pos = [x |-> x, y |-> y]])
  /\ UNCHANGED <<predrag, clip, drag, over, focus, master>>

\* The button is released elsewhere.
DragCancel ==
  /\ drag # NULL
  /\ drag' = NULL /\ over' = NULL
  /\ UNCHANGED <<box, predrag, clip, focus, master>>
-----------------------------------------------------------------------------
\* A key changes the box with the focus; its text is measured and the caret scrolled to.
Key(o, b) ==
  /\ o = focus
  /\ Becomes(o, CheckSelVisibility(TextBoxCalculateMax(b)))
  /\ UNCHANGED <<predrag, clip, drag, focus, master>>

Moves(o, p, shift) == [box[o] EXCEPT !.end = p, !.sel = IF shift THEN @ ELSE p]

KeyLeft(o, shift) ==
  LET from == IF shift THEN box[o].end ELSE box[o].sel
  IN Key(o, Moves(o, Max({from - 1, 0}), shift)) /\ UNCHANGED over

KeyRight(o, shift) ==
  LET from == IF shift THEN box[o].end ELSE box[o].sel
  IN Key(o, Moves(o, Min({from + 1, Len(box[o].text)}), shift)) /\ UNCHANGED over

\* Mutant of KeyUp: the line above is looked for from the line break, not before it.
KeyUpSame(o, shift) ==
  LET t == box[o].text
      line == ReachStartOfLine(t, box[o].end)
      col == box[o].end - line
      above == ReachStartOfLine(t, line)
  IN /\ o \in MultiLine /\ line # 0
     /\ Key(o, Moves(o, above + (IF col <= line - above THEN col ELSE 0), shift))
     /\ UNCHANGED over

KeyUp(o, shift) ==
  LET t == box[o].text
      line == ReachStartOfLine(t, box[o].end)
      col == box[o].end - line
      above == ReachStartOfLine(t, Max({line - 2, 0}))
  IN /\ o \in MultiLine /\ line # 0
     /\ t[1] = NL => "leading" \in Odd
     /\ line > 1 /\ t[line - 1] = NL => "empty" \in Odd
     /\ col = line - above => "ragged" \in Odd
     /\ Key(o, Moves(o, above + (IF col <= line - above THEN col ELSE 0), shift))
     /\ UNCHANGED over

KeyDown(o, shift) ==
  LET t == box[o].text
      break == NextBreak(t, box[o].end)
      below == IF NextBreak(t, break + 1) = NULL THEN Len(t) ELSE NextBreak(t, break + 1)
      col == box[o].end - ReachStartOfLine(t, box[o].end)
  IN /\ o \in MultiLine /\ break # NULL
     /\ t[1] = NL => "leading" \in Odd
     /\ col = below - break => "ragged" \in Odd
     /\ Key(o, Moves(o, break + 1 + (IF col <= below - break THEN col ELSE 0), shift))
     /\ UNCHANGED over

\* The keys that change the text, and Home and End, find the caret at the end of the selection.
Forward(b) == IF b.sel > b.end THEN [b EXCEPT !.sel = b.end, !.end = b.sel] ELSE b

\* KEY_HOME and KEY_END: both go to the start.
KeyHome(o) == Key(o, [box[o] EXCEPT !.sel = 0, !.end = 0]) /\ UNCHANGED over

KeyErases(o, backwards) ==
  LET b == Forward(box[o])
  IN /\ Key(o, IF b.sel # b.end THEN TextBoxDeleteSelection(b)
               ELSE IF backwards THEN (IF b.sel = 0 THEN b ELSE TextBoxDeleteMove(b, -1, 0))
               ELSE (IF b.end = Len(b.text) THEN b ELSE TextBoxDeleteMove(b, 0, 1)))
     /\ UNCHANGED over

\* A letter, or Enter in a box of several lines.
KeyWrites(o, c, moved) ==
  /\ c \in Letters \/ o \in MultiLine
  /\ Key(o, TextBoxWriteChar(Forward(box[o]), c, moved))
  /\ over' = IF over = o THEN NULL ELSE over

\* Mutant of Copy: the selection is taken to start with the text.
CopyFromStart(o) ==
  /\ o = focus
  /\ Gives(box[o])
  /\ clip' = Before(box[o].text, box[o].end)
  /\ UNCHANGED <<box, predrag, drag, over, focus, master>>

\* MSG_COPY.
Copy(o) ==
  /\ o = focus
  /\ Gives(box[o])
  /\ clip' = TextBoxGetSelection(box[o])
  /\ UNCHANGED <<box, predrag, drag, over, focus, master>>

\* MSG_CUT; from the keyboard the text is not measured.
Cut(o) ==
  /\ o = focus
  /\ Gives(box[o])
  /\ clip' = TextBoxGetSelection(box[o])
  /\ Becomes(o, TextBoxDeleteSelection(box[o]))
  /\ UNCHANGED <<predrag, drag, over, focus, master>>

\* MSG_PASTE; an empty clipboard is an empty text to TextBoxInserText.
Paste(o) ==
  /\ o = focus /\ (box[o].sel > box[o].end => "reversed" \in Odd)
  /\ Becomes(o, TextBoxInserText(box[o], IF clip = NULL THEN << >> ELSE clip))
  /\ over' = IF over = o THEN NULL ELSE over
  /\ UNCHANGED <<predrag, clip, drag, focus, master>>

\* MSG_DELETE, from the menu.
Delete(o) ==
  /\ box[o].sel # box[o].end /\ (box[o].sel > box[o].end => "reversed" \in Odd)
  /\ Becomes(o, TextBoxDeleteSelection(box[o]))
  /\ UNCHANGED <<predrag, clip, drag, over, focus, master>>

Keyboard(o) ==
  \/ \E shift \in BOOLEAN : KeyLeft(o, shift) \/ KeyRight(o, shift) \/ KeyUp(o, shift) \/ KeyDown(o, shift)
  \/ KeyHome(o) \/ KeyErases(o, TRUE) \/ KeyErases(o, FALSE)
  \/ \E c \in Letters \cup {NL}, moved \in BOOLEAN : KeyWrites(o, c, moved)

Next == \E o \in Box :
  \/ \E t \in Texts : SetText(o, t)
  \/ \E p \in 0..MaxText : MouseDown(o, p) \/ MouseMove(o, p) \/ MouseUp(o, p) \/ DragOver(o, p)
  \/ Drop(o) \/ DragCancel
  \/ \E x \in 0..box[o].max.x, y \in 0..box[o].max.y : Scroll(o, x, y)
  \/ Keyboard(o) \/ Copy(o) \/ Cut(o) \/ Paste(o) \/ Delete(o)

Spec == Init /\ [][Next]_vars
-----------------------------------------------------------------------------
\* Every variable has its type.
TypeOK ==
  /\ box \in [Box -> [text : Seq(Letters \cup {NL}), sel : Nat, end : Nat, drag : Nat \cup {Stale},
                      pos : [x : Nat, y : Nat], max : [x : Nat, y : Nat]]]
  /\ predrag \subseteq Box /\ over \in Box \cup {NULL} /\ focus \in Box /\ master \in Box \cup {NULL}
  /\ clip = NULL \/ clip \in Seq(Letters \cup {NL})
  /\ drag = NULL \/ drag.caller \in Box

\* The selection, the caret and a DragPos that is not stale lie in the text: what copies and
\* reallocates it starts from them.
PositionsInText ==
  \A o \in Box : /\ {box[o].sel, box[o].end} \subseteq 0..Len(box[o].text)
                 /\ box[o].drag \in 0..Len(box[o].text) \cup {Stale}

\* A box over which the mouse has moved knows where a drop would go: no letter typed in the
\* middle of the drag has left its DragPos in freed memory (TextBoxDropData).
DropsKnowWhere == over # NULL => box[over].drag # Stale

\* The text is never scrolled further than it is long, once it has been measured.
ScrolledInText ==
  \A o \in Box : box[o].pos.x \in 0..box[o].max.x /\ box[o].pos.y \in 0..box[o].max.y

\* What is cut and pasted at once leaves the text as it was, whatever is selected.
CutIsUndoneByPaste ==
  \A o \in Box : box[o].sel <= box[o].end =>
    LET back == TextBoxInserText(TextBoxDeleteSelection(box[o]), TextBoxGetSelection(box[o]))
    IN back.text = box[o].text /\ back.end = box[o].end

\* What is copied is what lies between the two ends of the selection (TextBoxGetSelection).
CopiesSelection ==
  [][LET b == box[focus]
     IN Copy(focus) => clip' = SubSeq(b.text, Min({b.sel, b.end}) + 1, Max({b.sel, b.end}))]_vars

\* A text that is dragged and dropped goes where the mouse shows it, though the box it is
\* taken from may be the one it is put in: before the letter that followed DragPos, and no
\* other letter is lost or moved.
DropMoves ==
  [][\A o \in Box : Drop(o) /\ box' # box =>
      LET c == drag.caller
          b == box[c]
          d == box[o].drag
      IN IF o # c
         THEN /\ box'[o].text = Before(box[o].text, d) \o drag.data \o From(box[o].text, d)
              /\ box'[c].text = Before(b.text, b.sel) \o From(b.text, b.end)
         ELSE box'[c].text =
                IF d < b.sel THEN Before(b.text, d) \o drag.data \o SubSeq(b.text, d + 1, b.sel) \o From(b.text, b.end)
                ELSE Before(b.text, b.sel) \o SubSeq(b.text, b.end + 1, d) \o drag.data \o From(b.text, d)]_vars

\* Up and Down move the caret by one line, and no further to the right.
MovesOneLine ==
  [][\A shift \in BOOLEAN :
      LET was == box[focus].end
          is == box'[focus].end
          t == box[focus].text
      IN /\ KeyUp(focus, shift) => Line(t, is) = Line(t, was) - 1 /\ Column(t, is) <= Column(t, was)
         /\ KeyDown(focus, shift) => Line(t, is) = Line(t, was) + 1 /\ Column(t, is) <= Column(t, was)]_vars

\* The caret is in the text area.
InSight(b) ==
  LET at == Locate(b.text, b.end)
  IN /\ b.pos.x <= at.x /\ at.x <= b.pos.x + Width
     /\ b.pos.y <= at.y /\ at.y + 1 <= b.pos.y + Height

\* After a key the caret is in sight, though the text may have been scrolled anywhere before.
CaretInSight == [][InSight(box'[focus]) \/ ~Keyboard(focus)]_vars

\* Everything the box remembers about its text is true of the text it has now.
InText == TypeOK /\ PositionsInText /\ ScrolledInText

\* Copying, cutting and pasting pass on the text that is selected.
ClipboardIsText == []CutIsUndoneByPaste /\ CopiesSelection

\* A drag moves its text to where the mouse points, in whatever box.
DragMoves == []DropsKnowWhere /\ DropMoves
=============================================================================
