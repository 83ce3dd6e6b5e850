---------------------------- MODULE DesktopProofs ---------------------------
(***************************************************************************)
(* What the user does, and what the user sees.                             *)
(*                                                                         *)
(* Events: that no key and no click is handed out twice, that none is      *)
(* handed to a widget that is gone, and that what a widget keeps from one  *)
(* event to the next ends when the button is let go: for any widgets, any  *)
(* number of keys and clicks, and polls within polls to any depth.         *)
(* A poll shares Event, Mouse and TopWidget with those it lies above.  The *)
(* invariant says why that does no harm: until its handler polls, what the *)
(* innermost poll finds there is its own; and after, nothing is left to do *)
(* but to return.                                                          *)
(*                                                                         *)
(* The screen: that the partial repaints add up, and that the mouse goes   *)
(* to the widget one sees: for any tree of widgets, any sizes and places,  *)
(* and any order of the operations.  The invariant says of the coordinates *)
(* that they are those one gets by computing them anew, and of each pixel  *)
(* that it shows the one widget that is drawn there and hidden by nothing. *)
(* A partial paint then has to be right only where this widget is not the  *)
(* one it was before.                                                      *)
(***************************************************************************)
EXTENDS Events, Screen, Links, SequenceTheorems, TLAPS

(***************************************************************************)
(* Events.                                                                 *)
(***************************************************************************)
Devices == [under : Widgets, moved : BOOLEAN, clicks : 0..MaxClicks, old : Nat, turns : 0..MaxTurns,
            wheel : BOOLEAN, typed : 0..MaxKeys, keys : Seq(1..MaxKeys)]

Frames == [at : 1..13, busy : BOOLEAN, polled : BOOLEAN, mouse : BOOLEAN, drag : BOOLEAN,
           crossed : BOOLEAN, old : Widgets \cup {NULL}, target : Widgets \cup {NULL}]

\* Types, and the pointers of the input system: none is left to a widget that is gone.
Typed ==
  /\ device \in Devices /\ device.old <= device.clicks
  /\ Event \in [type : SUBSET {"mouse", "key"}, message : BOOLEAN, key : 0..MaxKeys]
  /\ Mouse \in [moved : BOOLEAN, changes : BOOLEAN, b : BOOLEAN, click : Nat]
  /\ drag \in [on : BOOLEAN, caller : Widgets \cup {NULL}]
  /\ stack \in Seq(Frames) /\ Len(stack) <= MaxDepth

PointersOK ==
  /\ DeskTop \in live /\ live \subseteq Widgets /\ device.under \in live
  /\ {TopWidget, FocusedWidget, MasterWidget} \subseteq live \cup {NULL}

\* The mouse is as it was last read; an event is of the mouse or the keyboard, or they changed together.
ReadOK ==
  /\ Mouse.click = device.old /\ (Mouse.b <=> Down(device.old))
  /\ Event.type = {"mouse", "key"} => Together

\* No input that is still to come has been handed out.
InputsOK ==
  /\ got \in [Inputs -> 0..1]
  /\ \A i \in 1..Len(device.keys) : device.keys[i] <= device.typed /\ got[<<"key", device.keys[i]>>] = 0
  /\ \A i, j \in 1..Len(device.keys) : device.keys[i] = device.keys[j] => i = j
  /\ \A k \in 1..MaxKeys : k > device.typed => got[<<"key", k>>] = 0
  /\ \A c \in 1..MaxClicks : c > device.old => got[<<"click", c>>] = 0
  /\ device.keys # << >> /\ MousePending => Together

\* A poll that is not the innermost one waits for the answer to its handler's question.
Waits(f) == f.busy /\ f.polled /\ f.at \in {At["down"], At["up"], At["key"]}
BelowOK == \A i \in 1..Len(stack) : i < Len(stack) => Waits(stack[i])

\* The innermost poll.
FrameOK(f) ==
  /\ f.polled => Waits(f) \/ f.at = At["key"]
  /\ f.busy /\ ~f.polled => f.target \in live
  /\ f.at = At["system"] => ~f.busy /\ ~f.polled
  /\ f.at = At["begin"] => ~f.busy /\ f.old \in live \cup {NULL}

(***************************************************************************)
(* Before its handler polls it finds what it has read: the input it has    *)
(* not handed out yet, and the widget and the drag of its branch.          *)
(***************************************************************************)
Own(f) ==
  /\ f.at > At["system"] => (f.mouse <=> Event.type = {"mouse"})
  /\ f.mouse /\ f.at < At["down"] => TopWidget # NULL
  /\ f.at \in {At["focus"], At["select"], At["down"]} => Pressed /\ ~f.drag
  /\ f.at = At["up"] => ~f.drag
  /\ f.mouse /\ f.drag /\ f.at < At["drop"] => drag.on
  /\ f.at = At["drop"] => f.drag /\ (f.target # NULL => drag.on)

OwnInput(f) ==
  /\ "key" \in Event.type /\ f.at < At["key"] =>
       /\ Event.key \in 1..MaxKeys /\ Event.key <= device.typed /\ got[<<"key", Event.key>>] = 0
       /\ \A i \in 1..Len(device.keys) : device.keys[i] # Event.key
  /\ Pressed /\ f.at < At["down"] => got[<<"click", Mouse.click>>] = 0
  /\ Released /\ f.at < At["up"] => got[<<"click", Mouse.click>>] = 0

TopOK == stack # << >> => FrameOK(Top) /\ (~Top.polled => Own(Top) /\ OwnInput(Top))

\* A release the innermost poll has yet to come to.
Releases == stack # << >> /\ ~Top.polled /\ Released /\ Event.type = {"mouse"}
UpComes == Releases /\ Top.at < At["up"] /\ (Top.at = At["system"] \/ TopWidget = MasterWidget)
DropComes ==
  /\ Releases
  /\ \/ Top.at = At["system"]
     \/ Top.drag /\ Top.at < At["drop"]
     \/ Top.at = At["drop"] /\ Top.target # NULL

\* What a widget keeps ends with the button, or with a release that is under way.
GrabOK == MasterWidget # NULL => ~drag.on /\ (Together \/ Mouse.b \/ UpComes)
DragOK == drag.on => drag.caller \in live /\ (Together \/ Mouse.b \/ DropComes)

Inv == Typed /\ PointersOK /\ ReadOK /\ InputsOK /\ BelowOK /\ TopOK /\ GrabOK /\ DragOK

(***************************************************************************)
(* What the proofs assume of the handlers: one that has polled returns     *)
(* TRUE; those of hovering and of focus dispose of no widgets, and nobody  *)
(* does during a drag; DropData does not poll.  Each boundary, when it is  *)
(* crossed, breaks one of the theorems.                                    *)
(***************************************************************************)
NoBoundary == ~PollUnhandled /\ ~BusyHover /\ ~CloseInDrag /\ ~DropPolls
-----------------------------------------------------------------------------
(***************************************************************************)
(* The stages.                                                             *)
(***************************************************************************)
Names == {"system", "begin", "left", "enter", "message", "move", "focus", "select", "down", "up",
          "drop", "afterdrop", "key"}

\* The stages, by place.
LEMMA StageIs ==
  /\ DOMAIN Stage = 1..13 /\ ToSet(Stage) = Names
  /\ Stage[1] = "system" /\ Stage[2] = "begin" /\ Stage[3] = "left" /\ Stage[4] = "enter"
  /\ Stage[5] = "message" /\ Stage[6] = "move" /\ Stage[7] = "focus" /\ Stage[8] = "select"
  /\ Stage[9] = "down" /\ Stage[10] = "up" /\ Stage[11] = "drop" /\ Stage[12] = "afterdrop"
  /\ Stage[13] = "key"
<1>1. /\ DOMAIN Stage = 1..13
      /\ Stage[1] = "system" /\ Stage[2] = "begin" /\ Stage[3] = "left" /\ Stage[4] = "enter"
      /\ Stage[5] = "message" /\ Stage[6] = "move" /\ Stage[7] = "focus" /\ Stage[8] = "select"
      /\ Stage[9] = "down" /\ Stage[10] = "up" /\ Stage[11] = "drop" /\ Stage[12] = "afterdrop"
      /\ Stage[13] = "key"
  BY DEF Stage
<1>2. \A i \in 1..13 : i \in {1, 2, 3, 4, 5, 6, 7, 8, 9, 10, 11, 12, 13}
  OBVIOUS
<1>3. ToSet(Stage) = {Stage[i] : i \in 1..13}
  BY <1>1 DEF ToSet
<1>4. \A i \in 1..13 : Stage[i] \in Names
  BY <1>1, <1>2 DEF Names
<1>5. \A s \in Names : \E i \in 1..13 : Stage[i] = s
  BY <1>1 DEF Names
<1> QED BY <1>1, <1>3, <1>4, <1>5

\* At gives the place of each name.
LEMMA AtStage ==
  ASSUME NEW i \in 1..13
  PROVE  At[Stage[i]] = i
<1>1. \A j, k \in 1..13 : Stage[j] = Stage[k] => j = k
  <2>1. \A j \in 1..13 : j \in {1, 2, 3, 4, 5, 6, 7, 8, 9, 10, 11, 12, 13}
    OBVIOUS
  <2> QED BY <2>1, StageIs
<1>2. Stage[i] \in ToSet(Stage)
  BY StageIs DEF ToSet
<1>3. At[Stage[i]] = CHOOSE j \in 1..13 : Stage[j] = Stage[i]
  BY <1>2, StageIs DEF At
<1> QED BY <1>1, <1>3

\* The places, by stage.
LEMMA AtIs ==
  /\ At["system"] = 1 /\ At["begin"] = 2 /\ At["left"] = 3 /\ At["enter"] = 4 /\ At["message"] = 5
  /\ At["move"] = 6 /\ At["focus"] = 7 /\ At["select"] = 8 /\ At["down"] = 9 /\ At["up"] = 10
  /\ At["drop"] = 11 /\ At["afterdrop"] = 12 /\ At["key"] = 13
<1>1. \A i \in 1..13 : At[Stage[i]] = i
  BY AtStage
<1> QED BY <1>1, StageIs

\* The name of a stage, and its place.
LEMMA StageAt ==
  ASSUME NEW i \in 1..13
  PROVE  /\ (Stage[i] = "system") <=> (i = 1)
         /\ (Stage[i] = "move") <=> (i = 6)
         /\ (Stage[i] = "down") <=> (i = 9)
         /\ (Stage[i] = "up") <=> (i = 10)
         /\ (Stage[i] = "drop") <=> (i = 11)
         /\ (Stage[i] = "key") <=> (i = 13)
<1>1. At[Stage[i]] = i
  BY AtStage
<1> QED BY <1>1, StageIs, AtIs

\* NextStage is a stage ahead that is due; if it is none, no stage is.
LEMMA NextIs ==
  ASSUME NEW f, f.at \in 1..13, NEW s, s = NextStage(f)
  PROVE  /\ s # "return" => s \in Names /\ At[s] \in 1..13 /\ At[s] > f.at /\ Due(f, s)
         /\ s = "return" => \A t \in Names : At[t] > f.at => ~Due(f, t)
<1>1. CASE Ahead(f) = {}
  <2>1. ASSUME NEW t \in Names, At[t] > f.at, Due(f, t)
        PROVE  FALSE
    <3>1. PICK i \in 1..13 : Stage[i] = t
      BY StageIs DEF ToSet
    <3>2. At[t] = i
      BY <3>1, AtStage
    <3> QED BY <1>1, <2>1, <3>1, <3>2, StageIs DEF Ahead
  <2>2. s = "return"
    BY <1>1 DEF NextStage
  <2> QED BY <2>1, <2>2
<1>2. CASE Ahead(f) # {}
  <2>1. Ahead(f) \subseteq 1..13
    BY StageIs DEF Ahead
  <2>2. PICK m \in Ahead(f) : \A k \in Ahead(f) : m <= k
    <3>1. PICK S : S = Ahead(f)
      OBVIOUS
    <3>2. S # {} /\ \A k \in S : k \in {1, 2, 3, 4, 5, 6, 7, 8, 9, 10, 11, 12, 13}
      BY <1>2, <2>1, <3>1
    <3>3. \E m \in S : \A k \in S : m <= k
      BY <3>2, SMTT(60)
    <3> QED BY <3>1, <3>3
  <2>3. Min(Ahead(f)) \in Ahead(f)
    BY <2>2 DEF Min
  <2>4. PICK i \in Ahead(f) : s = Stage[i]
    BY <1>2, <2>3 DEF NextStage
  <2>5. i \in 1..13 /\ i > f.at /\ Due(f, s) /\ At[s] = i /\ s \in Names
    BY <2>1, <2>4, AtStage, StageIs DEF Ahead, ToSet
  <2>6. s # "return"
    BY <2>5 DEF Names
  <2> QED BY <2>5, <2>6
<1> QED BY <1>1, <1>2

\* What makes each stage due.
LEMMA DueIs ==
  ASSUME NEW f \in Frames
  PROVE  /\ ~Due(f, "system") /\ ~Due(f, "begin")
         /\ Due(f, "left") => f.mouse /\ f.old # NULL
         /\ Due(f, "enter") => f.mouse
         /\ Due(f, "message") => f.mouse
         /\ Due(f, "move") => f.mouse
         /\ \A s \in {"focus", "select", "down"} : Due(f, s) => f.mouse /\ ~f.drag /\ Pressed
         /\ Due(f, "up") <=> (f.mouse /\ ~f.drag /\ Released /\ ~(TopWidget = NULL /\ f.at < At["down"]))
         /\ Due(f, "drop") <=> (f.mouse /\ f.drag /\ Released)
         /\ Due(f, "afterdrop") <=> (f.at = At["drop"] /\ f.target # NULL)
         /\ Due(f, "key") => Event.type = {"key"} /\ FocusedWidget # NULL
<1>1. f.mouse \in BOOLEAN /\ f.drag \in BOOLEAN /\ f.crossed \in BOOLEAN /\ f.at \in 1..13
  BY DEF Frames
<1>2. ~Due(f, "system") /\ ~Due(f, "begin")
  BY DEF Due
<1>3. /\ Due(f, "left") => f.mouse /\ f.old # NULL
      /\ Due(f, "enter") => f.mouse
      /\ Due(f, "message") => f.mouse
      /\ Due(f, "move") => f.mouse
  BY DEF Due
<1>4. \A s \in {"focus", "select", "down"} : Due(f, s) => f.mouse /\ ~f.drag /\ Pressed
  BY DEF Due, Clicks
<1>5. Due(f, "up") <=> (f.mouse /\ ~f.drag /\ Released /\ ~(TopWidget = NULL /\ f.at < At["down"]))
  BY DEF Due, Clicks, NoTop, Released
<1>6. Due(f, "drop") <=> (f.mouse /\ f.drag /\ Released)
  BY DEF Due
<1>7. Due(f, "afterdrop") <=> (f.at = At["drop"] /\ f.target # NULL)
  BY <1>1, StageAt, AtIs DEF Due
<1>8. Due(f, "key") => Event.type = {"key"} /\ FocusedWidget # NULL
  BY DEF Due, KeyDue
<1> QED BY <1>2, <1>3, <1>4, <1>5, <1>6, <1>7, <1>8
-----------------------------------------------------------------------------
(***************************************************************************)
(* The stack.                                                              *)
(***************************************************************************)
\* The innermost poll is a frame.
LEMMA TopIs ==
  ASSUME stack \in Seq(Frames), stack # << >>
  PROVE  /\ Len(stack) \in Nat /\ Len(stack) \in 1..Len(stack) /\ Top = stack[Len(stack)]
         /\ Top \in Frames
BY DEF Top, Last

\* The innermost poll has become g.
LEMMA HereIs ==
  ASSUME stack \in Seq(Frames), stack # << >>, NEW g \in Frames, Here(g)
  PROVE  /\ stack' \in Seq(Frames) /\ Len(stack') = Len(stack) /\ stack' # << >> /\ Top' = g
         /\ \A i \in 1..Len(stack) : i < Len(stack) => stack'[i] = stack[i]
<1>1. PICK n : n = Len(stack) /\ n \in Nat /\ n \in 1..n
  BY TopIs
<1>2. stack' = [stack EXCEPT ![n] = g]
  BY <1>1 DEF Here
<1>3. stack' \in Seq(Frames) /\ Len(stack') = n
  BY <1>1, <1>2
<1>4. stack'[n] = g /\ \A i \in 1..n : i < n => stack'[i] = stack[i]
  BY <1>1, <1>2
<1>5. stack' # << >>
  BY <1>1, <1>3
<1> QED BY <1>1, <1>3, <1>4, <1>5 DEF Top, Last

\* The innermost poll has returned.
LEMMA PopIs ==
  ASSUME stack \in Seq(Frames), stack # << >>, stack' = Front(stack)
  PROVE  /\ stack' \in Seq(Frames) /\ Len(stack') = Len(stack) - 1
         /\ \A i \in 1..Len(stack') : i \in 1..Len(stack) /\ i < Len(stack) /\ stack'[i] = stack[i]
         /\ stack' # << >> => Len(stack') \in 1..Len(stack') /\ Top' = stack[Len(stack')]
<1>1. PICK n : n = Len(stack) /\ n \in Nat /\ n \in 1..n
  BY TopIs
<1>2. stack' = SubSeq(stack, 1, n - 1)
  BY <1>1 DEF Front
<1>3. stack' \in Seq(Frames) /\ Len(stack') = n - 1 /\ \A i \in 1..(n - 1) : stack'[i] = stack[i]
  BY <1>1, <1>2
<1>4. stack' # << >> => n - 1 \in 1..(n - 1)
  BY <1>1, <1>3
<1> QED BY <1>1, <1>3, <1>4 DEF Top, Last

\* The polls below stay as they are, and the new innermost poll is g.
LEMMA HereKeeps ==
  ASSUME Typed, BelowOK, stack # << >>, NEW g \in Frames, Here(g), FrameOK(g)',
         ~g.polled => Own(g)' /\ OwnInput(g)'
  PROVE  /\ stack' \in Seq(Frames) /\ Len(stack') <= MaxDepth /\ stack' # << >> /\ Top' = g
         /\ BelowOK' /\ TopOK'
<1>1. /\ stack' \in Seq(Frames) /\ Len(stack') = Len(stack) /\ stack' # << >> /\ Top' = g
      /\ \A i \in 1..Len(stack) : i < Len(stack) => stack'[i] = stack[i]
  BY HereIs DEF Typed
<1>2. BelowOK'
  BY <1>1 DEF BelowOK, Waits
<1>3. TopOK'
  BY <1>1 DEF TopOK, FrameOK, Waits, Own, OwnInput, Pressed, Released
<1> QED BY <1>1, <1>2, <1>3 DEF Typed

\* After a poll has returned the innermost one is one that waits.
LEMMA PopKeeps ==
  ASSUME Typed, BelowOK, stack # << >>, stack' = Front(stack)
  PROVE  stack' \in Seq(Frames) /\ Len(stack') <= MaxDepth /\ BelowOK' /\ TopOK'
<1>1. /\ stack' \in Seq(Frames) /\ Len(stack') = Len(stack) - 1 /\ Len(stack) \in Nat
      /\ \A i \in 1..Len(stack') : i \in 1..Len(stack) /\ i < Len(stack) /\ stack'[i] = stack[i]
      /\ stack' # << >> => Len(stack') \in 1..Len(stack') /\ Top' = stack[Len(stack')]
  BY PopIs, TopIs DEF Typed
<1>2. \A i \in 1..Len(stack') : Waits(stack'[i])
  BY <1>1 DEF BelowOK
<1>3. BelowOK'
  BY <1>2 DEF BelowOK, Waits
<1>4. TopOK'
  <2> SUFFICES ASSUME stack' # << >>
               PROVE  FrameOK(Top)' /\ (Top').polled
    BY DEF TopOK
  <2>1. PICK g : g = Top'
    OBVIOUS
  <2>2. g.busy /\ g.polled /\ g.at \in {At["down"], At["up"], At["key"]}
    <3>1. Waits(stack'[Len(stack')]) /\ stack'[Len(stack')] = g
      BY <1>1, <1>2, <2>1
    <3> QED BY <3>1 DEF Waits
  <2>3. Waits(Top') /\ (Top').polled
    BY <2>1, <2>2 DEF Waits
  <2> QED BY <2>1, <2>2, <2>3, AtIs DEF FrameOK, Waits
<1> QED BY <1>1, <1>3, <1>4, BoundsAssumption DEF Typed
-----------------------------------------------------------------------------
(***************************************************************************)
(* What the invariant says of the innermost poll.                          *)
(***************************************************************************)
\* What comes next in a poll that runs no handler: of one whose handler has polled, nothing.
LEMMA ComesIs ==
  ASSUME Inv, NEW s, Comes(s)
  PROVE  /\ stack # << >> /\ Top \in Frames /\ ~Top.busy /\ Top.at > 1 /\ s = NextStage(Top)
         /\ s # "return" => /\ s \in Names /\ At[s] \in 1..13 /\ At[s] > Top.at /\ Due(Top, s)
                            /\ ~Top.polled /\ Own(Top) /\ OwnInput(Top)
         /\ s = "return" => \A t \in Names : At[t] > Top.at => ~Due(Top, t)
<1>1. stack # << >> /\ Top \in Frames /\ ~Top.busy /\ s = NextStage(Top)
  BY TopIs DEF Comes, Inv, Typed
<1>2. Top.at \in 1..13 /\ Top.at > 1
  <2>1. Top.at \in 1..13
    BY <1>1 DEF Frames
  <2>2. Top.at # 1
    BY <1>1, StageIs DEF Comes, InStage
  <2> QED BY <2>1, <2>2
<1>3. FrameOK(Top) /\ (~Top.polled => Own(Top) /\ OwnInput(Top))
  BY <1>1 DEF Inv, TopOK
<1>4. Top.polled => Top.at = 13
  BY <1>1, <1>3, AtIs DEF FrameOK, Waits
<1>5. /\ s # "return" => s \in Names /\ At[s] \in 1..13 /\ At[s] > Top.at /\ Due(Top, s)
      /\ s = "return" => \A t \in Names : At[t] > Top.at => ~Due(Top, t)
  BY <1>1, <1>2, NextIs
<1>6. s # "return" => ~Top.polled
  BY <1>4, <1>5
<1> QED BY <1>1, <1>2, <1>3, <1>5, <1>6

\* A release is not under way while a handler of a click or a key runs.
LEMMA ClickedIs ==
  ASSUME Inv, stack # << >>, Top.at \in {At["down"], At["up"], At["key"]}
  PROVE  /\ ~UpComes /\ ~DropComes
         /\ MasterWidget # NULL \/ drag.on => Together \/ Mouse.b
<1>1. Top \in Frames
  BY TopIs DEF Inv, Typed
<1>2. ~Top.polled => Own(Top)
  BY DEF Inv, TopOK
<1>3. ~UpComes
  BY <1>1, <1>2, AtIs DEF UpComes, Releases, Own, Pressed, Released
<1>4. ~DropComes
  BY <1>1, <1>2, AtIs DEF DropComes, Releases, Own, Pressed, Released
<1> QED BY <1>3, <1>4 DEF Inv, GrabOK, DragOK

\* Once counted, an input that had not been is counted once.
LEMMA CountedIs ==
  ASSUME got \in [Inputs -> 0..1], NEW i, got[i] = 0, Counted(i)
  PROVE  got' \in [Inputs -> 0..1] /\ \A j \in Inputs : j # i => got'[j] = got[j]
<1>1. got' = [got EXCEPT ![i] = Min({2, got[i] + 1})]
  BY DEF Counted
<1>2. Min({2, 0 + 1}) = 1
  BY DEF Min
<1>3. got' = [got EXCEPT ![i] = 1]
  BY <1>1, <1>2
<1>4. DOMAIN got = Inputs /\ \A j \in Inputs : got[j] \in 0..1
  OBVIOUS
<1>5. got' = [j \in Inputs |-> IF j = i THEN 1 ELSE got[j]]
  BY <1>3, <1>4
<1>6. \A j \in Inputs : (IF j = i THEN 1 ELSE got[j]) \in 0..1
  BY <1>4
<1> QED BY <1>5, <1>6

\* Keys and clicks are told apart.
LEMMA InputIs ==
  /\ \A k \in 1..MaxKeys : <<"key", k>> \in Inputs
  /\ \A c \in 1..MaxClicks : <<"click", c>> \in Inputs
  /\ \A k, c : <<"key", k>> # <<"click", c>>
  /\ \A j, k : j # k => <<"key", j>> # <<"key", k>> /\ <<"click", j>> # <<"click", k>>
BY DEF Inputs

\* WidgetDisposeEx leaves no pointer to the widget.
LEMMA DisposeIs ==
  ASSUME Typed, PointersOK, NEW w \in live \ {DeskTop}, NEW x \in live \cup {NULL}, DisposeOf(w, x)
  PROVE  /\ PointersOK' /\ device' \in Devices /\ live' = live \ {w}
         /\ device'.moved = device.moved /\ device'.clicks = device.clicks /\ device'.old = device.old
         /\ device'.wheel = device.wheel /\ device'.typed = device.typed /\ device'.keys = device.keys
         /\ MasterWidget' \in {MasterWidget, NULL} /\ TopWidget' \in {TopWidget, NULL}
         /\ w # TopWidget => TopWidget' = TopWidget
         /\ drag' = drag
<1>1. live' = live \ {w} /\ drag' = drag /\ DeskTop \in Widgets /\ NULL \notin Widgets
  BY DeskTopAssumption DEF DisposeOf
<1>2. device' = [device EXCEPT !.under = IF device.under = w THEN DeskTop ELSE device.under]
  BY DEF DisposeOf
<1>3. device \in Devices
  BY DEF Typed
<1>4. PICK u : u = IF device.under = w THEN DeskTop ELSE device.under
  OBVIOUS
<1>5. u \in live \ {w}
  BY <1>4 DEF PointersOK
<1>6. /\ device' \in Devices /\ device'.under = u
      /\ device'.moved = device.moved /\ device'.clicks = device.clicks /\ device'.old = device.old
      /\ device'.wheel = device.wheel /\ device'.typed = device.typed /\ device'.keys = device.keys
  BY <1>2, <1>3, <1>4, <1>5 DEF Devices, PointersOK
<1>7. /\ TopWidget' = IF TopWidget = w THEN NULL ELSE TopWidget
      /\ MasterWidget' = IF MasterWidget = w THEN NULL ELSE MasterWidget
      /\ FocusedWidget' = IF x = w THEN NULL ELSE x
  BY DEF DisposeOf, Without
<1>8. PointersOK'
  BY <1>1, <1>5, <1>6, <1>7 DEF PointersOK
<1> QED BY <1>1, <1>6, <1>7, <1>8

\* What is to come stays so when neither the keys nor the clicks change.
LEMMA InputsStay ==
  ASSUME InputsOK, device'.moved = device.moved, device'.clicks = device.clicks,
         device'.old = device.old, device'.wheel = device.wheel, device'.typed = device.typed,
         device'.keys = device.keys, got' = got
  PROVE  InputsOK'
BY DEF InputsOK, MousePending

\* An input that is handed out, and is not still to come, leaves the others as they are.
LEMMA KeyHandled ==
  ASSUME InputsOK, NEW k, got' \in [Inputs -> 0..1], device' = device,
         \A j \in Inputs : j # <<"key", k>> => got'[j] = got[j],
         device \in Devices, k <= device.typed, k \in 1..MaxKeys,
         \A i \in 1..Len(device.keys) : device.keys[i] # k
  PROVE  InputsOK'
<1>1. device.keys \in Seq(1..MaxKeys) /\ device.typed \in Nat /\ MaxKeys \in Nat
  BY BoundsAssumption DEF Devices
<1>2. \A i \in 1..Len(device.keys) : device.keys[i] \in 1..MaxKeys
  <2>1. PICK q : q = device.keys /\ q \in Seq(1..MaxKeys)
    BY <1>1
  <2>2. \A i \in 1..Len(q) : q[i] \in 1..MaxKeys
    BY <2>1, ElementOfSeq
  <2> QED BY <2>1, <2>2
<1>3. \A i \in 1..Len(device.keys) : got'[<<"key", device.keys[i]>>] = 0
  BY <1>2, InputIs DEF InputsOK
<1>4. \A j \in 1..MaxKeys : j > device.typed => got'[<<"key", j>>] = 0
  BY <1>1, InputIs DEF InputsOK
<1>5. \A c \in 1..MaxClicks : c > device.old => got'[<<"click", c>>] = 0
  BY InputIs DEF InputsOK
<1> QED BY <1>3, <1>4, <1>5 DEF InputsOK, MousePending

\* The same of a click.
LEMMA ClickHandled ==
  ASSUME InputsOK, NEW x, got' \in [Inputs -> 0..1], device' = device,
         \A j \in Inputs : j # <<"click", x>> => got'[j] = got[j],
         device \in Devices, x = device.old
  PROVE  InputsOK'
<1>1. device.keys \in Seq(1..MaxKeys) /\ device.old \in Nat /\ MaxClicks \in Nat
  BY BoundsAssumption DEF Devices
<1>2. \A i \in 1..Len(device.keys) : device.keys[i] \in 1..MaxKeys
  <2>1. PICK q : q = device.keys /\ q \in Seq(1..MaxKeys)
    BY <1>1
  <2>2. \A i \in 1..Len(q) : q[i] \in 1..MaxKeys
    BY <2>1, ElementOfSeq
  <2> QED BY <2>1, <2>2
<1>3. \A i \in 1..Len(device.keys) : got'[<<"key", device.keys[i]>>] = 0
  BY <1>2, InputIs DEF InputsOK
<1>4. \A j \in 1..MaxKeys : j > device.typed => got'[<<"key", j>>] = 0
  BY InputIs DEF InputsOK
<1>5. \A c \in 1..MaxClicks : c > device.old => c # x /\ got'[<<"click", c>>] = 0
  BY <1>1, InputIs DEF InputsOK
<1> QED BY <1>3, <1>4, <1>5 DEF InputsOK, MousePending
-----------------------------------------------------------------------------
(***************************************************************************)
(* The steps of the hardware.                                              *)
(***************************************************************************)
\* The hardware takes no part in what the polls do.
LEMMA UserKeeps ==
  ASSUME Inv, device' \in Devices, device'.under \in live, device'.old = device.old,
         device'.old <= device'.clicks, device'.typed >= device.typed,
         \A k \in 1..MaxKeys : k <= device.typed /\ (\A i \in 1..Len(device.keys) : device.keys[i] # k) =>
           \A i \in 1..Len(device'.keys) : device'.keys[i] # k,
         InputsOK', UNCHANGED <<Event, Mouse, widgets, stack, got>>
  PROVE  Inv'
<1>1. /\ Event' = Event /\ Mouse' = Mouse /\ TopWidget' = TopWidget /\ FocusedWidget' = FocusedWidget
      /\ MasterWidget' = MasterWidget /\ drag' = drag /\ live' = live /\ stack' = stack /\ got' = got
  BY DEF widgets
<1>2. Typed' /\ PointersOK' /\ ReadOK' /\ BelowOK'
  BY <1>1 DEF Inv, Typed, PointersOK, ReadOK, BelowOK, Waits
<1>3. TopOK'
  <2> SUFFICES ASSUME stack # << >>
               PROVE  TopOK'
    BY <1>1 DEF TopOK
  <2>1. PICK f : f = Top
    OBVIOUS
  <2>2. Top' = f
    BY <1>1, <2>1 DEF Top
  <2>3. FrameOK(f) /\ (~f.polled => Own(f) /\ OwnInput(f))
    BY <2>1 DEF Inv, TopOK
  <2>4. FrameOK(f)'
    BY <1>1, <2>3 DEF FrameOK, Waits
  <2>5. ~f.polled => Own(f)'
    BY <1>1, <2>3 DEF Own, Pressed, Released
  <2>6. ~f.polled => OwnInput(f)'
    <3>1. device.typed \in Nat /\ device'.typed \in Nat
      BY DEF Inv, Typed, Devices
    <3> QED BY <1>1, <2>3, <3>1 DEF OwnInput, Pressed, Released
  <2> QED BY <2>2, <2>4, <2>5, <2>6 DEF TopOK, FrameOK, Waits, Own, OwnInput, Pressed, Released
<1>4. GrabOK' /\ DragOK'
  <2>1. Top' = Top
    BY <1>1 DEF Top
  <2> QED BY <1>1, <2>1 DEF Inv, GrabOK, DragOK, UpComes, DropComes, Releases, Released
<1> QED BY <1>2, <1>3, <1>4 DEF Inv

\* The user moves and clicks the mouse, turns the wheel, presses a key.
LEMMA UserStep ==
  ASSUME Inv, User
  PROVE  Inv'
<1>1. PICK d : d = device
  OBVIOUS
<1>2. /\ d \in Devices /\ d.under \in live /\ live \subseteq Widgets /\ d.old \in Nat /\ d.clicks \in Nat
      /\ d.typed \in 0..MaxKeys /\ d.keys \in Seq(1..MaxKeys) /\ d.old <= d.clicks /\ MaxKeys \in Nat
  BY <1>1, BoundsAssumption DEF Inv, Typed, PointersOK, Devices
<1>3. InputsOK
  BY DEF Inv
<1>4. ASSUME device' \in Devices, device'.under \in live, device'.old = d.old, device'.typed = d.typed,
             device'.keys = d.keys, d.keys = << >> \/ Together, device'.clicks >= d.clicks,
             UNCHANGED <<Event, Mouse, widgets, stack, got>>
      PROVE  Inv'
  <2>1. InputsOK'
    BY <1>1, <1>3, <1>4 DEF InputsOK, MousePending
  <2>2. d.old <= device'.clicks
    BY <1>2, <1>4 DEF Devices
  <2> QED BY <1>1, <1>2, <1>4, <2>1, <2>2, UserKeeps
<1>5. CASE Move
  <2>1. PICK w \in live : device' = [d EXCEPT !.under = w, !.moved = TRUE]
    BY <1>1, <1>5 DEF Move
  <2>2. /\ device' \in Devices /\ device'.under = w /\ device'.old = d.old /\ device'.typed = d.typed
        /\ device'.keys = d.keys /\ device'.clicks = d.clicks
    BY <1>2, <2>1 DEF Devices
  <2>3. (d.keys = << >> \/ Together) /\ UNCHANGED <<Event, Mouse, widgets, stack, got>>
    BY <1>1, <1>5 DEF Move, MouseMay
  <2> QED BY <1>2, <1>4, <2>2, <2>3
<1>6. CASE PushButton
  <2>1. device' = [d EXCEPT !.clicks = d.clicks + 1] /\ d.clicks < MaxClicks
    BY <1>1, <1>6 DEF PushButton
  <2>2. d.clicks + 1 \in 0..MaxClicks
    BY <1>2, <2>1, BoundsAssumption
  <2>3. /\ device' \in Devices /\ device'.under = d.under /\ device'.old = d.old /\ device'.typed = d.typed
        /\ device'.keys = d.keys /\ device'.clicks = d.clicks + 1
    BY <1>2, <2>1, <2>2 DEF Devices
  <2>4. (d.keys = << >> \/ Together) /\ UNCHANGED <<Event, Mouse, widgets, stack, got>>
    BY <1>1, <1>6 DEF PushButton, MouseMay
  <2>5. device'.clicks >= d.clicks
    BY <1>2, <2>3
  <2> QED BY <1>2, <1>4, <2>3, <2>4, <2>5
<1>7. CASE Turn
  <2>1. device' = [d EXCEPT !.turns = d.turns + 1, !.wheel = TRUE] /\ d.turns < MaxTurns
    BY <1>1, <1>7 DEF Turn
  <2>2. d.turns + 1 \in 0..MaxTurns
    BY <1>2, <2>1, BoundsAssumption DEF Devices
  <2>3. /\ device' \in Devices /\ device'.under = d.under /\ device'.old = d.old /\ device'.typed = d.typed
        /\ device'.keys = d.keys /\ device'.clicks = d.clicks
    BY <1>2, <2>1, <2>2 DEF Devices
  <2>4. (d.keys = << >> \/ Together) /\ UNCHANGED <<Event, Mouse, widgets, stack, got>>
    BY <1>1, <1>7 DEF Turn, MouseMay
  <2> QED BY <1>2, <1>4, <2>3, <2>4
<1>8. CASE Press
  <2>1. PICK t : t = d.typed + 1
    OBVIOUS
  <2>2. /\ device' = [d EXCEPT !.typed = t, !.keys = Append(d.keys, t)]
        /\ d.typed < MaxKeys /\ (MousePending => Together)
        /\ UNCHANGED <<Event, Mouse, widgets, stack, got>>
    BY <1>1, <1>8, <2>1 DEF Press
  <2>3. t \in 1..MaxKeys /\ t \in Nat /\ d.typed \in Nat /\ t > d.typed
    BY <1>2, <2>1, <2>2
  <2>4. PICK p, q : p = d.keys /\ q = Append(p, t)
    OBVIOUS
  <2>5. /\ p \in Seq(1..MaxKeys) /\ q \in Seq(1..MaxKeys) /\ Len(q) = Len(p) + 1 /\ Len(p) \in Nat
        /\ q[Len(p) + 1] = t /\ \A i \in 1..Len(p) : q[i] = p[i] /\ p[i] \in 1..MaxKeys
    BY <1>2, <2>3, <2>4
  <2>6. /\ device' \in Devices /\ device'.under = d.under /\ device'.old = d.old /\ device'.typed = t
        /\ device'.keys = q /\ device'.clicks = d.clicks /\ device'.moved = d.moved /\ device'.wheel = d.wheel
    <3>1. device' = [d EXCEPT !.typed = t, !.keys = q]
      BY <2>2, <2>4
    <3>2. t \in 0..MaxKeys
      BY <1>2, <2>3
    <3> QED BY <1>2, <2>5, <3>1, <3>2 DEF Devices
  <2>7. \A i \in 1..Len(q) : i \in 1..Len(p) \/ i = Len(p) + 1
    BY <2>5
  <2>8. \A i \in 1..Len(p) : p[i] <= d.typed /\ got[<<"key", p[i]>>] = 0
    BY <1>1, <1>3, <2>4 DEF InputsOK
  <2>9. \A i \in 1..Len(p) : p[i] \in 1..MaxKeys /\ p[i] < t
    <3> SUFFICES ASSUME NEW i \in 1..Len(p)
                 PROVE  p[i] \in 1..MaxKeys /\ p[i] < t
      OBVIOUS
    <3>1. p[i] \in 1..MaxKeys /\ p[i] <= d.typed
      BY <2>5, <2>8
    <3> QED BY <2>3, <3>1
  <2>10. InputsOK'
    <3>1. got' = got /\ got[<<"key", t>>] = 0
      BY <1>1, <1>3, <2>2, <2>3 DEF InputsOK
    <3>2. \A i \in 1..Len(p) : q[i] <= t /\ got[<<"key", q[i]>>] = 0
      BY <2>3, <2>5, <2>8, <2>9
    <3>3. \A i \in 1..Len(q) : q[i] <= t /\ got[<<"key", q[i]>>] = 0
      <4> SUFFICES ASSUME NEW i \in 1..Len(q)
                   PROVE  q[i] <= t /\ got[<<"key", q[i]>>] = 0
        OBVIOUS
      <4>1. CASE i \in 1..Len(p)
        BY <3>2, <4>1
      <4>2. CASE i = Len(p) + 1
        <5>1. q[i] = t
          BY <2>5, <4>2
        <5> QED BY <2>3, <3>1, <5>1
      <4> QED BY <2>7, <4>1, <4>2
    <3>4. \A i, j \in 1..Len(q) : q[i] = q[j] => i = j
      <4>1. \A i, j \in 1..Len(p) : p[i] = p[j] => i = j
        BY <1>1, <1>3, <2>4 DEF InputsOK
      <4>2. \A i \in 1..Len(p) : q[i] = p[i] /\ q[i] # t
        <5> SUFFICES ASSUME NEW i \in 1..Len(p) PROVE q[i] = p[i] /\ q[i] # t
          OBVIOUS
        <5>1. q[i] = p[i] /\ p[i] < t
          BY <2>5, <2>9
        <5>2. p[i] \in Int /\ t \in Int
          BY <2>3, <2>9
        <5> QED BY <5>1, <5>2
      <4> SUFFICES ASSUME NEW i \in 1..Len(q), NEW j \in 1..Len(q), q[i] = q[j] PROVE i = j
        OBVIOUS
      <4>3. CASE i \in 1..Len(p) /\ j \in 1..Len(p)
        BY <4>1, <4>2, <4>3
      <4>4. CASE i = Len(p) + 1 /\ j \in 1..Len(p)
        BY <2>5, <4>2, <4>4
      <4>5. CASE i \in 1..Len(p) /\ j = Len(p) + 1
        BY <2>5, <4>2, <4>5
      <4>6. CASE i = Len(p) + 1 /\ j = Len(p) + 1
        BY <4>6
      <4> QED BY <2>7, <4>3, <4>4, <4>5, <4>6
    <3>5. \A k \in 1..MaxKeys : k > t => got[<<"key", k>>] = 0
      BY <1>1, <1>2, <1>3, <2>1 DEF InputsOK
    <3>6. MousePending' => Together
      BY <1>1, <2>2, <2>6 DEF MousePending
    <3> QED BY <1>1, <1>3, <2>6, <3>1, <3>3, <3>4, <3>5, <3>6 DEF InputsOK
  <2>11. ASSUME NEW k \in 1..MaxKeys, k <= d.typed, \A i \in 1..Len(p) : p[i] # k, NEW i \in 1..Len(q)
         PROVE  q[i] # k
    <3>1. k # t
      BY <1>2, <2>3, <2>11
    <3> QED BY <2>5, <2>7, <2>11, <3>1
  <2>12. device'.typed >= d.typed /\ device'.old <= device'.clicks
    BY <1>2, <2>3, <2>6
  <2>13. \A k \in 1..MaxKeys : k <= device.typed /\ (\A i \in 1..Len(device.keys) : device.keys[i] # k) =>
           \A i \in 1..Len(device'.keys) : device'.keys[i] # k
    BY <1>1, <2>4, <2>6, <2>11
  <2> QED BY <1>1, <1>2, <2>2, <2>6, <2>10, <2>12, <2>13, UserKeeps
<1> QED BY <1>5, <1>6, <1>7, <1>8 DEF User
-----------------------------------------------------------------------------
(***************************************************************************)
(* A poll begins.                                                          *)
(***************************************************************************)
\* What the generators read.
LEMMA ReadIs ==
  ASSUME Inv, NEW c \in BOOLEAN, c = (Down(device.clicks) # Down(device.old)),
         Mouse' = Read, device' = ReadDevice
  PROVE  /\ Mouse' \in [moved : BOOLEAN, changes : BOOLEAN, b : BOOLEAN, click : Nat]
         /\ Mouse'.changes = c /\ Mouse'.click = device.clicks /\ (Mouse'.b <=> Down(device.clicks))
         /\ device' \in Devices /\ device'.under = device.under /\ ~device'.moved /\ ~device'.wheel
         /\ device'.clicks = device.clicks /\ device'.old = device.clicks /\ device'.typed = device.typed
         /\ device'.keys = LaterKeys
         /\ Types \subseteq {"mouse", "key"}
         /\ ("key" \in Types) <=> (device.keys # << >>)
         /\ ("mouse" \in Types) <=> (device.moved \/ c \/ device.wheel)
<1>1. PICK d, b, k : d = device /\ b = Down(device.clicks) /\ k = LaterKeys
  OBVIOUS
<1>2. /\ d \in Devices /\ d.moved \in BOOLEAN /\ d.clicks \in 0..MaxClicks /\ d.clicks \in Nat
      /\ d.keys \in Seq(1..MaxKeys) /\ d.wheel \in BOOLEAN
  BY <1>1, BoundsAssumption DEF Inv, Typed, Devices
<1>3. b \in BOOLEAN
  BY <1>1 DEF Down
<1>4. Mouse' = [moved |-> d.moved, changes |-> c, b |-> b, click |-> d.clicks]
  BY <1>1 DEF Read, Reading
<1>5. k \in Seq(1..MaxKeys)
  <2>1. PICK p : p = d.keys /\ p \in Seq(1..MaxKeys)
    BY <1>2
  <2>2. k = IF p = << >> THEN << >> ELSE Tail(p)
    BY <1>1, <2>1 DEF LaterKeys
  <2>3. p # << >> => Tail(p) \in Seq(1..MaxKeys)
    BY <2>1, HeadTailProperties
  <2>4. << >> \in Seq(1..MaxKeys)
    BY EmptySeq
  <2> QED BY <2>2, <2>3, <2>4
<1>6. device' = [d EXCEPT !.moved = FALSE, !.old = d.clicks, !.wheel = FALSE, !.keys = k]
  BY <1>1 DEF ReadDevice, Remaining
<1>7. /\ device' \in Devices /\ device'.under = d.under /\ ~device'.moved /\ ~device'.wheel
      /\ device'.clicks = d.clicks /\ device'.old = d.clicks /\ device'.typed = d.typed /\ device'.keys = k
  BY <1>2, <1>5, <1>6 DEF Devices
<1>8. Read.moved = d.moved /\ Read.changes = c
  BY <1>1 DEF Read, Reading
<1>9. /\ Types \subseteq {"mouse", "key"}
      /\ ("key" \in Types) <=> (d.keys # << >>)
      /\ ("mouse" \in Types) <=> (d.moved \/ c \/ d.wheel)
  BY <1>1, <1>8 DEF Types
<1> QED BY <1>1, <1>2, <1>3, <1>4, <1>7, <1>9

\* The poll whose handler polls waits, as those below it do.
LEMMA PolledIs ==
  ASSUME Inv, NoBoundary, stack # << >> => Top.busy /\ MayPoll, NEW S, S = Polled
  PROVE  /\ S \in Seq(Frames) /\ Len(S) = Len(stack) /\ (S = << >> <=> stack = << >>)
         /\ \A i \in 1..Len(S) : Waits(S[i])
         /\ MasterWidget # NULL \/ drag.on => Together \/ Mouse.b
<1>1. CASE stack = << >>
  <2>1. ~UpComes /\ ~DropComes
    BY <1>1 DEF UpComes, DropComes, Releases
  <2>2. MasterWidget # NULL \/ drag.on => Together \/ Mouse.b
    BY <2>1 DEF Inv, GrabOK, DragOK
  <2> QED BY <1>1, <2>2 DEF Polled
<1>2. CASE stack # << >>
  <2>1. PICK n, f : n = Len(stack) /\ f = Top
    OBVIOUS
  <2>2. n \in Nat /\ n \in 1..n /\ f = stack[n] /\ f \in Frames /\ stack \in Seq(Frames)
    BY <1>2, <2>1, TopIs DEF Inv, Typed
  <2>3. f.at \in {At["down"], At["up"], At["key"]} /\ f.busy
    <3>1. f.at \in 1..13
      BY <2>2 DEF Frames
    <3> QED BY <1>2, <2>1, <3>1, StageAt, AtIs DEF MayPoll, NoBoundary
  <2>4. MasterWidget # NULL \/ drag.on => Together \/ Mouse.b
    BY <1>2, <2>1, <2>3, ClickedIs
  <2>5. PICK g : g = [f EXCEPT !.polled = TRUE]
    OBVIOUS
  <2>6. g \in Frames /\ Waits(g)
    <3>1. g \in Frames /\ g.polled /\ g.at = f.at /\ g.busy = f.busy
      BY <2>2, <2>5 DEF Frames
    <3> QED BY <2>3, <3>1 DEF Waits
  <2>7. S = [stack EXCEPT ![n] = g]
    BY <1>2, <2>1, <2>2, <2>5 DEF Polled
  <2>8. S \in Seq(Frames) /\ Len(S) = n /\ S[n] = g /\ \A i \in 1..n : i < n => S[i] = stack[i]
    <3>1. S \in Seq(Frames) /\ Len(S) = n
      BY <2>1, <2>2, <2>6, <2>7
    <3>2. S[n] = g /\ \A i \in 1..n : i < n => S[i] = stack[i]
      BY <2>1, <2>2, <2>7
    <3> QED BY <3>1, <3>2
  <2>9. \A i \in 1..n : i < n => Waits(stack[i])
    BY <2>1 DEF Inv, BelowOK
  <2>10. \A i \in 1..n : i < n \/ i = n
    BY <2>2
  <2>11. \A i \in 1..n : Waits(S[i])
    BY <2>6, <2>8, <2>9, <2>10
  <2> QED BY <1>2, <2>1, <2>2, <2>4, <2>8, <2>11
<1> QED BY <1>1, <1>2

\* PollEvents, of the main loop or of a handler, reads the hardware anew.
LEMMA PollEventsStep ==
  ASSUME Inv, NoBoundary, PollEvents
  PROVE  Inv'
<1>1. PICK d, S, T, b, c : /\ d = device /\ S = Polled /\ T = Types /\ b = Down(device.clicks)
                           /\ c = (Down(device.clicks) # Down(device.old))
  OBVIOUS
<1>2. b \in BOOLEAN /\ c \in BOOLEAN
  BY <1>1 DEF Down
<1>3. /\ TopWidget' = TopWidget /\ FocusedWidget' = FocusedWidget /\ MasterWidget' = MasterWidget
      /\ drag' = drag /\ live' = live /\ got' = got /\ Mouse' = Read /\ device' = ReadDevice
      /\ stack # << >> => Top.busy /\ MayPoll
      /\ Len(stack) < MaxDepth
      /\ stack' = IF T = {} THEN S ELSE Append(S, Frame)
  BY <1>1 DEF PollEvents, widgets
<1>4. /\ Mouse' \in [moved : BOOLEAN, changes : BOOLEAN, b : BOOLEAN, click : Nat]
      /\ Mouse'.changes = c /\ Mouse'.click = d.clicks /\ (Mouse'.b <=> b)
      /\ device' \in Devices /\ device'.under = d.under /\ ~device'.moved /\ ~device'.wheel
      /\ device'.clicks = d.clicks /\ device'.old = d.clicks /\ device'.typed = d.typed
      /\ device'.keys = LaterKeys
      /\ T \subseteq {"mouse", "key"}
      /\ ("key" \in T) <=> (d.keys # << >>)
      /\ ("mouse" \in T) <=> (d.moved \/ c \/ d.wheel)
  BY <1>1, <1>2, <1>3, ReadIs
<1>5. /\ S \in Seq(Frames) /\ Len(S) = Len(stack) /\ (S = << >> <=> stack = << >>)
      /\ \A i \in 1..Len(S) : Waits(S[i])
      /\ MasterWidget # NULL \/ drag.on => Together \/ Mouse.b
  BY <1>1, <1>3, PolledIs
<1>6. /\ d.old \in Nat /\ d.clicks \in 0..MaxClicks /\ d.clicks \in Nat /\ d.old <= d.clicks
      /\ d.typed \in 0..MaxKeys /\ d.keys \in Seq(1..MaxKeys) /\ MaxKeys \in Nat /\ MaxClicks \in Nat
      /\ Event \in [type : SUBSET {"mouse", "key"}, message : BOOLEAN, key : 0..MaxKeys]
  BY <1>1, BoundsAssumption DEF Inv, Typed, Devices
<1>7. (d.keys # << >> => Together \/ (~d.moved /\ ~d.wheel /\ d.clicks = d.old /\ ~c)) /\ (c => d.clicks > d.old)
  <2>1. d.clicks = d.old => ~c
    BY <1>1
  <2>2. d.keys # << >> => Together \/ (~d.moved /\ ~d.wheel /\ d.clicks = d.old)
    BY <1>1 DEF Inv, InputsOK, MousePending
  <2>3. c => d.clicks > d.old
    BY <1>6, <2>1
  <2> QED BY <2>1, <2>2, <2>3
<1>8. T = {"mouse", "key"} => Together
  BY <1>4, <1>7
<1>9. PICK k : k = IF d.keys = << >> THEN Event.key ELSE Head(d.keys)
  OBVIOUS
<1>10. k \in 0..MaxKeys
  BY <1>6, <1>9
<1>11. Event' \in [type : SUBSET {"mouse", "key"}, message : BOOLEAN, key : 0..MaxKeys]
       /\ Event'.type = T /\ Event'.key = k
  <2>1. PICK m \in Messages : Event' = [type |-> T, message |-> m, key |-> k]
    BY <1>1, <1>9 DEF PollEvents
  <2>2. m \in BOOLEAN
    BY <1>6 DEF Messages
  <2> QED BY <1>4, <1>10, <2>1, <2>2
<1>12. PICK p, q : p = d.keys /\ q = LaterKeys
  OBVIOUS
<1>13. /\ \A i \in 1..Len(p) : p[i] <= d.typed /\ got[<<"key", p[i]>>] = 0 /\ p[i] \in 1..MaxKeys
       /\ \A i, j \in 1..Len(p) : p[i] = p[j] => i = j
  <2>1. \A i \in 1..Len(p) : p[i] \in 1..MaxKeys
    BY <1>6, <1>12
  <2> QED BY <1>1, <1>12, <2>1 DEF Inv, InputsOK
<1>14. /\ p = << >> => q = << >>
       /\ p # << >> => /\ Len(p) \in Nat /\ Len(q) = Len(p) - 1 /\ 1 \in 1..Len(p) /\ k = p[1]
                       /\ \A i \in 1..Len(q) : i + 1 \in 1..Len(p) /\ q[i] = p[i + 1] /\ i + 1 # 1
  <2>1. p = << >> => q = << >>
    BY <1>1, <1>12 DEF LaterKeys
  <2>2. ASSUME p # << >>
        PROVE  /\ Len(p) \in Nat /\ Len(q) = Len(p) - 1 /\ 1 \in 1..Len(p) /\ k = p[1]
               /\ \A i \in 1..Len(q) : i + 1 \in 1..Len(p) /\ q[i] = p[i + 1] /\ i + 1 # 1
    <3>1. q = Tail(p) /\ k = Head(p) /\ p \in Seq(1..MaxKeys)
      BY <1>1, <1>6, <1>9, <1>12, <2>2 DEF LaterKeys
    <3> QED BY <2>2, <3>1
  <2> QED BY <2>1, <2>2
<1>15. \A i \in 1..Len(q) : q[i] <= d.typed /\ got[<<"key", q[i]>>] = 0
  BY <1>13, <1>14
<1>16. \A i, j \in 1..Len(q) : q[i] = q[j] => i = j
  <2>1. CASE p = << >>
    BY <1>14, <2>1
  <2>2. CASE p # << >>
    <3> SUFFICES ASSUME NEW i \in 1..Len(q), NEW j \in 1..Len(q), q[i] = q[j]
                 PROVE  i = j
      OBVIOUS
    <3>1. i + 1 = j + 1
      BY <1>13, <1>14, <2>2
    <3> QED BY <3>1
  <2> QED BY <2>1, <2>2
<1>17. InputsOK'
  <2>1. InputsOK
    BY DEF Inv
  <2>2. \A x \in 1..MaxClicks : x > d.clicks => got[<<"click", x>>] = 0
    BY <1>1, <1>6, <2>1 DEF InputsOK
  <2>3. ~MousePending'
    BY <1>4 DEF MousePending
  <2> QED BY <1>1, <1>3, <1>4, <1>12, <1>15, <1>16, <2>1, <2>2, <2>3 DEF InputsOK
<1>18. "key" \in T => k \in 1..MaxKeys /\ k <= d.typed /\ got[<<"key", k>>] = 0 /\ \A i \in 1..Len(q) : q[i] # k
  <2> SUFFICES ASSUME p # << >>
               PROVE  k \in 1..MaxKeys /\ k <= d.typed /\ got[<<"key", k>>] = 0 /\ \A i \in 1..Len(q) : q[i] # k
    BY <1>4, <1>12
  <2>1. \A i \in 1..Len(q) : q[i] # k
    BY <1>13, <1>14
  <2> QED BY <1>13, <1>14, <2>1
<1>19. c => got[<<"click", d.clicks>>] = 0
  <2>1. c => d.clicks \in 1..MaxClicks /\ d.clicks > d.old
    BY <1>6, <1>7
  <2> QED BY <1>1, <2>1 DEF Inv, InputsOK
<1>20. PointersOK' /\ ReadOK'
  <2>1. PointersOK'
    BY <1>1, <1>3, <1>4 DEF Inv, PointersOK
  <2> QED BY <1>1, <1>4, <1>8, <1>11, <2>1 DEF ReadOK
<1>21. drag \in [on : BOOLEAN, caller : Widgets \cup {NULL}]
  BY DEF Inv, Typed
<1>22. (MasterWidget # NULL => ~drag.on) /\ (drag.on => drag.caller \in live)
  BY DEF Inv, GrabOK, DragOK
<1>23. c \/ (Mouse.b <=> b)
  <2>1. Mouse.b <=> Down(d.old)
    BY <1>1 DEF Inv, ReadOK
  <2> QED BY <1>1, <2>1
<1>24. CASE T = {}
  <2>1. stack' = S
    BY <1>3, <1>24
  <2>2. Typed'
    <3>1. Len(stack) \in Nat /\ Len(stack) <= MaxDepth
      BY DEF Inv, Typed
    <3> QED BY <1>3, <1>4, <1>5, <1>6, <1>11, <1>21, <2>1, <3>1 DEF Typed
  <2>3. BelowOK'
    BY <1>5, <2>1 DEF BelowOK, Waits
  <2>4. TopOK'
    <3> SUFFICES ASSUME S # << >>
                 PROVE  TopOK'
      BY <2>1 DEF TopOK
    <3>1. PICK g : g = S[Len(S)]
      OBVIOUS
    <3>2. Top' = g
      BY <2>1, <3>1 DEF Top, Last
    <3>3. Waits(g)
      <4>1. Len(S) \in 1..Len(S)
        BY <1>5
      <4> QED BY <1>5, <3>1, <4>1
    <3> QED BY <3>2, <3>3, AtIs DEF TopOK, FrameOK, Waits
  <2>5. ~c
    BY <1>4, <1>24
  <2>6. GrabOK' /\ DragOK'
    BY <1>3, <1>4, <1>5, <1>22, <1>23, <2>5 DEF GrabOK, DragOK
  <2> QED BY <1>17, <1>20, <2>2, <2>3, <2>4, <2>6 DEF Inv
<1>25. CASE T # {}
  <2>1. stack' = Append(S, Frame)
    BY <1>3, <1>25
  <2>2. /\ Frame \in Frames /\ Frame.at = 1 /\ ~Frame.busy /\ ~Frame.polled /\ ~Frame.mouse /\ ~Frame.drag
    BY DEF Frame, Frames
  <2>3. /\ stack' \in Seq(Frames) /\ Len(stack') = Len(S) + 1 /\ Len(S) \in Nat /\ stack'[Len(S) + 1] = Frame
        /\ \A i \in 1..Len(S) : stack'[i] = S[i]
    BY <1>5, <2>1, <2>2
  <2>4. Top' = Frame /\ stack' # << >>
    BY <2>3 DEF Top, Last
  <2>5. Typed'
    <3>1. Len(stack) \in Nat /\ Len(S) + 1 <= MaxDepth
      BY <1>3, <1>5, <2>3, BoundsAssumption DEF Inv, Typed
    <3> QED BY <1>3, <1>4, <1>6, <1>11, <1>21, <2>3, <3>1 DEF Typed
  <2>6. BelowOK'
    BY <1>5, <2>3 DEF BelowOK, Waits
  <2>7. TopOK'
    <3>1. FrameOK(Frame)'
      BY <2>2, AtIs DEF FrameOK, Waits
    <3>2. Own(Frame)'
      BY <2>2, AtIs DEF Own
    <3>3. OwnInput(Frame)'
      <4>1. "key" \in T => k \in 1..MaxKeys /\ k <= d.typed /\ got[<<"key", k>>] = 0 /\ \A i \in 1..Len(q) : q[i] # k
        BY <1>18
      <4> QED BY <1>3, <1>4, <1>11, <1>12, <1>19, <4>1 DEF OwnInput, Pressed, Released
    <3> QED BY <2>4, <3>1, <3>2, <3>3 DEF TopOK, FrameOK, Waits, Own, OwnInput, Pressed, Released
  <2>8. Mouse.b => Together \/ Mouse'.b \/ (Released' /\ T = {"mouse"})
    <3>1. Mouse.b /\ ~b => c
      BY <1>23
    <3>2. c => Together \/ T = {"mouse"}
      BY <1>4, <1>8
    <3> QED BY <1>2, <1>4, <3>1, <3>2 DEF Released
  <2>9. GrabOK' /\ DragOK'
    BY <1>3, <1>5, <1>11, <1>22, <2>2, <2>4, <2>8, AtIs DEF GrabOK, DragOK, UpComes, DropComes, Releases
  <2> QED BY <1>17, <1>20, <2>5, <2>6, <2>7, <2>9 DEF Inv
<1> QED BY <1>24, <1>25
-----------------------------------------------------------------------------
(***************************************************************************)
(* HandleEvent.                                                            *)
(***************************************************************************)
\* The system handler takes a key, and the poll returns (HandleEvent, events.c).
LEMMA SystemKeyStep ==
  ASSUME Inv, SystemKey
  PROVE  Inv'
<1>1. PICK k : k = Event.key
  OBVIOUS
<1>2. stack # << >> /\ Stage[Top.at] = "system" /\ "key" \in Event.type
  BY DEF SystemKey, InStage
<1>3. Top.at = 1 /\ Top \in Frames
  <2>1. Top \in Frames
    BY <1>2, TopIs DEF Inv, Typed
  <2>2. Top.at \in 1..13
    BY <2>1 DEF Frames
  <2> QED BY <1>2, <2>1, <2>2, StageAt
<1>4. Event \in [type : SUBSET {"mouse", "key"}, message : BOOLEAN, key : 0..MaxKeys]
  BY DEF Inv, Typed
<1>5. ~Top.polled /\ OwnInput(Top)
  BY <1>2, <1>3, AtIs DEF Inv, TopOK, FrameOK
<1>6. /\ k \in 1..MaxKeys /\ k <= device.typed /\ got[<<"key", k>>] = 0
      /\ \A i \in 1..Len(device.keys) : device.keys[i] # k
  BY <1>1, <1>2, <1>3, <1>5, AtIs DEF OwnInput
<1>7. /\ device' = device /\ Mouse' = Mouse /\ TopWidget' = TopWidget /\ FocusedWidget' = FocusedWidget
      /\ MasterWidget' = MasterWidget /\ drag' = drag /\ live' = live /\ stack' = Front(stack)
      /\ Event' = [Event EXCEPT !.type = {}] /\ Counted(<<"key", k>>)
  BY <1>1 DEF SystemKey, widgets
<1>8. Event' \in [type : SUBSET {"mouse", "key"}, message : BOOLEAN, key : 0..MaxKeys] /\ Event'.type = {}
  BY <1>4, <1>7
<1>9. got' \in [Inputs -> 0..1] /\ \A j \in Inputs : j # <<"key", k>> => got'[j] = got[j]
  BY <1>6, <1>7, CountedIs DEF Inv, InputsOK
<1>10. stack' \in Seq(Frames) /\ Len(stack') <= MaxDepth /\ BelowOK' /\ TopOK'
  BY <1>2, <1>7, PopKeeps DEF Inv
<1>11. Typed' /\ PointersOK' /\ ReadOK'
  BY <1>7, <1>8, <1>10 DEF Inv, Typed, PointersOK, ReadOK
<1>12. InputsOK'
  BY <1>6, <1>7, <1>9, KeyHandled DEF Inv, Typed
<1>13. ~UpComes /\ ~DropComes
  BY <1>2 DEF UpComes, DropComes, Releases
<1>14. GrabOK' /\ DragOK'
  BY <1>7, <1>13 DEF Inv, GrabOK, DragOK
<1> QED BY <1>10, <1>11, <1>12, <1>14 DEF Inv

\* WidgetEventHandler begins and finds the widget under the mouse.
LEMMA WidgetEventHandlerStep ==
  ASSUME Inv, WidgetEventHandler
  PROVE  Inv'
<1>1. PICK f, m, o : /\ f = Top /\ m = (Event.type = {"mouse"})
                     /\ o = IF MasterWidget # NULL THEN MasterWidget ELSE device.under
  OBVIOUS
<1>2. stack # << >> /\ f \in Frames /\ f.at = 1 /\ m \in BOOLEAN
  <2>1. stack # << >> /\ Stage[f.at] = "system"
    BY <1>1 DEF WidgetEventHandler, InStage
  <2>2. f \in Frames
    BY <1>1, <2>1, TopIs DEF Inv, Typed
  <2>3. f.at \in 1..13
    BY <2>2 DEF Frames
  <2> QED BY <1>1, <2>1, <2>2, <2>3, StageAt
<1>3. PICK x : x = (m /\ TopWidget # o)
  OBVIOUS
<1>4. PICK g : g = [f EXCEPT !.at = At["begin"], !.mouse = m, !.drag = drag.on, !.crossed = x, !.old = TopWidget]
  OBVIOUS
<1>5. /\ device' = device /\ Event' = Event /\ Mouse' = Mouse /\ FocusedWidget' = FocusedWidget
      /\ MasterWidget' = MasterWidget /\ drag' = drag /\ live' = live /\ got' = got
      /\ TopWidget' = (IF m THEN o ELSE TopWidget) /\ Here(g)
  BY <1>1, <1>3, <1>4 DEF WidgetEventHandler, Here
<1>6. /\ drag \in [on : BOOLEAN, caller : Widgets \cup {NULL}]
      /\ {TopWidget, FocusedWidget, MasterWidget} \subseteq live \cup {NULL} /\ live \subseteq Widgets
      /\ device.under \in live /\ NULL \notin Widgets
  BY DeskTopAssumption DEF Inv, Typed, PointersOK
<1>7. o \in live
  BY <1>1, <1>6
<1>8. /\ g \in Frames /\ g.at = 2 /\ (g.mouse <=> m) /\ g.drag = drag.on /\ g.old = TopWidget
      /\ g.busy = f.busy /\ g.polled = f.polled
  <2>1. x \in BOOLEAN /\ drag.on \in BOOLEAN /\ TopWidget \in Widgets \cup {NULL}
    BY <1>2, <1>3, <1>6
  <2>2. PICK dr, t : dr = drag.on /\ t = TopWidget
    OBVIOUS
  <2>3. g = [f EXCEPT !.at = 2, !.mouse = m, !.drag = dr, !.crossed = x, !.old = t]
    BY <1>4, <2>2, AtIs
  <2>4. g \in Frames
    <3>1. f.busy \in BOOLEAN /\ f.polled \in BOOLEAN /\ f.target \in Widgets \cup {NULL}
      BY <1>2 DEF Frames
    <3>2. g = [at |-> 2, busy |-> f.busy, polled |-> f.polled, mouse |-> m, drag |-> dr,
               crossed |-> x, old |-> t, target |-> f.target]
      BY <1>2, <2>3 DEF Frames
    <3>3. dr \in BOOLEAN /\ x \in BOOLEAN /\ t \in Widgets \cup {NULL}
      BY <2>1, <2>2
    <3> QED BY <1>2, <3>1, <3>2, <3>3 DEF Frames
  <2>5. g.at = 2 /\ g.mouse = m /\ g.drag = dr /\ g.old = t /\ g.busy = f.busy /\ g.polled = f.polled
    BY <1>2, <2>3 DEF Frames
  <2> QED BY <1>2, <2>2, <2>4, <2>5
<1>9. ~f.busy /\ ~f.polled /\ OwnInput(f)
  BY <1>1, <1>2, AtIs DEF Inv, TopOK, FrameOK
<1>10. FrameOK(g)'
  BY <1>5, <1>6, <1>8, <1>9, AtIs DEF FrameOK, Waits
<1>11. Own(g)'
  <2>1. (g.mouse <=> Event'.type = {"mouse"}) /\ (g.mouse => TopWidget' # NULL) /\ (g.drag => drag'.on)
    BY <1>1, <1>5, <1>6, <1>7, <1>8
  <2> QED BY <1>8, <2>1, AtIs DEF Own
<1>12. OwnInput(g)'
  BY <1>2, <1>5, <1>8, <1>9, AtIs DEF OwnInput, Pressed, Released
<1>13. stack' \in Seq(Frames) /\ Len(stack') <= MaxDepth /\ stack' # << >> /\ Top' = g /\ BelowOK' /\ TopOK'
  BY <1>2, <1>5, <1>8, <1>10, <1>11, <1>12, HereKeeps DEF Inv
<1>14. Typed' /\ PointersOK' /\ ReadOK' /\ InputsOK'
  BY <1>5, <1>6, <1>7, <1>13 DEF Inv, Typed, PointersOK, ReadOK, InputsOK, MousePending
<1>15. UpComes /\ MasterWidget # NULL => UpComes'
  <2>1. UpComes => Releases /\ m
    BY <1>1 DEF UpComes, Releases
  <2>2. Releases => Releases'
    BY <1>5, <1>8, <1>9, <1>13 DEF Releases, Released
  <2>3. m /\ MasterWidget # NULL => TopWidget' = MasterWidget'
    BY <1>1, <1>5
  <2> QED BY <1>8, <1>13, <2>1, <2>2, <2>3, AtIs DEF UpComes
<1>16. DropComes /\ drag.on => DropComes'
  <2>1. Releases => Releases'
    BY <1>5, <1>8, <1>9, <1>13 DEF Releases, Released
  <2>2. drag.on => g.drag /\ g.at < At["drop"]
    BY <1>8, AtIs
  <2>3. DropComes => Releases
    BY DEF DropComes
  <2> QED BY <1>13, <2>1, <2>2, <2>3 DEF DropComes
<1>17. GrabOK' /\ DragOK'
  BY <1>5, <1>15, <1>16 DEF Inv, GrabOK, DragOK
<1> QED BY <1>13, <1>14, <1>17 DEF Inv

\* The widget a handler is called of.
LEMMA TargetIs ==
  ASSUME NEW s \in Sends, NEW f, Used(f, s) \subseteq live, NEW t, t = CHOOSE w \in Used(f, s) : TRUE
  PROVE  t \in live /\ (s = "up" => t = TopWidget)
<1>1. s \notin {"drop", "afterdrop", "return"}
  BY DEF Sends
<1>2. /\ s = "left" => Used(f, s) = {f.old}
      /\ s = "key" => Used(f, s) = {FocusedWidget}
      /\ s \notin {"left", "key"} => Used(f, s) = {TopWidget}
  BY <1>1 DEF Used
<1>3. t \in Used(f, s)
  BY <1>2
<1> QED BY <1>2, <1>3

\* What a step of WidgetSendSEvent counts, it counts once.
LEMMA SendCounts ==
  ASSUME Inv, NEW s \in Sends, Send(s)
  PROVE  /\ InputsOK'
         /\ \/ got' = got /\ s \notin {"key", "down", "up"}
            \/ s = "key" /\ \A c : <<"click", c>> \in Inputs => got'[<<"click", c>>] = got[<<"click", c>>]
            \/ s \in {"down", "up"} /\ \A k : <<"key", k>> \in Inputs => got'[<<"key", k>>] = got[<<"key", k>>]
<1>1. PICK f : f = Top
  OBVIOUS
<1>2. /\ Comes(s) /\ device' = device
      /\ IF s \in {"key", "down", "up"} THEN Counted(Input(s)) ELSE got' = got
  BY DEF Send
<1>3. f \in Frames /\ At[s] > f.at /\ Due(f, s) /\ OwnInput(f)
  <2>1. s # "return"
    BY DEF Sends
  <2> QED BY <1>1, <1>2, <2>1, ComesIs
<1>4. InputsOK /\ got \in [Inputs -> 0..1] /\ device \in Devices /\ Mouse.click = device.old
  BY DEF Inv, Typed, InputsOK, ReadOK
<1>5. CASE s = "key"
  <2>1. PICK k : k = Event.key
    OBVIOUS
  <2>2. Counted(<<"key", k>>)
    BY <1>2, <1>5, <2>1 DEF Input
  <2>3. Event.type = {"key"} /\ f.at < At["key"]
    <3>1. f.at \in 1..13
      BY <1>3 DEF Frames
    <3> QED BY <1>3, <1>5, <3>1, DueIs, AtIs
  <2>4. /\ k \in 1..MaxKeys /\ k <= device.typed /\ got[<<"key", k>>] = 0
        /\ \A i \in 1..Len(device.keys) : device.keys[i] # k
    BY <1>3, <2>1, <2>3 DEF OwnInput
  <2>5. got' \in [Inputs -> 0..1] /\ \A j \in Inputs : j # <<"key", k>> => got'[j] = got[j]
    BY <1>4, <2>2, <2>4, CountedIs
  <2>6. InputsOK'
    BY <1>2, <1>4, <2>4, <2>5, KeyHandled
  <2> QED BY <1>5, <2>5, <2>6, InputIs
<1>6. CASE s \in {"down", "up"}
  <2>1. PICK x : x = Mouse.click
    OBVIOUS
  <2>2. Counted(<<"click", x>>)
    BY <1>2, <1>6, <2>1 DEF Input
  <2>3. got[<<"click", x>>] = 0
    <3>1. f.at \in 1..13
      BY <1>3 DEF Frames
    <3>2. CASE s = "down"
      BY <1>3, <2>1, <3>1, <3>2, DueIs, AtIs DEF OwnInput
    <3>3. CASE s = "up"
      BY <1>3, <2>1, <3>1, <3>3, DueIs, AtIs DEF OwnInput
    <3> QED BY <1>6, <3>2, <3>3
  <2>4. got' \in [Inputs -> 0..1] /\ \A j \in Inputs : j # <<"click", x>> => got'[j] = got[j]
    BY <1>4, <2>2, <2>3, CountedIs
  <2>5. InputsOK'
    BY <1>2, <1>4, <2>1, <2>4, ClickHandled
  <2> QED BY <1>6, <2>4, <2>5, InputIs
<1>7. CASE s \notin {"key", "down", "up"}
  <2>1. got' = got
    BY <1>2, <1>7
  <2>2. InputsOK'
    BY <1>2, <1>4, <2>1, InputsStay
  <2> QED BY <1>7, <2>1, <2>2
<1> QED BY <1>5, <1>6, <1>7

\* WidgetSendSEvent calls a handler.
LEMMA SendStep ==
  ASSUME Inv, NEW s \in Sends, Send(s)
  PROVE  Inv'
<1>1. PICK f, t, a : f = Top /\ t = (CHOOSE w \in Used(f, s) : TRUE) /\ a = At[s]
  OBVIOUS
<1>2. /\ device' = device /\ Event' = Event /\ Mouse' = Mouse /\ TopWidget' = TopWidget
      /\ FocusedWidget' = FocusedWidget /\ drag' = drag /\ live' = live
      /\ Comes(s) /\ Used(f, s) \subseteq live
      /\ MasterWidget' = IF s = "up" /\ t = MasterWidget THEN NULL ELSE MasterWidget
  BY <1>1 DEF Send
<1>3. /\ stack # << >> /\ f \in Frames /\ f.at \in 1..13 /\ f.at > 1 /\ a \in 1..13 /\ a > f.at
      /\ Due(f, s) /\ ~f.polled /\ Own(f) /\ OwnInput(f)
  <2>1. s # "return"
    BY DEF Sends
  <2>2. f \in Frames
    BY <1>1, <1>2, ComesIs
  <2> QED BY <1>1, <1>2, <2>1, <2>2, ComesIs DEF Frames
<1>4. t \in live /\ t \in Widgets /\ (s = "up" => t = TopWidget)
  <2>1. live \subseteq Widgets
    BY DEF Inv, PointersOK
  <2> QED BY <1>1, <1>2, <2>1, TargetIs
<1>5. PICK g : g = [f EXCEPT !.at = a, !.busy = TRUE, !.polled = FALSE, !.target = t]
  OBVIOUS
<1>6. Here(g)
  BY <1>1, <1>5 DEF Send, Here
<1>7. g \in Frames /\ g.at = a /\ g.busy /\ ~g.polled /\ g.target = t /\ g.mouse = f.mouse /\ g.drag = f.drag
  BY <1>3, <1>4, <1>5 DEF Frames
<1>8. InputsOK' /\ \/ got' = got /\ s \notin {"key", "down", "up"}
                   \/ s = "key" /\ \A c : <<"click", c>> \in Inputs => got'[<<"click", c>>] = got[<<"click", c>>]
                   \/ s \in {"down", "up"} /\ \A k : <<"key", k>> \in Inputs => got'[<<"key", k>>] = got[<<"key", k>>]
  BY SendCounts
<1>9. FrameOK(g)'
  BY <1>2, <1>3, <1>4, <1>7, AtIs DEF FrameOK, Waits
<1>10. /\ (a = 9) <=> (s = "down")
       /\ (a = 10) <=> (s = "up")
       /\ (a = 13) <=> (s = "key")
       /\ a \notin {7, 8, 11, 12}
  BY <1>1, AtIs DEF Sends
<1>11. /\ s = "down" => ~f.drag /\ Pressed
       /\ s = "up" => ~f.drag /\ Released
       /\ s = "key" => Event.type = {"key"}
  BY <1>3, DueIs
<1>12. Own(g)'
  BY <1>2, <1>3, <1>7, <1>10, <1>11, AtIs DEF Own, Pressed
<1>13. OwnInput(g)'
  <2>1. "key" \in Event.type /\ a < 13 =>
          /\ Event.key \in 1..MaxKeys /\ Event.key <= device.typed /\ got'[<<"key", Event.key>>] = 0
          /\ \A i \in 1..Len(device.keys) : device.keys[i] # Event.key
    <3> SUFFICES ASSUME "key" \in Event.type, a < 13
                 PROVE  /\ Event.key \in 1..MaxKeys /\ Event.key <= device.typed
                        /\ got'[<<"key", Event.key>>] = 0
                        /\ \A i \in 1..Len(device.keys) : device.keys[i] # Event.key
      OBVIOUS
    <3>1. /\ Event.key \in 1..MaxKeys /\ Event.key <= device.typed /\ got[<<"key", Event.key>>] = 0
          /\ \A i \in 1..Len(device.keys) : device.keys[i] # Event.key
      BY <1>3, AtIs DEF OwnInput
    <3>2. s # "key"
      BY <1>10
    <3>3. <<"key", Event.key>> \in Inputs
      BY <3>1, InputIs
    <3>4. got'[<<"key", Event.key>>] = got[<<"key", Event.key>>]
      BY <1>8, <3>2, <3>3
    <3> QED BY <3>1, <3>4
  <2>2. (Pressed /\ a < 9) \/ (Released /\ a < 10) => got'[<<"click", Mouse.click>>] = 0
    <3>1. (Pressed /\ a < 9) \/ (Released /\ a < 10) => got' = got
      BY <1>8, <1>10, <1>11, <1>3 DEF Pressed, Released
    <3>2. (Pressed /\ a < 9) \/ (Released /\ a < 10) => got[<<"click", Mouse.click>>] = 0
      BY <1>3, AtIs DEF OwnInput
    <3> QED BY <3>1, <3>2
  <2> QED BY <1>2, <1>7, <2>1, <2>2, AtIs DEF OwnInput, Pressed, Released
<1>14. stack' \in Seq(Frames) /\ Len(stack') <= MaxDepth /\ stack' # << >> /\ Top' = g /\ BelowOK' /\ TopOK'
  BY <1>3, <1>6, <1>7, <1>9, <1>12, <1>13, HereKeeps DEF Inv
<1>15. Typed' /\ PointersOK' /\ ReadOK'
  <2>1. MasterWidget' \in live \cup {NULL}
    BY <1>2 DEF Inv, PointersOK
  <2> QED BY <1>2, <1>14, <2>1 DEF Inv, Typed, PointersOK, ReadOK
<1>16. ASSUME MasterWidget' # NULL, UpComes
       PROVE  UpComes'
  <2>1. /\ Released /\ Event.type = {"mouse"} /\ f.at < 10 /\ TopWidget = MasterWidget
        /\ MasterWidget' = MasterWidget
    BY <1>1, <1>2, <1>3, <1>16, AtIs DEF UpComes, Releases
  <2>2. s # "up"
    BY <1>2, <1>4, <1>16, <2>1
  <2>3. f.mouse /\ ~f.drag
    <3>1. ~drag.on
      BY <1>2, <1>16 DEF Inv, GrabOK
    <3>2. f.mouse
      BY <1>3, <2>1, AtIs DEF Own
    <3>3. f.at < At["drop"]
      BY <1>3, <2>1, AtIs DEF Frames
    <3> QED BY <1>3, <2>1, <3>1, <3>2, <3>3 DEF Own
  <2>4. a < 10
    BY <1>1, <1>3, <1>10, <1>11, <2>1, <2>2
  <2> QED BY <1>2, <1>7, <1>14, <2>1, <2>4, AtIs DEF UpComes, Releases, Released
<1>17. ASSUME DropComes
       PROVE  DropComes'
  <2>1. Released /\ Event.type = {"mouse"}
    BY <1>17 DEF DropComes, Releases
  <2>2. a < 13
    BY <1>3, <1>10, <1>11, <2>1
  <2>3. f.drag /\ a < 11
    <3>1. a < 11
      BY <1>3, <1>10, <2>2
    <3> QED BY <1>1, <1>3, <1>17, <3>1, AtIs DEF DropComes
  <2> QED BY <1>2, <1>7, <1>14, <2>1, <2>3, AtIs DEF DropComes, Releases, Released
<1>18. GrabOK' /\ DragOK'
  BY <1>2, <1>16, <1>17 DEF Inv, GrabOK, DragOK
<1> QED BY <1>8, <1>14, <1>15, <1>18 DEF Inv

\* A poll with nothing left to do returns; a release has not gone by.
LEMMA ReturnStep ==
  ASSUME Inv, Return
  PROVE  Inv'
<1>1. PICK f : f = Top
  OBVIOUS
<1>2. /\ device' = device /\ Event' = Event /\ Mouse' = Mouse /\ TopWidget' = TopWidget
      /\ FocusedWidget' = FocusedWidget /\ MasterWidget' = MasterWidget /\ drag' = drag /\ live' = live
      /\ got' = got /\ Comes("return") /\ stack' = Front(stack)
  BY DEF Return, widgets
<1>3. stack # << >> /\ f \in Frames /\ f.at > 1 /\ \A t \in Names : At[t] > f.at => ~Due(f, t)
  BY <1>1, <1>2, ComesIs
<1>4. ~f.polled => Own(f)
  BY <1>1, <1>3 DEF Inv, TopOK
<1>5. stack' \in Seq(Frames) /\ Len(stack') <= MaxDepth /\ BelowOK' /\ TopOK'
  BY <1>2, <1>3, PopKeeps DEF Inv
<1>6. Typed' /\ PointersOK' /\ ReadOK' /\ InputsOK'
  BY <1>2, <1>5 DEF Inv, Typed, PointersOK, ReadOK, InputsOK, MousePending
<1>7. ASSUME MasterWidget # NULL
      PROVE  ~UpComes
  <2> SUFFICES ASSUME UpComes
               PROVE  FALSE
    OBVIOUS
  <2>1. /\ Released /\ Event.type = {"mouse"} /\ f.at < 10 /\ TopWidget = MasterWidget /\ Own(f)
    BY <1>1, <1>3, <1>4, AtIs DEF UpComes, Releases
  <2>2. f.mouse /\ ~f.drag
    <3>1. ~drag.on
      BY <1>7 DEF Inv, GrabOK
    <3>2. f.mouse
      BY <1>3, <2>1, AtIs DEF Own
    <3>3. f.at < At["drop"]
      BY <1>3, <2>1, AtIs DEF Frames
    <3> QED BY <1>3, <2>1, <3>1, <3>2, <3>3 DEF Own
  <2>3. Due(f, "up")
    BY <1>3, <1>7, <2>1, <2>2, DueIs
  <2> QED BY <1>3, <2>1, <2>3, AtIs DEF Names
<1>8. ~DropComes
  <2> SUFFICES ASSUME DropComes
               PROVE  FALSE
    OBVIOUS
  <2>1. Released /\ Event.type = {"mouse"} /\ Own(f)
    BY <1>1, <1>4 DEF DropComes, Releases
  <2>2. f.mouse
    BY <1>3, <2>1, AtIs DEF Own
  <2>3. \/ f.drag /\ f.at < 11
        \/ f.at = 11 /\ f.target # NULL
    BY <1>1, <1>3, AtIs DEF DropComes
  <2>4. Due(f, "drop") \/ f.at = 11
    BY <1>3, <2>1, <2>2, <2>3, DueIs
  <2>5. f.at = 11 => Due(f, "afterdrop")
    BY <1>3, <2>3, DueIs, AtIs
  <2> QED BY <1>3, <2>3, <2>4, <2>5, AtIs DEF Names
<1>9. GrabOK' /\ DragOK'
  BY <1>2, <1>7, <1>8 DEF Inv, GrabOK, DragOK
<1> QED BY <1>5, <1>6, <1>9 DEF Inv
-----------------------------------------------------------------------------
(***************************************************************************)
(* The handlers.                                                           *)
(***************************************************************************)
\* A handler returns: its poll does so too, or goes on.
LEMMA BackIs ==
  ASSUME Inv, NoBoundary, NEW r \in BOOLEAN, Back(r), NEW f, f = Top
  PROVE  /\ stack # << >> /\ f \in Frames /\ f.at \in 1..13 /\ f.at > 2 /\ f.busy
         /\ Event' = Event /\ Mouse' = Mouse /\ got' = got
         /\ FrameOK(f) /\ (~f.polled => Own(f) /\ OwnInput(f))
         /\ f.polled => f.at \in {9, 10, 13}
         /\ \/ stack' = Front(stack) /\ f.at \in {9, 10}
            \/ Here([f EXCEPT !.busy = FALSE]) /\ (f.polled => f.at = 13)
<1>1. /\ stack # << >> /\ f.busy /\ Event' = Event /\ Mouse' = Mouse /\ got' = got
      /\ f.polled => r
      /\ IF r /\ Stage[f.at] \in {"down", "up"} THEN stack' = Front(stack)
         ELSE Here([f EXCEPT !.busy = FALSE])
  BY DEF Back, NoBoundary, Here
<1>2. f \in Frames /\ f.at \in 1..13
  BY <1>1, TopIs DEF Inv, Typed, Frames
<1>3. FrameOK(f) /\ (~f.polled => Own(f) /\ OwnInput(f))
  BY <1>1 DEF Inv, TopOK
<1>4. f.at > 2 /\ (f.polled => f.at \in {9, 10, 13})
  BY <1>1, <1>2, <1>3, AtIs DEF FrameOK, Waits
<1>5. Stage[f.at] \in {"down", "up"} <=> f.at \in {9, 10}
  BY <1>2, StageAt
<1>6. CASE r /\ f.at \in {9, 10}
  BY <1>1, <1>2, <1>3, <1>4, <1>5, <1>6
<1>7. CASE ~(r /\ f.at \in {9, 10})
  <2>1. Here([f EXCEPT !.busy = FALSE])
    BY <1>1, <1>5, <1>7
  <2>2. f.polled => f.at = 13
    BY <1>1, <1>4, <1>7
  <2> QED BY <1>1, <1>2, <1>3, <1>4, <2>1, <2>2
<1> QED BY <1>6, <1>7

\* The handler of a click or a key returns, having done what the pointers tell.
LEMMA ClickedBack ==
  ASSUME Inv, NoBoundary, NEW r \in BOOLEAN, Back(r), Top.at \in {At["down"], At["up"], At["key"]},
         device' \in Devices, device'.moved = device.moved, device'.clicks = device.clicks,
         device'.old = device.old, device'.wheel = device.wheel, device'.typed = device.typed,
         device'.keys = device.keys, PointersOK', drag' \in [on : BOOLEAN, caller : Widgets \cup {NULL}],
         MasterWidget' # NULL => ~drag'.on /\ (Together \/ Mouse.b),
         drag'.on => drag'.caller \in live' /\ (Together \/ Mouse.b)
  PROVE  Inv'
<1>1. PICK f : f = Top
  OBVIOUS
<1>2. /\ stack # << >> /\ f \in Frames /\ f.at \in 1..13 /\ f.busy
      /\ Event' = Event /\ Mouse' = Mouse /\ got' = got
      /\ ~f.polled => Own(f) /\ OwnInput(f)
      /\ \/ stack' = Front(stack)
         \/ Here([f EXCEPT !.busy = FALSE]) /\ (f.polled => f.at = 13)
  BY <1>1, BackIs
<1>3. f.at \in {9, 10, 13}
  BY <1>1, AtIs
<1>4. ReadOK' /\ InputsOK' /\ GrabOK' /\ DragOK'
  <2>1. InputsOK'
    BY <1>2, InputsStay DEF Inv
  <2>2. ReadOK'
    BY <1>2 DEF Inv, ReadOK
  <2> QED BY <1>2, <2>1, <2>2 DEF GrabOK, DragOK
<1>5. stack' \in Seq(Frames) /\ Len(stack') <= MaxDepth /\ BelowOK' /\ TopOK'
  <2>1. CASE stack' = Front(stack)
    BY <1>2, <2>1, PopKeeps DEF Inv
  <2>2. CASE Here([f EXCEPT !.busy = FALSE]) /\ (f.polled => f.at = 13)
    <3>1. PICK g : g = [f EXCEPT !.busy = FALSE]
      OBVIOUS
    <3>2. /\ g \in Frames /\ ~g.busy /\ g.at = f.at /\ g.polled = f.polled /\ g.mouse = f.mouse
          /\ g.drag = f.drag
      BY <1>2, <3>1 DEF Frames
    <3>3. Here(g)
      BY <2>2, <3>1 DEF Here
    <3>4. FrameOK(g)'
      BY <1>3, <2>2, <3>2, AtIs DEF FrameOK, Waits
    <3>5. ~g.polled => Own(g)' /\ OwnInput(g)'
      <4>1. ~f.polled => Own(g)'
        BY <1>2, <1>3, <3>2, AtIs DEF Own, Pressed
      <4>2. ~f.polled => OwnInput(g)'
        BY <1>2, <3>2 DEF OwnInput, Pressed, Released
      <4> QED BY <3>2, <4>1, <4>2
    <3> QED BY <1>2, <3>2, <3>3, <3>4, <3>5, HereKeeps DEF Inv
  <2> QED BY <1>2, <2>1, <2>2
<1>6. Typed'
  BY <1>2, <1>5 DEF Inv, Typed
<1> QED BY <1>4, <1>5, <1>6 DEF Inv

\* A handler that changes no pointer.
LEMMA HandlerReturnsStep ==
  ASSUME Inv, NoBoundary, HandlerReturns
  PROVE  Inv'
<1>1. PICK r \in BOOLEAN : Back(r)
  BY DEF HandlerReturns
<1>2. PICK f : f = Top
  OBVIOUS
<1>3. /\ device' = device /\ TopWidget' = TopWidget /\ FocusedWidget' = FocusedWidget
      /\ MasterWidget' = MasterWidget /\ drag' = drag /\ live' = live
  BY DEF HandlerReturns, widgets
<1>4. /\ stack # << >> /\ f \in Frames /\ f.at \in 1..13 /\ f.at > 2 /\ f.busy
      /\ Event' = Event /\ Mouse' = Mouse /\ got' = got
      /\ FrameOK(f) /\ (~f.polled => Own(f) /\ OwnInput(f))
      /\ f.polled => f.at \in {9, 10, 13}
      /\ \/ stack' = Front(stack) /\ f.at \in {9, 10}
         \/ Here([f EXCEPT !.busy = FALSE]) /\ (f.polled => f.at = 13)
  BY <1>1, <1>2, BackIs
<1>5. PointersOK'
  BY <1>3 DEF Inv, PointersOK
<1>6. CASE f.at \in {9, 10, 13}
  <2>1. Top.at \in {At["down"], At["up"], At["key"]}
    BY <1>2, <1>6, AtIs
  <2>2. /\ MasterWidget' # NULL => ~drag'.on /\ (Together \/ Mouse.b)
        /\ drag'.on => drag'.caller \in live' /\ (Together \/ Mouse.b)
    BY <1>3, <1>4, <2>1, ClickedIs DEF Inv, GrabOK, DragOK
  <2>3. device' \in Devices /\ drag' \in [on : BOOLEAN, caller : Widgets \cup {NULL}]
    BY <1>3 DEF Inv, Typed
  <2> QED BY <1>1, <1>3, <1>5, <2>1, <2>2, <2>3, ClickedBack
<1>7. CASE f.at \notin {9, 10, 13}
  <2>1. ~f.polled /\ Here([f EXCEPT !.busy = FALSE])
    BY <1>4, <1>7
  <2>2. PICK g : g = [f EXCEPT !.busy = FALSE]
    OBVIOUS
  <2>3. /\ g \in Frames /\ ~g.busy /\ g.at = f.at /\ ~g.polled /\ g.mouse = f.mouse
        /\ g.drag = f.drag /\ g.target = f.target
    BY <1>4, <2>1, <2>2 DEF Frames
  <2>4. Here(g)
    BY <2>1, <2>2 DEF Here
  <2>5. FrameOK(g)'
    BY <1>4, <2>3, AtIs DEF FrameOK, Waits
  <2>6. Own(g)' /\ OwnInput(g)'
    <3>1. Own(g)'
      BY <1>3, <1>4, <2>1, <2>3 DEF Own, Pressed
    <3>2. OwnInput(g)'
      BY <1>3, <1>4, <2>1, <2>3 DEF OwnInput, Pressed, Released
    <3> QED BY <3>1, <3>2
  <2>7. stack' \in Seq(Frames) /\ Len(stack') <= MaxDepth /\ stack' # << >> /\ Top' = g /\ BelowOK' /\ TopOK'
    BY <1>4, <2>3, <2>4, <2>5, <2>6, HereKeeps DEF Inv
  <2>8. Typed' /\ ReadOK' /\ InputsOK'
    BY <1>3, <1>4, <2>7 DEF Inv, Typed, ReadOK, InputsOK, MousePending
  <2>9. (UpComes => UpComes') /\ (DropComes => DropComes')
    <3>1. Releases => Releases'
      BY <1>2, <1>4, <2>1, <2>3, <2>7 DEF Releases, Released
    <3>2. UpComes => UpComes'
      BY <1>2, <1>3, <2>3, <2>7, <3>1 DEF UpComes
    <3>3. DropComes => DropComes'
      BY <1>2, <1>3, <2>3, <2>7, <3>1 DEF DropComes
    <3> QED BY <3>2, <3>3
  <2>10. GrabOK' /\ DragOK'
    BY <1>3, <1>4, <2>9 DEF Inv, GrabOK, DragOK
  <2> QED BY <1>5, <2>7, <2>8, <2>10 DEF Inv
<1> QED BY <1>6, <1>7

\* The stage of a click or a key, by its place.
LEMMA ClickedAt ==
  ASSUME Inv, stack # << >>, Stage[Top.at] \in Clicked
  PROVE  Top.at \in {At["down"], At["up"], At["key"]}
<1>1. Top.at \in 1..13
  BY TopIs DEF Inv, Typed, Frames
<1> QED BY <1>1, StageAt, AtIs DEF Clicked

\* A handler that moves the focus.
LEMMA HandlerFocusesStep ==
  ASSUME Inv, NoBoundary, HandlerFocuses
  PROVE  Inv'
<1>1. /\ Back(TRUE) /\ stack # << >> /\ device' = device /\ TopWidget' = TopWidget
      /\ MasterWidget' = MasterWidget /\ drag' = drag /\ live' = live /\ FocusedWidget' \in live
      /\ Top.at \in {At["down"], At["up"], At["key"]}
  BY ClickedAt DEF HandlerFocuses, Back
<1>2. PointersOK'
  BY <1>1 DEF Inv, PointersOK
<1>3. /\ MasterWidget' # NULL => ~drag'.on /\ (Together \/ Mouse.b)
      /\ drag'.on => drag'.caller \in live' /\ (Together \/ Mouse.b)
  BY <1>1, ClickedIs DEF Inv, GrabOK, DragOK
<1>4. device' \in Devices /\ drag' \in [on : BOOLEAN, caller : Widgets \cup {NULL}]
  BY <1>1 DEF Inv, Typed
<1> QED BY <1>1, <1>2, <1>3, <1>4, ClickedBack

\* A handler that disposes of a widget.
LEMMA HandlerDisposesStep ==
  ASSUME Inv, NoBoundary, HandlerDisposes
  PROVE  Inv'
<1>1. PICK r \in BOOLEAN, w \in Disposable :
        Back(r) /\ Stage[Top.at] \in Clicked /\ DisposeOf(w, FocusedWidget)
  BY DEF HandlerDisposes, NoBoundary
<1>2. ~drag.on /\ w \in live \ {DeskTop}
  BY <1>1 DEF Disposable, NoBoundary
<1>3. Top.at \in {At["down"], At["up"], At["key"]} /\ stack # << >>
  BY <1>1, ClickedAt DEF Back
<1>4. /\ PointersOK' /\ device' \in Devices
      /\ device'.moved = device.moved /\ device'.clicks = device.clicks /\ device'.old = device.old
      /\ device'.wheel = device.wheel /\ device'.typed = device.typed /\ device'.keys = device.keys
      /\ MasterWidget' \in {MasterWidget, NULL} /\ drag' = drag
  <2>1. FocusedWidget \in live \cup {NULL}
    BY DEF Inv, PointersOK
  <2> QED BY <1>1, <1>2, <2>1, DisposeIs DEF Inv
<1>5. /\ MasterWidget' # NULL => ~drag'.on /\ (Together \/ Mouse.b)
      /\ drag'.on => drag'.caller \in live' /\ (Together \/ Mouse.b)
  BY <1>2, <1>3, <1>4, ClickedIs
<1>6. drag' \in [on : BOOLEAN, caller : Widgets \cup {NULL}]
  BY <1>4 DEF Inv, Typed
<1> QED BY <1>1, <1>3, <1>4, <1>5, <1>6, ClickedBack

\* A handler that takes the mouse for its widget.
LEMMA HandlerGrabsStep ==
  ASSUME Inv, NoBoundary, HandlerGrabs
  PROVE  Inv'
<1>1. /\ Back(TRUE) /\ stack # << >> /\ Stage[Top.at] = "down" /\ ~Top.polled /\ ~drag.on
      /\ device' = device /\ TopWidget' = TopWidget /\ FocusedWidget' = FocusedWidget
      /\ MasterWidget' = Top.target /\ drag' = drag /\ live' = live
  BY DEF HandlerGrabs, Back, InStage
<1>2. Top.at = At["down"]
  <2>1. Top.at \in 1..13
    BY <1>1, TopIs DEF Inv, Typed, Frames
  <2> QED BY <1>1, <2>1, StageAt, AtIs
<1>3. Top.busy /\ FrameOK(Top) /\ Own(Top)
  BY <1>1 DEF Back, Inv, TopOK
<1>4. Top.target \in live /\ Mouse.b
  BY <1>1, <1>2, <1>3 DEF FrameOK, Own, Pressed
<1>5. PointersOK'
  BY <1>1, <1>4 DEF Inv, PointersOK
<1>6. device' \in Devices /\ drag' \in [on : BOOLEAN, caller : Widgets \cup {NULL}]
  BY <1>1 DEF Inv, Typed
<1> QED BY <1>1, <1>2, <1>4, <1>5, <1>6, ClickedBack

\* DragStart.
LEMMA DragStartStep ==
  ASSUME Inv, NoBoundary, DragStart
  PROVE  Inv'
<1>1. PICK f : f = Top
  OBVIOUS
<1>2. /\ Back(TRUE) /\ stack # << >> /\ Stage[f.at] = "move" /\ Mouse.b
      /\ device' = device /\ TopWidget' = TopWidget /\ FocusedWidget' = FocusedWidget
      /\ MasterWidget' = NULL /\ live' = live /\ drag' = [on |-> TRUE, caller |-> f.target]
  BY <1>1 DEF DragStart, Back, InStage
<1>3. /\ f \in Frames /\ f.at \in 1..13 /\ f.busy
      /\ Event' = Event /\ Mouse' = Mouse /\ got' = got
      /\ FrameOK(f) /\ (~f.polled => Own(f) /\ OwnInput(f))
      /\ f.polled => f.at \in {9, 10, 13}
      /\ \/ stack' = Front(stack) /\ f.at \in {9, 10}
         \/ Here([f EXCEPT !.busy = FALSE])
  BY <1>1, <1>2, BackIs
<1>4. f.at = 6
  BY <1>2, <1>3, StageAt
<1>5. ~f.polled /\ Here([f EXCEPT !.busy = FALSE])
  BY <1>3, <1>4
<1>6. f.target \in live
  BY <1>3, <1>5 DEF FrameOK
<1>7. PICK g : g = [f EXCEPT !.busy = FALSE]
  OBVIOUS
<1>8. g \in Frames /\ ~g.busy /\ g.at = 6 /\ ~g.polled /\ g.mouse = f.mouse /\ g.drag = f.drag
  BY <1>3, <1>4, <1>5, <1>7 DEF Frames
<1>9. Here(g)
  BY <1>5, <1>7 DEF Here
<1>10. FrameOK(g)'
  BY <1>8, AtIs DEF FrameOK, Waits
<1>11. Own(g)' /\ OwnInput(g)'
  <2>1. drag'.on
    BY <1>2
  <2>2. Own(g)'
    BY <1>2, <1>3, <1>4, <1>5, <1>8, <2>1, AtIs DEF Own
  <2>3. OwnInput(g)'
    BY <1>2, <1>3, <1>4, <1>5, <1>8 DEF OwnInput, Pressed, Released
  <2> QED BY <2>2, <2>3
<1>12. stack' \in Seq(Frames) /\ Len(stack') <= MaxDepth /\ BelowOK' /\ TopOK'
  BY <1>2, <1>8, <1>9, <1>10, <1>11, HereKeeps DEF Inv
<1>13. Typed' /\ PointersOK' /\ ReadOK' /\ InputsOK'
  <2>1. drag' \in [on : BOOLEAN, caller : Widgets \cup {NULL}]
    BY <1>2, <1>6 DEF Inv, PointersOK
  <2> QED BY <1>2, <1>3, <1>12, <2>1 DEF Inv, Typed, PointersOK, ReadOK, InputsOK, MousePending
<1>14. GrabOK' /\ DragOK'
  BY <1>2, <1>3, <1>6 DEF GrabOK, DragOK
<1> QED BY <1>12, <1>13, <1>14 DEF Inv
-----------------------------------------------------------------------------
(***************************************************************************)
(* The stages that run no handler, and the end of a drag.                  *)
(***************************************************************************)
\* The poll comes to stage s, for which it does what the pointers tell; no release goes by.
LEMMA StageStep ==
  ASSUME Inv, NEW s \in {"focus", "select", "drop", "afterdrop"}, Comes(s),
         NEW g \in Frames, Here(g), g.at = At[s], ~g.polled, g.mouse = Top.mouse, g.drag = Top.drag,
         g.busy => g.target \in live',
         s \in {"focus", "select"} => Pressed /\ ~g.drag /\ TopWidget' = TopWidget,
         s = "drop" => g.drag /\ (g.target # NULL => drag'.on),
         device' \in Devices, device'.moved = device.moved, device'.clicks = device.clicks,
         device'.old = device.old, device'.wheel = device.wheel, device'.typed = device.typed,
         device'.keys = device.keys, UNCHANGED <<Event, Mouse, got>>,
         PointersOK', drag' \in [on : BOOLEAN, caller : Widgets \cup {NULL}], GrabOK', DragOK'
  PROVE  Inv'
<1>1. PICK f : f = Top
  OBVIOUS
<1>2. stack # << >> /\ f \in Frames /\ f.at > 1 /\ At[s] > f.at /\ Own(f) /\ OwnInput(f)
  <2>1. s # "return"
    OBVIOUS
  <2> QED BY <1>1, <2>1, ComesIs
<1>3. /\ g.at \in {7, 8, 11, 12} /\ f.at \in 1..13 /\ g.at > f.at
      /\ (g.at \in {7, 8}) <=> (s \in {"focus", "select"})
      /\ (g.at = 11) <=> (s = "drop")
  BY <1>2, AtIs DEF Frames
<1>4. FrameOK(g)'
  BY <1>3, AtIs DEF FrameOK, Waits
<1>5. Own(g)'
  <2>1. g.mouse <=> Event'.type = {"mouse"}
    BY <1>1, <1>2, AtIs DEF Own
  <2>2. CASE s \in {"focus", "select"}
    <3>1. Pressed' /\ ~g.drag /\ (g.mouse => TopWidget' # NULL)
      BY <1>1, <1>2, <1>3, <2>2, AtIs DEF Own, Pressed
    <3> QED BY <1>3, <2>1, <2>2, <3>1, AtIs DEF Own
  <2>3. CASE s \in {"drop", "afterdrop"}
    BY <1>3, <2>1, <2>3, AtIs DEF Own
  <2> QED BY <2>2, <2>3
<1>6. OwnInput(g)'
  BY <1>2, <1>3, AtIs DEF OwnInput, Pressed, Released
<1>7. stack' \in Seq(Frames) /\ Len(stack') <= MaxDepth /\ BelowOK' /\ TopOK'
  BY <1>2, <1>4, <1>5, <1>6, HereKeeps DEF Inv
<1>8. Typed' /\ ReadOK' /\ InputsOK'
  <2>1. InputsOK'
    BY InputsStay DEF Inv
  <2> QED BY <1>7, <2>1 DEF Inv, Typed, ReadOK
<1> QED BY <1>7, <1>8 DEF Inv

\* A click that begins finds the button down.
LEMMA FocusComes ==
  ASSUME Inv, NEW s \in {"focus", "select"}, Comes(s)
  PROVE  Pressed /\ ~Top.drag /\ Mouse.b
<1>1. s # "return"
  OBVIOUS
<1>2. Due(Top, s) /\ Top \in Frames
  BY <1>1, ComesIs
<1> QED BY <1>2, DueIs DEF Pressed

\* WidgetSetFocus, and the menu that loses the focus.
LEMMA WidgetSetFocusStep ==
  ASSUME Inv, NoBoundary, WidgetSetFocus
  PROVE  Inv'
<1>1. PICK f, g : f = Top /\ g = [f EXCEPT !.at = At["focus"]]
  OBVIOUS
<1>2. Comes("focus") /\ TopWidget \in live /\ Here(g) /\ UNCHANGED <<Event, Mouse, got>>
  BY <1>1 DEF WidgetSetFocus, Here
<1>3. f \in Frames /\ ~f.busy /\ ~f.polled /\ f.at \in 1..13 /\ Pressed /\ ~f.drag /\ Mouse.b
  BY <1>1, <1>2, ComesIs, FocusComes DEF Frames
<1>4. g \in Frames /\ g.at = At["focus"] /\ ~g.polled /\ ~g.busy /\ g.mouse = f.mouse /\ g.drag = f.drag
  BY <1>1, <1>3, AtIs DEF Frames
<1>5. PointersOK /\ device \in Devices /\ drag \in [on : BOOLEAN, caller : Widgets \cup {NULL}]
  BY DEF Inv, Typed
<1>6. CASE /\ FocusedWidget' = TopWidget
           /\ UNCHANGED <<device, TopWidget, MasterWidget, drag, live>>
  <2>1. PointersOK'
    BY <1>2, <1>5, <1>6 DEF PointersOK
  <2>2. GrabOK' /\ DragOK'
    BY <1>2, <1>3, <1>6 DEF Inv, GrabOK, DragOK
  <2> QED BY <1>1, <1>2, <1>3, <1>4, <1>5, <1>6, <2>1, <2>2, StageStep
<1>7. CASE \E w \in ({FocusedWidget} \ {TopWidget}) \cap Disposable : DisposeOf(w, TopWidget)
  <2>1. PICK w \in Disposable : w # TopWidget /\ DisposeOf(w, TopWidget)
    BY <1>7
  <2>2. ~drag.on /\ w \in live \ {DeskTop}
    BY <2>1 DEF Disposable, NoBoundary
  <2>3. /\ PointersOK' /\ device' \in Devices
        /\ device'.moved = device.moved /\ device'.clicks = device.clicks /\ device'.old = device.old
        /\ device'.wheel = device.wheel /\ device'.typed = device.typed /\ device'.keys = device.keys
        /\ TopWidget' = TopWidget /\ drag' = drag
    BY <1>2, <2>1, <2>2, DisposeIs DEF Inv
  <2>4. GrabOK' /\ DragOK'
    BY <1>2, <1>3, <2>2, <2>3 DEF GrabOK, DragOK
  <2> QED BY <1>1, <1>2, <1>3, <1>4, <1>5, <2>3, <2>4, StageStep
<1> QED BY <1>6, <1>7 DEF WidgetSetFocus, NoBoundary

\* WidgetSelect.
LEMMA WidgetSelectStep ==
  ASSUME Inv, WidgetSelect
  PROVE  Inv'
<1>1. PICK f, g : f = Top /\ g = [f EXCEPT !.at = At["select"]]
  OBVIOUS
<1>2. /\ Comes("select") /\ Here(g) /\ UNCHANGED <<Event, Mouse, got>>
      /\ device' = device /\ TopWidget' = TopWidget /\ FocusedWidget' = FocusedWidget
      /\ MasterWidget' = MasterWidget /\ drag' = drag /\ live' = live
  BY <1>1 DEF WidgetSelect, Here, widgets
<1>3. f \in Frames /\ ~f.busy /\ ~f.polled /\ f.at \in 1..13 /\ Pressed /\ ~f.drag /\ Mouse.b
  BY <1>1, <1>2, ComesIs, FocusComes DEF Frames
<1>4. g \in Frames /\ g.at = At["select"] /\ ~g.polled /\ ~g.busy /\ g.mouse = f.mouse /\ g.drag = f.drag
  BY <1>1, <1>3, AtIs DEF Frames
<1>5. PointersOK' /\ device' \in Devices /\ drag' \in [on : BOOLEAN, caller : Widgets \cup {NULL}]
  BY <1>2 DEF Inv, Typed, PointersOK
<1>6. GrabOK' /\ DragOK'
  BY <1>2, <1>3 DEF Inv, GrabOK, DragOK
<1> QED BY <1>1, <1>2, <1>3, <1>4, <1>5, <1>6, StageStep

\* What is dropped is dropped by the one who drags, when the button is let go.
LEMMA DropComesIs ==
  ASSUME Inv, Comes("drop")
  PROVE  /\ Top \in Frames /\ ~Top.busy /\ ~Top.polled /\ Top.mouse /\ Top.drag /\ Released
         /\ Event.type = {"mouse"} /\ drag.on /\ MasterWidget = NULL
<1>1. /\ Top \in Frames /\ ~Top.busy /\ ~Top.polled /\ Top.at > 1
      /\ At["drop"] > Top.at /\ Due(Top, "drop") /\ Own(Top)
  BY ComesIs
<1>2. Top.mouse /\ Top.drag /\ Released
  BY <1>1, DueIs
<1>3. Event.type = {"mouse"} /\ drag.on
  BY <1>1, <1>2, AtIs DEF Own
<1>4. MasterWidget = NULL
  BY <1>3 DEF Inv, GrabOK
<1> QED BY <1>1, <1>2, <1>3, <1>4

\* A drop that is not taken.
LEMMA DragCancelStep ==
  ASSUME Inv, DragCancel
  PROVE  Inv'
<1>1. PICK f, g : f = Top /\ g = [f EXCEPT !.at = At["drop"], !.target = NULL]
  OBVIOUS
<1>2. /\ Comes("drop") /\ Here(g) /\ UNCHANGED <<Event, Mouse, got>>
      /\ device' = device /\ TopWidget' = TopWidget /\ FocusedWidget' = FocusedWidget
      /\ MasterWidget' = MasterWidget /\ drag' = [on |-> FALSE, caller |-> NULL] /\ live' = live
  BY <1>1 DEF DragCancel, Here, DragStop
<1>3. f \in Frames /\ ~f.busy /\ ~f.polled /\ f.drag /\ MasterWidget = NULL
  BY <1>1, <1>2, DropComesIs
<1>4. /\ g \in Frames /\ g.at = At["drop"] /\ ~g.polled /\ ~g.busy /\ g.mouse = f.mouse /\ g.drag = f.drag
      /\ g.target = NULL
  <2>1. g = [f EXCEPT !.at = 11, !.target = NULL]
    BY <1>1, AtIs
  <2>2. g \in Frames
    <3>1. g = [at |-> 11, busy |-> f.busy, polled |-> f.polled, mouse |-> f.mouse, drag |-> f.drag,
               crossed |-> f.crossed, old |-> f.old, target |-> NULL]
      BY <1>3, <2>1 DEF Frames
    <3> QED BY <1>3, <3>1 DEF Frames
  <2>3. /\ g.at = 11 /\ g.polled = f.polled /\ g.busy = f.busy /\ g.mouse = f.mouse
        /\ g.drag = f.drag /\ g.target = NULL
    BY <1>3, <2>1 DEF Frames
  <2> QED BY <1>3, <2>2, <2>3, AtIs
<1>5. PointersOK' /\ device' \in Devices /\ drag' \in [on : BOOLEAN, caller : Widgets \cup {NULL}]
  BY <1>2 DEF Inv, Typed, PointersOK
<1>6. GrabOK' /\ DragOK'
  BY <1>2, <1>3 DEF GrabOK, DragOK
<1> QED BY <1>1, <1>2, <1>3, <1>4, <1>5, <1>6, StageStep

\* DropData starts.
LEMMA DropDataStep ==
  ASSUME Inv, DropData
  PROVE  Inv'
<1>1. PICK f, g : f = Top /\ g = [f EXCEPT !.at = At["drop"], !.busy = TRUE, !.polled = FALSE, !.target = TopWidget]
  OBVIOUS
<1>2. /\ Comes("drop") /\ Here(g) /\ UNCHANGED <<Event, Mouse, got>>
      /\ device' = device /\ TopWidget' = TopWidget /\ FocusedWidget' = FocusedWidget
      /\ MasterWidget' = MasterWidget /\ drag' = drag /\ live' = live
      /\ Used(f, "drop") \subseteq live
  BY <1>1 DEF DropData, Here, widgets
<1>3. /\ f \in Frames /\ ~f.busy /\ ~f.polled /\ f.drag /\ MasterWidget = NULL /\ drag.on
      /\ Released /\ Event.type = {"mouse"}
  BY <1>1, <1>2, DropComesIs
<1>4. TopWidget \in live /\ drag.caller \in live
  BY <1>2 DEF Used
<1>5. TopWidget \in Widgets /\ TopWidget # NULL
  BY <1>4, DeskTopAssumption DEF Inv, PointersOK
<1>6. /\ g \in Frames /\ g.at = At["drop"] /\ ~g.polled /\ g.mouse = f.mouse /\ g.drag = f.drag
      /\ g.target = TopWidget
  <2>1. PICK t : t = TopWidget
    OBVIOUS
  <2>2. g = [f EXCEPT !.at = 11, !.busy = TRUE, !.polled = FALSE, !.target = t]
    BY <1>1, <2>1, AtIs
  <2>3. g \in Frames
    <3>1. g = [at |-> 11, busy |-> TRUE, polled |-> FALSE, mouse |-> f.mouse, drag |-> f.drag,
               crossed |-> f.crossed, old |-> f.old, target |-> t]
      BY <1>3, <2>2 DEF Frames
    <3> QED BY <1>3, <1>5, <2>1, <3>1 DEF Frames
  <2>4. g.at = 11 /\ ~g.polled /\ g.mouse = f.mouse /\ g.drag = f.drag /\ g.target = t
    BY <1>3, <2>2 DEF Frames
  <2> QED BY <2>1, <2>3, <2>4, AtIs
<1>7. PointersOK' /\ device' \in Devices /\ drag' \in [on : BOOLEAN, caller : Widgets \cup {NULL}]
  BY <1>2 DEF Inv, Typed, PointersOK
<1>8. stack' # << >> /\ Top' = g
  BY <1>2, <1>6, ComesIs, HereIs DEF Inv, Typed
<1>9. DropComes'
  BY <1>2, <1>3, <1>5, <1>6, <1>8 DEF DropComes, Releases, Released
<1>10. GrabOK' /\ DragOK'
  BY <1>2, <1>3, <1>4, <1>9 DEF GrabOK, DragOK
<1>11. g.busy => g.target \in live'
  BY <1>2, <1>4, <1>6
<1>12. g.drag /\ (g.target # NULL => drag'.on)
  BY <1>2, <1>3, <1>6
<1> QED BY <1>1, <1>2, <1>6, <1>7, <1>10, <1>11, <1>12, StageStep

\* DragAfterDrop ends the drag.
LEMMA DragAfterDropStep ==
  ASSUME Inv, DragAfterDrop
  PROVE  Inv'
<1>1. PICK f, g : f = Top /\ g = [f EXCEPT !.at = At["afterdrop"]]
  OBVIOUS
<1>2. /\ Comes("afterdrop") /\ Here(g) /\ UNCHANGED <<Event, Mouse, got>>
      /\ device' = device /\ TopWidget' = TopWidget /\ FocusedWidget' = FocusedWidget
      /\ MasterWidget' = MasterWidget /\ drag' = [on |-> FALSE, caller |-> NULL] /\ live' = live
  BY <1>1 DEF DragAfterDrop, Here, DragStop
<1>3. f \in Frames /\ ~f.busy /\ ~f.polled /\ Due(f, "afterdrop") /\ Own(f)
  BY <1>1, <1>2, ComesIs
<1>4. f.at = At["drop"] /\ f.target # NULL
  BY <1>3, DueIs
<1>5. MasterWidget = NULL
  <2>1. drag.on
    BY <1>3, <1>4 DEF Own
  <2> QED BY <2>1 DEF Inv, GrabOK
<1>6. g \in Frames /\ g.at = At["afterdrop"] /\ ~g.polled /\ ~g.busy /\ g.mouse = f.mouse /\ g.drag = f.drag
  BY <1>1, <1>3, AtIs DEF Frames
<1>7. PointersOK' /\ device' \in Devices /\ drag' \in [on : BOOLEAN, caller : Widgets \cup {NULL}]
  BY <1>2 DEF Inv, Typed, PointersOK
<1>8. GrabOK' /\ DragOK'
  BY <1>2, <1>5 DEF GrabOK, DragOK
<1> QED BY <1>1, <1>2, <1>3, <1>6, <1>7, <1>8, StageStep
-----------------------------------------------------------------------------
(***************************************************************************)
(* The invariant holds.                                                    *)
(***************************************************************************)
\* It holds when the main loop begins.
LEMMA InitInv ==
  ASSUME Init
  PROVE  Inv
<1>1. stack = << >> /\ Len(stack) = 0 /\ stack \in Seq(Frames)
  BY DEF Init
<1>2. Typed
  <2>1. device \in Devices /\ device.old <= device.clicks
    <3>1. << >> \in Seq(1..MaxKeys)
      BY EmptySeq
    <3> QED BY <3>1, DeskTopAssumption, BoundsAssumption DEF Init, Devices
  <2>2. /\ Event \in [type : SUBSET {"mouse", "key"}, message : BOOLEAN, key : 0..MaxKeys]
        /\ Mouse \in [moved : BOOLEAN, changes : BOOLEAN, b : BOOLEAN, click : Nat]
        /\ drag \in [on : BOOLEAN, caller : Widgets \cup {NULL}]
    BY BoundsAssumption DEF Init
  <2> QED BY <1>1, <2>1, <2>2, BoundsAssumption DEF Typed
<1>3. PointersOK
  BY DeskTopAssumption DEF Init, PointersOK
<1>4. ReadOK
  BY DEF Init, ReadOK, Down
<1>5. InputsOK
  <2>1. device.keys = << >> /\ Len(device.keys) = 0 /\ got = [i \in Inputs |-> 0]
    BY DEF Init
  <2>2. \A i \in Inputs : got[i] = 0
    BY <2>1
  <2>3. got \in [Inputs -> 0..1]
    BY <2>1
  <2> QED BY <2>1, <2>2, <2>3, InputIs DEF InputsOK
<1>6. BelowOK /\ TopOK
  BY <1>1 DEF BelowOK, TopOK
<1>7. GrabOK /\ DragOK
  BY DEF Init, GrabOK, DragOK
<1> QED BY <1>2, <1>3, <1>4, <1>5, <1>6, <1>7 DEF Inv

\* Each step preserves it.
LEMMA NextInv ==
  ASSUME Inv, NoBoundary, [Next]_vars
  PROVE  Inv'
<1>1. CASE UNCHANGED vars
  <2>1. /\ device' = device /\ Event' = Event /\ Mouse' = Mouse /\ stack' = stack /\ got' = got
        /\ TopWidget' = TopWidget /\ FocusedWidget' = FocusedWidget
        /\ MasterWidget' = MasterWidget /\ drag' = drag /\ live' = live
    BY <1>1 DEF vars
  <2>2. InputsOK'
    BY <2>1, InputsStay DEF Inv
  <2> QED BY <2>1, <2>2, UserKeeps DEF Inv, Typed, PointersOK, Devices, widgets
<1>2. CASE User
  BY <1>2, UserStep
<1>3. CASE SendAny
  BY <1>3, SendStep DEF SendAny
<1>4. CASE Handlers
  BY <1>4, HandlerReturnsStep, HandlerFocusesStep, HandlerDisposesStep, HandlerGrabsStep, DragStartStep
     DEF Handlers
<1>5. CASE PollEvents \/ SystemKey \/ WidgetEventHandler \/ Return
  BY <1>5, PollEventsStep, SystemKeyStep, WidgetEventHandlerStep, ReturnStep
<1>6. CASE WidgetSetFocus \/ WidgetSelect \/ DragCancel \/ DropData \/ DragAfterDrop
  BY <1>6, WidgetSetFocusStep, WidgetSelectStep, DragCancelStep, DropDataStep, DragAfterDropStep
<1> QED BY <1>1, <1>2, <1>3, <1>4, <1>5, <1>6 DEF Next, Program

(***************************************************************************)
(* The inductive invariant, in every state of the nested polls.            *)
(***************************************************************************)
THEOREM PollsSafe ==
  ASSUME NoBoundary
  PROVE  Spec => []Inv
<1>1. Init => Inv
  BY InitInv
<1>2. Inv /\ [Next]_vars => Inv'
  BY NextInv
<1> QED BY <1>1, <1>2, PTL DEF Spec
-----------------------------------------------------------------------------
(***************************************************************************)
(* What it says.                                                           *)
(***************************************************************************)
\* By the branch it took a poll knows that TopWidget, or the focus, or the drag is there.
LEMMA InvUsesLive ==
  ASSUME Inv
  PROVE  UsesLive
<1> SUFFICES ASSUME stack # << >>, ~Top.busy, ~InStage("system")
             PROVE  Used(Top, NextStage(Top)) \subseteq live
  BY DEF UsesLive
<1>1. PICK f, s : f = Top /\ s = NextStage(Top)
  OBVIOUS
<1>2. CASE s = "return"
  BY <1>1, <1>2 DEF Used
<1>3. CASE s # "return"
  <2>1. Comes(s)
    BY <1>1 DEF Comes
  <2>2. /\ f \in Frames /\ f.at > 1 /\ s \in Names /\ At[s] > f.at /\ Due(f, s) /\ Own(f) /\ f.at \in 1..13
    BY <1>1, <1>3, <2>1, ComesIs DEF Frames
  <2>3. FrameOK(f)
    BY <1>1 DEF Inv, TopOK
  <2>4. {TopWidget, FocusedWidget, MasterWidget} \subseteq live \cup {NULL}
    BY DEF Inv, PointersOK
  <2>5. CASE s = "left"
    <3>1. f.old # NULL /\ f.at = 2
      BY <2>2, <2>5, DueIs, AtIs
    <3> QED BY <1>1, <2>3, <2>5, <3>1, AtIs DEF FrameOK, Used
  <2>6. CASE s = "key"
    BY <1>1, <2>2, <2>4, <2>6, DueIs DEF Used
  <2>7. CASE s \in {"enter", "message", "move", "focus", "select", "down"}
    <3>1. f.mouse /\ f.at < 9
      BY <2>2, <2>7, DueIs, AtIs
    <3>2. TopWidget \in live
      BY <2>2, <2>4, <3>1, AtIs DEF Own
    <3> QED BY <1>1, <2>7, <3>2 DEF Used
  <2>8. CASE s = "up"
    <3>1. f.mouse /\ Released /\ f.at < 10
      BY <2>2, <2>8, DueIs, AtIs
    <3>2. f.at # 9
      BY <2>2, <3>1, AtIs DEF Own, Pressed, Released
    <3>3. TopWidget \in live
      BY <2>2, <2>4, <3>1, <3>2, AtIs DEF Own
    <3> QED BY <1>1, <2>8, <3>3 DEF Used
  <2>9. CASE s = "drop"
    <3>1. f.mouse /\ f.drag /\ f.at < 11 /\ drag.on
      BY <1>1, <2>1, <2>2, <2>9, DropComesIs, AtIs
    <3>2. f.at \notin {9, 10}
      BY <2>2, <3>1, AtIs DEF Own
    <3>3. TopWidget \in live
      BY <2>2, <2>4, <3>1, <3>2, AtIs DEF Own
    <3>4. drag.caller \in live
      BY <3>1 DEF Inv, DragOK
    <3> QED BY <1>1, <2>9, <3>3, <3>4 DEF Used
  <2>10. CASE s = "afterdrop"
    <3>1. drag.on
      BY <2>2, <2>10, DueIs, AtIs DEF Own
    <3>2. drag.caller \in live
      BY <3>1 DEF Inv, DragOK
    <3> QED BY <1>1, <2>10, <3>2 DEF Used
  <2>11. s \notin {"system", "begin"}
    BY <2>2, DueIs
  <2> QED BY <2>2, <2>5, <2>6, <2>7, <2>8, <2>9, <2>10, <2>11 DEF Names
<1> QED BY <1>2, <1>3

\* In the main loop no poll is under way that a release could be ahead of.
LEMMA InvReleaseEndsAll ==
  ASSUME Inv, ~Together
  PROVE  ReleaseEndsAll
<1>1. TypeOK
  <2>1. /\ Event.type \subseteq {"mouse", "key"} /\ Event.message \in BOOLEAN /\ Event.key \in 0..MaxKeys
        /\ drag.caller \in Widgets \cup {NULL} /\ drag.on \in BOOLEAN /\ Len(stack) <= MaxDepth
    BY DEF Inv, Typed
  <2>2. /\ {TopWidget, FocusedWidget, MasterWidget} \subseteq live \cup {NULL}
        /\ DeskTop \in live /\ live \subseteq Widgets
    BY DEF Inv, PointersOK
  <2>3. ASSUME NEW i \in DOMAIN stack
        PROVE  stack[i].at \in DOMAIN Stage /\ (i < Len(stack) => stack[i].busy)
    <3>1. stack \in Seq(Frames) /\ i \in 1..Len(stack)
      BY <2>3 DEF Inv, Typed
    <3>2. stack[i] \in Frames
      BY <3>1, ElementOfSeq
    <3>3. i < Len(stack) => Waits(stack[i])
      BY <3>1 DEF Inv, BelowOK
    <3> QED BY <3>2, <3>3, StageIs DEF Frames, Waits
  <2>4. got \in [Inputs -> 0..2]
    <3>1. got \in [Inputs -> 0..1]
      BY DEF Inv, InputsOK
    <3> QED BY <3>1
  <2> QED BY <2>1, <2>2, <2>3, <2>4 DEF TypeOK
<1>2. GrabEnds /\ DragEnds
  BY DEF Inv, GrabOK, DragOK, GrabEnds, DragEnds, UpComes, DropComes, Releases
<1> QED BY <1>1, <1>2 DEF ReleaseEndsAll

\* The counts are those of the invariant.
LEMMA InvInputOnce ==
  ASSUME Inv
  PROVE  InputOnce
<1>1. \A i \in Inputs : got[i] \in 0..1
  BY DEF Inv, InputsOK
<1> QED BY <1>1 DEF InputOnce

(***************************************************************************)
(* No key and no change of the button is handed to a handler twice,        *)
(* whatever the handlers do that WidgetEventHandler calls before and poll. *)
(***************************************************************************)
THEOREM InputsOnce ==
  ASSUME NoBoundary
  PROVE  Spec => []InputOnce
BY PollsSafe, InvInputOnce, PTL

(***************************************************************************)
(* The widgets that WidgetEventHandler gives an event to have not been     *)
(* disposed of: neither by the handlers before nor in the polls of theirs. *)
(***************************************************************************)
THEOREM OnlyLiveUsed ==
  ASSUME NoBoundary
  PROVE  Spec => []UsesLive
BY PollsSafe, InvUsesLive, PTL

(***************************************************************************)
(* Between two polls of the main loop a widget has the mouse to itself, or *)
(* something is dragged, only while the button is down: if what PollEvents *)
(* reads is of the mouse or of the keyboard, and never of both.            *)
(***************************************************************************)
THEOREM ReleaseEnds ==
  ASSUME NoBoundary, ~Together
  PROVE  Spec => []ReleaseEndsAll
BY PollsSafe, InvReleaseEndsAll, PTL
-----------------------------------------------------------------------------
(***************************************************************************)
(* The screen.                                                             *)
(***************************************************************************)
Coordinates == [abs : Rect, draw : Rect, child : Rect]

Lower == Widgets \ {DeskTop}

(***************************************************************************)
(* What the proofs assume of the operations.  Each boundary, when it is    *)
(* crossed, leaves a picture that is wrong.                                *)
(***************************************************************************)
NoScreenBoundary == ~TinyWidgets /\ ~ScrolledOut /\ ~MoveHidden
-----------------------------------------------------------------------------
(***************************************************************************)
(* The tree the widgets are made in.                                       *)
(***************************************************************************)

\* Every widget but the desktop has a parent, and is one deeper than it.
Graded(depth, n) ==
  /\ n \in Nat /\ depth \in [Widgets -> 0..n]
  /\ \A w \in Lower : depth[w] = depth[Parent[w]] + 1

\* Every widget but the desktop has a parent: the one among whose children it is.
LEMMA ParentIs ==
  /\ Parent[DeskTop] = NULL
  /\ \A w \in Lower : Parent[w] \in Widgets /\ Parent[w] # NULL /\ w \in ToSet(Layout[Parent[w]])
  /\ \A v \in Widgets : \A w \in ToSet(Layout[v]) : w \in Lower /\ Parent[w] = v
<1>1. ASSUME NEW v \in Widgets, NEW w \in ToSet(Layout[v])
      PROVE  w \in Widgets /\ \A u \in Widgets : w \in ToSet(Layout[u]) => u = v
  <2>1. Layout[v] \in Seq(Widgets)
    BY LayoutAssumption
  <2>2. PICK i \in DOMAIN Layout[v] : w = Layout[v][i]
    BY DEF ToSet
  <2>3. w \in Widgets
    BY <2>1, <2>2
  <2>4. ASSUME NEW u \in Widgets, w \in ToSet(Layout[u]) PROVE u = v
    <3>1. PICK j \in DOMAIN Layout[u] : w = Layout[u][j]
      BY <2>4 DEF ToSet
    <3> QED
      BY <2>2, <3>1, LayoutAssumption
  <2> QED
    BY <2>3, <2>4
<1>2. PICK depth \in [Widgets -> 0 .. Cardinality(Widgets)] :
       /\ \A v \in Widgets : \A x \in ToSet(Layout[v]) : depth[x] = depth[v] + 1
       /\ \A w \in Widgets : w = DeskTop <=> \A v \in Widgets : w \notin ToSet(Layout[v])
  BY LayoutAssumption
<1>3. Parent[DeskTop] = NULL
  BY <1>2, DeskTopAssumption DEF Parent
<1>4. ASSUME NEW w \in Lower
      PROVE  Parent[w] \in Widgets /\ Parent[w] # NULL /\ w \in ToSet(Layout[Parent[w]])
  <2>1. \E v \in Widgets : w \in ToSet(Layout[v])
    BY <1>2 DEF Lower
  <2>2. Parent[w] = CHOOSE v \in Widgets : w \in ToSet(Layout[v])
    BY <2>1 DEF Parent, Lower
  <2>3. Parent[w] \in Widgets /\ w \in ToSet(Layout[Parent[w]])
    BY <2>1, <2>2
  <2> QED
    BY <2>3, DeskTopAssumption
<1>5. ASSUME NEW v \in Widgets, NEW w \in ToSet(Layout[v]) PROVE w \in Lower /\ Parent[w] = v
  <2>1. w \in Widgets
    BY <1>1
  <2>2. w # DeskTop
    BY <1>2, <2>1
  <2>3. w \in Lower
    BY <2>1, <2>2 DEF Lower
  <2>4. Parent[w] \in Widgets /\ w \in ToSet(Layout[Parent[w]])
    BY <1>4, <2>3
  <2> QED
    BY <1>1, <2>3, <2>4
<1> QED
  BY <1>3, <1>4, <1>5

\* The layout has depths.
LEMMA DepthExists == \E depth, n : Graded(depth, n)
<1>1. PICK depth \in [Widgets -> 0 .. Cardinality(Widgets)] :
        \A v \in Widgets : \A x \in ToSet(Layout[v]) : depth[x] = depth[v] + 1
  BY LayoutAssumption
<1>2. Cardinality(Widgets) \in Nat
  BY FiniteAssumption, FS_CardinalityType
<1>3. \A w \in Lower : depth[w] = depth[Parent[w]] + 1
  BY <1>1, ParentIs
<1>4. Graded(depth, Cardinality(Widgets))
  BY <1>2, <1>3 DEF Graded
<1> QED
  BY <1>4

\* Induction from the desktop down.
LEMMA DownTheTree ==
  ASSUME NEW T, DeskTop \in T, \A w \in Lower : Parent[w] \in T => w \in T
  PROVE  Widgets \subseteq T
<1>1. PICK depth, n : Graded(depth, n)
  BY DepthExists
<1> DEFINE R == {k \in Nat : \A w \in Widgets : depth[w] <= k => w \in T}
<1>2. \A w \in Widgets : depth[w] \in Nat /\ depth[w] <= n
  BY <1>1 DEF Graded
<1>3. \A w \in Lower : Parent[w] \in Widgets /\ depth[w] = depth[Parent[w]] + 1
  BY <1>1, ParentIs DEF Graded
<1>4. 0 \in R
  <2>1. ASSUME NEW w \in Lower PROVE ~(depth[w] <= 0)
    <3>1. Parent[w] \in Widgets /\ depth[w] = depth[Parent[w]] + 1
      BY <1>3
    <3>2. depth[Parent[w]] \in Nat
      BY <1>2, <3>1
    <3> QED
      BY <3>1, <3>2
  <2> QED
    BY <2>1 DEF Lower
<1>5. ASSUME NEW k \in Nat, k \in R PROVE k + 1 \in R
  <2> SUFFICES ASSUME NEW w \in Widgets, depth[w] <= k + 1 PROVE w \in T
    OBVIOUS
  <2>1. CASE w = DeskTop
    BY <2>1
  <2>2. CASE w # DeskTop
    <3>1. w \in Lower
      BY <2>2 DEF Lower
    <3>2. depth[Parent[w]] <= k /\ Parent[w] \in Widgets
      BY <1>2, <1>3, <3>1
    <3> QED
      BY <1>5, <3>1, <3>2
  <2> QED
    BY <2>1, <2>2
<1>6. n \in Nat
  BY <1>1 DEF Graded
<1>7. Nat \subseteq R
  <2> HIDE DEF R
  <2> QED
    BY <1>4, <1>5, SetInduction
<1> QED
  BY <1>2, <1>6, <1>7

\* Induction from the leaves up.
LEMMA UpTheTree ==
  ASSUME NEW T, \A w \in Widgets : (\A x \in Lower : Parent[x] = w => x \in T) => w \in T
  PROVE  Widgets \subseteq T
<1>1. PICK depth, n : Graded(depth, n)
  BY DepthExists
<1> DEFINE R == {k \in Nat : \A w \in Widgets : n - depth[w] <= k => w \in T}
<1>2. n \in Nat /\ \A w \in Widgets : depth[w] \in Nat /\ depth[w] <= n
  BY <1>1 DEF Graded
<1>3. \A w \in Lower : w \in Widgets /\ Parent[w] \in Widgets /\ depth[w] = depth[Parent[w]] + 1
  BY <1>1, ParentIs DEF Graded, Lower
<1>4. 0 \in R
  <2> SUFFICES ASSUME NEW w \in Widgets, n - depth[w] <= 0 PROVE w \in T
    OBVIOUS
  <2>1. \A x \in Lower : Parent[x] # w
    BY <1>2, <1>3
  <2> QED
    BY <2>1
<1>5. ASSUME NEW k \in Nat, k \in R PROVE k + 1 \in R
  <2> SUFFICES ASSUME NEW w \in Widgets, n - depth[w] <= k + 1 PROVE w \in T
    OBVIOUS
  <2>1. ASSUME NEW x \in Lower, Parent[x] = w PROVE x \in T
    <3>1. n - depth[x] <= k /\ x \in Widgets
      BY <1>2, <1>3, <2>1
    <3> QED
      BY <1>5, <3>1
  <2> QED
    BY <2>1
<1>6. Nat \subseteq R
  <2> HIDE DEF R
  <2> QED
    BY <1>4, <1>5, SetInduction
<1>7. ASSUME NEW w \in Widgets PROVE n - depth[w] \in Nat
  <2>1. n \in Nat /\ depth[w] \in Nat /\ depth[w] <= n
    BY <1>2
  <2> QED
    BY <2>1
<1> QED
  BY <1>6, <1>7

(***************************************************************************)
(* What is computed of each widget from its parent's.                      *)
(***************************************************************************)
Closed(S, top, step) == top \in S /\ \A w \in Lower : \A v \in S : step[w][v] \in S

Follows(f, top, step) ==
  /\ f = [w \in Widgets |-> f[w]] /\ f[DeskTop] = top
  /\ \A w \in Lower : f[w] = step[w][f[Parent[w]]]

\* Values computed from the parent's exist for all widgets, and stay in a closed set.
LEMMA DownExists ==
  ASSUME NEW S, NEW top, NEW step, Closed(S, top, step)
  PROVE  \E f : Follows(f, top, step) /\ \A w \in Widgets : f[w] \in S
<1>1. PICK depth, n : Graded(depth, n)
  BY DepthExists
<1>2. n \in Nat /\ \A w \in Widgets : depth[w] \in Nat /\ depth[w] <= n
  BY <1>1 DEF Graded
<1>3. \A w \in Lower : w \in Widgets /\ w # DeskTop /\ Parent[w] \in Widgets /\ depth[w] = depth[Parent[w]] + 1
  BY <1>1, ParentIs DEF Graded, Lower
<1> DEFINE Goes(f, k) ==
             /\ f = [w \in Widgets |-> f[w]] /\ f[DeskTop] = top
             /\ \A w \in Widgets : f[w] \in S
             /\ \A w \in Lower : depth[w] <= k => f[w] = step[w][f[Parent[w]]]
           R == {k \in Nat : \E f : Goes(f, k)}
<1>4. 0 \in R
  <2>1. PICK f : f = [w \in Widgets |-> top]
    OBVIOUS
  <2>2. ASSUME NEW w \in Lower PROVE ~(depth[w] <= 0)
    <3>1. Parent[w] \in Widgets /\ depth[w] = depth[Parent[w]] + 1
      BY <1>3
    <3>2. depth[Parent[w]] \in Nat
      BY <1>2, <3>1
    <3> QED
      BY <3>1, <3>2
  <2>3. Goes(f, 0)
    BY <2>1, <2>2, DeskTopAssumption DEF Closed
  <2> HIDE DEF Goes
  <2> QED
    BY <2>3
<1>5. ASSUME NEW k \in Nat, k \in R PROVE k + 1 \in R
  <2>1. PICK f : Goes(f, k)
    BY <1>5
  <2>2. PICK g : g = [w \in Widgets |-> IF w # DeskTop /\ depth[w] = k + 1 THEN step[w][f[Parent[w]]] ELSE f[w]]
    OBVIOUS
  <2>3. g = [w \in Widgets |-> g[w]] /\ g[DeskTop] = top
    BY <2>1, <2>2, DeskTopAssumption
  <2>4. ASSUME NEW w \in Widgets PROVE g[w] \in S
    <3>1. CASE w # DeskTop /\ depth[w] = k + 1
      <4>1. w \in Lower /\ Parent[w] \in Widgets
        BY <1>3, <3>1 DEF Lower
      <4>2. step[w][f[Parent[w]]] \in S
        BY <2>1, <4>1 DEF Closed
      <4> QED
        BY <2>2, <3>1, <4>2
    <3>2. CASE ~(w # DeskTop /\ depth[w] = k + 1)
      BY <2>1, <2>2, <3>2
    <3> QED
      BY <3>1, <3>2
  <2>5. ASSUME NEW w \in Lower, depth[w] <= k + 1 PROVE g[w] = step[w][g[Parent[w]]]
    <3>1. w \in Widgets /\ w # DeskTop /\ Parent[w] \in Widgets /\ depth[w] = depth[Parent[w]] + 1
      BY <1>3
    <3>2. g[Parent[w]] = f[Parent[w]]
      BY <1>2, <2>2, <2>5, <3>1
    <3>3. CASE depth[w] = k + 1
      BY <2>2, <3>1, <3>2, <3>3
    <3>4. CASE depth[w] # k + 1
      <4>1. depth[w] <= k
        BY <1>2, <2>5, <3>1, <3>4
      <4>2. g[w] = f[w]
        BY <2>2, <3>1, <3>4
      <4> QED
        BY <2>1, <3>2, <4>1, <4>2
    <3> QED
      BY <3>3, <3>4
  <2>6. Goes(g, k + 1)
    BY <2>3, <2>4, <2>5
  <2> HIDE DEF Goes
  <2> QED
    BY <2>6
<1> HIDE DEF Goes, R
<1>6. Nat \subseteq R
  BY <1>4, <1>5, SetInduction
<1>7. PICK f : Goes(f, n)
  BY <1>2, <1>6 DEF R
<1>8. \A w \in Lower : depth[w] <= n
  BY <1>2, <1>3
<1>9. Follows(f, top, step)
  BY <1>7, <1>8 DEF Goes, Follows
<1> QED
  BY <1>7, <1>9 DEF Goes

\* The recursion of Line: a widget, and the line of its parent.
LEMMA LineIs ==
  /\ Line[DeskTop] = {DeskTop}
  /\ \A w \in Widgets : Line[w] \subseteq Widgets
  /\ \A w \in Lower : Line[w] = {w} \cup Line[Parent[w]]
<1> DEFINE E(x) == [w \in Widgets |-> IF Parent[w] = NULL THEN {w} ELSE {w} \cup x[Parent[w]]]
<1>1. PICK step : step = [w \in Widgets |-> [s \in SUBSET Widgets |-> {w} \cup s]]
  OBVIOUS
<1>2. Closed(SUBSET Widgets, {DeskTop}, step)
  BY <1>1, DeskTopAssumption DEF Closed, Lower
<1>3. PICK f : Follows(f, {DeskTop}, step) /\ \A w \in Widgets : f[w] \in SUBSET Widgets
  BY <1>2, DownExists
<1>4. f = E(f)
  <2>1. ASSUME NEW w \in Widgets
        PROVE  f[w] = IF Parent[w] = NULL THEN {w} ELSE {w} \cup f[Parent[w]]
    <3>1. CASE w = DeskTop
      BY <1>3, <3>1, ParentIs DEF Follows
    <3>2. CASE w # DeskTop
      <4>1. w \in Lower
        BY <3>2 DEF Lower
      <4>2. Parent[w] \in Widgets /\ Parent[w] # NULL
        BY <4>1, ParentIs
      <4>3. f[w] = step[w][f[Parent[w]]] /\ f[Parent[w]] \in SUBSET Widgets
        BY <1>3, <4>1, <4>2 DEF Follows
      <4> QED
        BY <1>1, <4>2, <4>3
    <3> QED
      BY <3>1, <3>2
  <2>2. f = [w \in Widgets |-> f[w]]
    BY <1>3 DEF Follows
  <2> QED
    BY <2>1, <2>2
<1>5. Line = CHOOSE x : x = E(x)
  BY DEF Line
<1>6. Line = E(Line)
  <2> HIDE DEF E
  <2> QED
    BY <1>4, <1>5
<1>7. \A w \in Widgets : Line[w] = IF Parent[w] = NULL THEN {w} ELSE {w} \cup Line[Parent[w]]
  BY <1>6
<1>8. Line[DeskTop] = {DeskTop}
  BY <1>7, ParentIs, DeskTopAssumption
<1>9. \A w \in Lower : Line[w] = {w} \cup Line[Parent[w]]
  BY <1>7, ParentIs DEF Lower
<1>10. \A w \in Widgets : Line[w] \subseteq Widgets
  <2> DEFINE T == {w \in Widgets : Line[w] \subseteq Widgets}
  <2>1. DeskTop \in T
    BY <1>8, DeskTopAssumption
  <2>2. \A w \in Lower : Parent[w] \in T => w \in T
    BY <1>9 DEF Lower
  <2>3. Widgets \subseteq T
    <3> HIDE DEF T
    <3> QED
      BY <2>1, <2>2, DownTheTree
  <2> QED
    BY <2>3
<1> QED
  BY <1>8, <1>9, <1>10

\* A widget is in its line, and so is the desktop.
LEMMA LineHas == \A w \in Widgets : w \in Line[w] /\ DeskTop \in Line[w]
<1> DEFINE T == {w \in Widgets : w \in Line[w] /\ DeskTop \in Line[w]}
<1>1. DeskTop \in T
  BY LineIs, DeskTopAssumption
<1>2. \A w \in Lower : Parent[w] \in T => w \in T
  BY LineIs DEF Lower
<1>3. Widgets \subseteq T
  <2> HIDE DEF T
  <2> QED
    BY <1>1, <1>2, DownTheTree
<1> QED
  BY <1>3

\* What is above a widget has all that is above itself there too.
LEMMA LineOfLine ==
  ASSUME NEW w \in Widgets, NEW x \in Line[w]
  PROVE  x \in Widgets /\ Line[x] \subseteq Line[w] /\ (x # DeskTop => x \in Lower /\ Parent[x] \in Line[w])
<1> DEFINE T == {v \in Widgets : \A y \in Line[v] : Line[y] \subseteq Line[v]}
<1>1. DeskTop \in T
  BY LineIs, DeskTopAssumption
<1>2. \A v \in Lower : Parent[v] \in T => v \in T
  BY LineIs DEF Lower
<1>3. Widgets \subseteq T
  <2> HIDE DEF T
  <2> QED
    BY <1>1, <1>2, DownTheTree
<1>4. x \in Widgets /\ Line[x] \subseteq Line[w]
  BY <1>3, LineIs
<1>5. ASSUME x # DeskTop PROVE x \in Lower /\ Parent[x] \in Line[w]
  <2>1. x \in Lower
    BY <1>4, <1>5 DEF Lower
  <2>2. Parent[x] \in Line[Parent[x]]
    BY <2>1, ParentIs, LineHas
  <2> QED
    BY <1>4, <2>1, <2>2, LineIs
<1> QED
  BY <1>4, <1>5

\* Above a widget there is another one, and the lines do not go round.
LEMMA LineRises ==
  ASSUME NEW w \in Widgets, NEW x \in Line[w], x # w
  PROVE  /\ w \in Lower /\ x \in Line[Parent[w]] /\ w \notin Line[x]
         /\ \E y \in Line[w] : y \in Lower /\ Parent[y] = x
<1>1. PICK depth, n : Graded(depth, n)
  BY DepthExists
<1>2. \A v \in Widgets : depth[v] \in Nat
  BY <1>1 DEF Graded
<1>3. \A v \in Lower : v \in Widgets /\ Parent[v] \in Widgets /\ depth[v] = depth[Parent[v]] + 1
  BY <1>1, ParentIs DEF Graded, Lower
<1> DEFINE T == {v \in Widgets : \A y \in Line[v] : depth[y] <= depth[v] /\ (y # v => depth[y] < depth[v])}
<1>4. DeskTop \in T
  BY <1>2, LineIs, DeskTopAssumption
<1>5. ASSUME NEW v \in Lower, Parent[v] \in T PROVE v \in T
  <2> SUFFICES ASSUME NEW y \in Line[v] PROVE depth[y] <= depth[v] /\ (y # v => depth[y] < depth[v])
    BY <1>3
  <2>1. y = v \/ y \in Line[Parent[v]]
    BY LineIs
  <2>2. CASE y = v
    BY <1>2, <1>3, <2>2
  <2>3. CASE y \in Line[Parent[v]]
    <3>1. y \in Widgets /\ depth[y] <= depth[Parent[v]]
      BY <1>3, <1>5, <2>3, LineIs
    <3> QED
      BY <1>2, <1>3, <3>1
  <2> QED
    BY <2>1, <2>2, <2>3
<1>6. Widgets \subseteq T
  <2> HIDE DEF T
  <2> QED
    BY <1>4, <1>5, DownTheTree
<1>7. w \in Lower
  BY LineIs DEF Lower
<1>8. x \in Line[Parent[w]]
  BY <1>7, LineIs
<1>9. w \notin Line[x]
  <2>1. x \in Widgets /\ depth[x] < depth[w]
    BY <1>6, LineIs
  <2>2. w \in Line[x] => depth[w] <= depth[x]
    BY <1>6, <2>1
  <2> QED
    BY <1>2, <2>1, <2>2
<1> DEFINE U == {v \in Widgets : \A z \in Line[v] : z # v => \E y \in Line[v] : y \in Lower /\ Parent[y] = z}
<1>10. DeskTop \in U
  BY LineIs, DeskTopAssumption
<1>11. ASSUME NEW v \in Lower, Parent[v] \in U PROVE v \in U
  <2> SUFFICES ASSUME NEW z \in Line[v], z # v PROVE \E y \in Line[v] : y \in Lower /\ Parent[y] = z
    BY <1>3
  <2>1. z \in Line[Parent[v]] /\ v \in Line[v] /\ Line[Parent[v]] \subseteq Line[v]
    BY LineIs
  <2>2. CASE z = Parent[v]
    BY <2>1, <2>2
  <2>3. CASE z # Parent[v]
    BY <1>11, <2>1, <2>3
  <2> QED
    BY <2>2, <2>3
<1>12. Widgets \subseteq U
  <2> HIDE DEF U
  <2> QED
    BY <1>10, <1>11, DownTheTree
<1> QED
  BY <1>7, <1>8, <1>9, <1>12

\* Of two widgets above one, one is above the other.
LEMMA LineIsLinear ==
  ASSUME NEW w \in Widgets, NEW x \in Line[w], NEW y \in Line[w]
  PROVE  x \in Line[y] \/ y \in Line[x]
<1> DEFINE T == {v \in Widgets : \A s, t \in Line[v] : s \in Line[t] \/ t \in Line[s]}
<1>1. DeskTop \in T
  BY LineIs, DeskTopAssumption
<1>2. \A v \in Lower : Parent[v] \in T => v \in T
  BY LineIs DEF Lower
<1>3. Widgets \subseteq T
  <2> HIDE DEF T
  <2> QED
    BY <1>1, <1>2, DownTheTree
<1> QED
  BY <1>3

\* The parent is above the widget, and the widget not above its parent.
LEMMA AboveParent ==
  ASSUME NEW w \in Lower
  PROVE  /\ w \in Widgets /\ w # DeskTop /\ Parent[w] \in Widgets
         /\ Parent[w] \in Line[w] /\ w \notin Line[Parent[w]]
<1>1. w \in Widgets /\ w # DeskTop /\ Parent[w] \in Widgets
  BY ParentIs DEF Lower
<1>2. Parent[w] \in Line[Parent[w]] /\ Line[w] = {w} \cup Line[Parent[w]]
  BY <1>1, LineHas, LineIs
<1>3. PICK depth, n : Graded(depth, n)
  BY DepthExists
<1>4. Parent[w] # w
  BY <1>1, <1>3 DEF Graded
<1>5. w \notin Line[Parent[w]]
  BY <1>1, <1>2, <1>4, LineRises
<1> QED
  BY <1>1, <1>2, <1>5

\* In a line there is one child of each widget.
LEMMA OneChild ==
  ASSUME NEW w \in Widgets, NEW x \in Line[w], NEW y \in Line[w], x \in Lower, y \in Lower, Parent[x] = Parent[y]
  PROVE  x = y
<1> SUFFICES ASSUME x # y PROVE FALSE
  OBVIOUS
<1>1. x \in Line[y] \/ y \in Line[x]
  BY LineIsLinear
<1>2. \A u, v \in Lower : Parent[u] = Parent[v] /\ u \in Line[v] => u = v
  BY LineIs, AboveParent
<1> QED
  BY <1>1, <1>2
-----------------------------------------------------------------------------
(***************************************************************************)
(* The children as they are now.                                           *)
(***************************************************************************)

\* Only the windows come and go, and no child is there twice.
Nests(tree) ==
  /\ tree \in [Widgets -> Seq(Widgets)]
  /\ \A v \in Widgets : ToSet(tree[v]) \subseteq ToSet(Layout[v])
  /\ \A v \in Lower : ToSet(tree[v]) = ToSet(Layout[v])
  /\ \A v \in Widgets : \A i, j \in DOMAIN tree[v] : tree[v][i] = tree[v][j] => i = j

\* The children everything begins with.
LEMMA LayoutNests == Nests(Layout)
  BY LayoutAssumption DEF Nests

\* Who is among the children of a widget has it for its parent.
LEMMA KidsNest ==
  ASSUME NEW tree, Nests(tree), NEW v \in Widgets, NEW w \in ToSet(tree[v])
  PROVE  w \in Lower /\ Parent[w] = v
BY ParentIs DEF Nests

\* A widget is on the desktop when its parent is and has it among its children.
LEMMA InTreeIs ==
  ASSUME NEW tree, Nests(tree)
  PROVE  /\ DeskTop \in InTree(tree) /\ InTree(tree) \subseteq Widgets
         /\ \A w \in Lower : w \in InTree(tree) => Parent[w] \in InTree(tree) /\ w \in ToSet(tree[Parent[w]])
         /\ \A v \in InTree(tree) : \A w \in ToSet(tree[v]) : w \in InTree(tree)
<1>1. InTree(tree) \subseteq Widgets /\ DeskTop \in InTree(tree)
  BY LineIs, DeskTopAssumption DEF InTree
<1>2. ASSUME NEW w \in Lower, w \in InTree(tree)
      PROVE  Parent[w] \in InTree(tree) /\ w \in ToSet(tree[Parent[w]])
  <2>1. w \in Line[w] \ {DeskTop} /\ Parent[w] \in Widgets /\ Line[Parent[w]] \subseteq Line[w]
    BY LineHas, LineIs, AboveParent
  <2> QED
    BY <1>2, <2>1 DEF InTree
<1>3. ASSUME NEW v \in InTree(tree), NEW w \in ToSet(tree[v]) PROVE w \in InTree(tree)
  <2>1. v \in Widgets /\ w \in Lower /\ Parent[w] = v
    BY <1>1, KidsNest
  <2>2. Line[w] = {w} \cup Line[v] /\ w \in Widgets
    BY <2>1, LineIs DEF Lower
  <2> QED
    BY <1>3, <2>1, <2>2 DEF InTree
<1> QED
  BY <1>1, <1>2, <1>3

\* What is above and what is below a widget on the desktop is there, too.
LEMMA InTreeLine ==
  ASSUME NEW tree, Nests(tree), NEW w \in Widgets, NEW x \in Line[w]
  PROVE  /\ w \in InTree(tree) => x \in InTree(tree)
         /\ x \in Lower /\ x \in InTree(tree) => w \in InTree(tree)
<1>1. x \in Widgets /\ Line[x] \subseteq Line[w]
  BY LineOfLine
<1>2. ASSUME w \in InTree(tree) PROVE x \in InTree(tree)
  BY <1>1, <1>2 DEF InTree
<1>3. ASSUME x \in Lower, x \in InTree(tree) PROVE w \in InTree(tree)
  <2> SUFFICES ASSUME NEW i \in Line[w] \ {DeskTop} PROVE i \in ToSet(tree[Parent[i]])
    BY DEF InTree
  <2>1. i \in Lower /\ Parent[i] \in Widgets /\ i \in Widgets /\ Line[i] = {i} \cup Line[Parent[i]]
    BY LineOfLine, AboveParent, LineIs
  <2>2. i \in Line[x] \/ x \in Line[i]
    BY LineIsLinear
  <2>3. CASE i \in Line[x]
    BY <1>3, <2>3 DEF InTree
  <2>4. CASE x \in Line[i] /\ i \notin Line[x]
    <3>1. x \in Line[Parent[i]]
      BY <1>1, <2>1, <2>4, LineHas
    <3>2. Parent[i] \in Lower
      BY <1>3, <2>1, <3>1, LineIs DEF Lower
    <3> QED
      BY <2>1, <3>2, ParentIs DEF Nests
  <2> QED
    BY <2>2, <2>3, <2>4
<1> QED
  BY <1>2, <1>3

\* Of two children, one is in front of the other.
LEMMA InFrontIs ==
  ASSUME NEW t, Nests(t.kids), NEW w \in Lower
  PROVE  /\ InFront(t, w) \subseteq ToSet(t.kids[Parent[w]]) /\ w \notin InFront(t, w)
         /\ \A v \in Lower :
              Parent[v] = Parent[w] /\ v # w
                /\ v \in ToSet(t.kids[Parent[w]]) /\ w \in ToSet(t.kids[Parent[w]])
              => v \in InFront(t, w) \/ w \in InFront(t, v)
<1>1. PICK s : s = t.kids[Parent[w]]
  OBVIOUS
<1>2. Parent[w] \in Widgets /\ Parent[w] # NULL
  BY ParentIs
<1>3. s \in Seq(Widgets) /\ \A i, j \in DOMAIN s : s[i] = s[j] => i = j
  BY <1>1, <1>2 DEF Nests
<1>4. \A v \in Lower : Parent[v] = Parent[w] =>
        InFront(t, v) = {s[i] : i \in {j \in DOMAIN s : \E k \in DOMAIN s : j < k /\ s[k] = v}}
  BY <1>1, <1>2 DEF InFront
<1>5. DOMAIN s \subseteq Nat
  BY <1>3
<1>6. InFront(t, w) \subseteq ToSet(s)
  BY <1>4 DEF ToSet
<1>7. w \notin InFront(t, w)
  BY <1>3, <1>4, <1>5
<1>8. ASSUME NEW v \in Lower, Parent[v] = Parent[w], v # w, v \in ToSet(s), w \in ToSet(s)
      PROVE  v \in InFront(t, w) \/ w \in InFront(t, v)
  <2>1. PICK i \in DOMAIN s : s[i] = v
    BY <1>8 DEF ToSet
  <2>2. PICK j \in DOMAIN s : s[j] = w
    BY <1>8 DEF ToSet
  <2>3. i < j \/ j < i
    BY <1>5, <1>8, <2>1, <2>2
  <2> QED
    BY <1>4, <1>8, <2>1, <2>2, <2>3
<1> QED
  BY <1>1, <1>6, <1>7, <1>8

\* Nothing is in front of the desktop.
LEMMA NoneInFront == \A t : InFront(t, DeskTop) = {}
  BY ParentIs DEF InFront

\* The first child that has a property has none with it in front.
LEMMA FirstInFront ==
  ASSUME NEW t, Nests(t.kids), NEW v \in Widgets, NEW S, NEW m \in DOMAIN t.kids[v],
         \A i \in DOMAIN t.kids[v] : t.kids[v][i] \in S => m <= i
  PROVE  t.kids[v][m] \in ToSet(t.kids[v]) /\ InFront(t, t.kids[v][m]) \cap S = {}
<1>1. PICK s : s = t.kids[v]
  OBVIOUS
<1>2. s \in Seq(Widgets) /\ \A i, j \in DOMAIN s : s[i] = s[j] => i = j
  BY <1>1 DEF Nests
<1>3. DOMAIN s \subseteq Nat /\ m \in DOMAIN s
  BY <1>1, <1>2
<1>4. s[m] \in ToSet(s)
  BY <1>3 DEF ToSet
<1>5. s[m] \in Lower /\ Parent[s[m]] = v
  BY <1>1, <1>4, KidsNest
<1>6. v # NULL
  BY DeskTopAssumption
<1>7. InFront(t, s[m]) = {s[i] : i \in {j \in DOMAIN s : \E k \in DOMAIN s : j < k /\ s[k] = s[m]}}
  BY <1>1, <1>5, <1>6 DEF InFront
<1>8. InFront(t, s[m]) \cap S = {}
  <2> SUFFICES ASSUME NEW i \in DOMAIN s, NEW k \in DOMAIN s, i < k, s[k] = s[m], s[i] \in S PROVE FALSE
    BY <1>7
  <2>1. k = m
    BY <1>2, <1>3
  <2>2. m <= i
    BY <1>1
  <2>3. i \in Nat /\ m \in Nat
    BY <1>3
  <2> QED
    BY <2>1, <2>2, <2>3
<1> QED
  BY <1>1, <1>4, <1>8

\* Of those children that have a property, one is in front.
LEMMA FrontOne ==
  ASSUME NEW t, Nests(t.kids), NEW v \in Widgets, NEW S, \E w \in ToSet(t.kids[v]) : w \in S
  PROVE  \E w \in ToSet(t.kids[v]) : w \in S /\ InFront(t, w) \cap S = {}
<1>1. PICK s : s = t.kids[v]
  OBVIOUS
<1>2. s \in Seq(Widgets)
  BY <1>1 DEF Nests
<1>3. PICK H : H = {i \in DOMAIN s : s[i] \in S}
  OBVIOUS
<1>4. H \in SUBSET Nat /\ H # {}
  BY <1>1, <1>2, <1>3 DEF ToSet
<1>5. PICK m \in H : \A n \in H : m <= n
  BY <1>4, LeastNumber
<1>6. m \in DOMAIN s /\ s[m] \in S /\ \A i \in DOMAIN s : s[i] \in S => m <= i
  BY <1>3, <1>5
<1> QED
  BY <1>1, <1>6, FirstInFront
-----------------------------------------------------------------------------
(***************************************************************************)
(* Whose picture belongs to a pixel.                                       *)
(***************************************************************************)

\* A tree of widgets each of which is drawn within its parent, if at all.
Whole(t) ==
  /\ Nests(t.kids) /\ t.on = InTree(t.kids)
  /\ t.visible \subseteq Widgets /\ DeskTop \in t.visible
  /\ \A w \in Widgets : t.px[w] = PixelsOf(t.pos[w].draw)
  /\ \A w \in Lower : w \in t.on => t.px[w] \subseteq t.px[Parent[w]]
  /\ t.px[DeskTop] = Pixels
  /\ \A w \in t.on : t.pos[w].draw \in Rect /\ ~Tiny(t.pos[w].draw)

\* Nothing beside w or beside what is above w hides p of w.
Clear(t, p, w) ==
  /\ w \in t.on /\ Line[w] \subseteq t.visible /\ p \in t.px[w]
  /\ \A x \in Line[w] : \A v \in InFront(t, x) : v \in t.visible => p \notin t.px[v]

\* And nothing below it does.
OnTop(t, p, w) ==
  /\ Clear(t, p, w)
  /\ \A v \in ToSet(t.kids[w]) : v \in t.visible => p \notin t.px[v]

\* What is above a widget on the desktop is there too, and is drawn where the widget is.
LEMMA WithinLine ==
  ASSUME NEW t, Whole(t), NEW w \in t.on, NEW x \in Line[w]
  PROVE  w \in Widgets /\ x \in t.on /\ t.px[w] \subseteq t.px[x]
<1> DEFINE T == {v \in Widgets : v \in t.on => \A y \in Line[v] : t.px[v] \subseteq t.px[y]}
<1>1. DeskTop \in T
  BY LineIs, DeskTopAssumption
<1>2. ASSUME NEW v \in Lower, Parent[v] \in T PROVE v \in T
  <2> SUFFICES ASSUME v \in t.on, NEW y \in Line[v] PROVE t.px[v] \subseteq t.px[y]
    BY DEF Lower
  <2>1. Parent[v] \in t.on /\ t.px[v] \subseteq t.px[Parent[v]]
    BY InTreeIs DEF Whole
  <2>2. y = v \/ y \in Line[Parent[v]]
    BY LineIs
  <2> QED
    BY <1>2, <2>1, <2>2
<1>3. Widgets \subseteq T
  <2> HIDE DEF T
  <2> QED
    BY <1>1, <1>2, DownTheTree
<1>4. w \in Widgets
  BY InTreeIs DEF Whole
<1>5. x \in t.on
  BY <1>4, InTreeLine DEF Whole
<1> QED
  BY <1>3, <1>4, <1>5

\* What hides a widget's parent hides the widget.
LEMMA ClearAbove ==
  ASSUME NEW t, Whole(t), NEW p, NEW w, Clear(t, p, w), NEW x \in Line[w]
  PROVE  Clear(t, p, x)
<1>1. w \in t.on /\ w \in Widgets
  BY InTreeIs DEF Clear, Whole
<1>2. Line[x] \subseteq Line[w] /\ x \in t.on /\ t.px[w] \subseteq t.px[x]
  BY <1>1, LineOfLine, WithinLine
<1> QED
  BY <1>2 DEF Clear

\* Nothing hides the desktop from beside.
LEMMA ClearDesk ==
  ASSUME NEW t, Whole(t), NEW p \in Pixels
  PROVE  Clear(t, p, DeskTop)
BY LineIs, NoneInFront, InTreeIs, DeskTopAssumption DEF Clear, Whole

\* The child in front at p is hidden from beside no more than its parent.
LEMMA ClearKid ==
  ASSUME NEW t, Whole(t), NEW p, NEW v, Clear(t, p, v), NEW w \in ToSet(t.kids[v]),
         w \in t.visible, p \in t.px[w], \A x \in InFront(t, w) : x \in t.visible => p \notin t.px[x]
  PROVE  Clear(t, p, w) /\ w \in Lower /\ Parent[w] = v /\ v \in Line[w]
<1>1. v \in t.on /\ v \in Widgets
  BY InTreeIs DEF Clear, Whole
<1>2. w \in Lower /\ Parent[w] = v /\ w \in t.on
  BY <1>1, KidsNest, InTreeIs DEF Whole
<1>3. Line[w] = {w} \cup Line[v] /\ v \in Line[w]
  BY <1>1, <1>2, LineIs, LineHas
<1> QED
  BY <1>2, <1>3 DEF Clear

\* The widget on top is below all that nothing hides from beside.
LEMMA TopBelow ==
  ASSUME NEW t, Whole(t), NEW p, NEW w, OnTop(t, p, w), NEW x, Clear(t, p, x)
  PROVE  x \in Line[w]
<1>1. w \in t.on /\ w \in Widgets /\ Clear(t, p, w) /\ x \in Widgets
  BY InTreeIs DEF OnTop, Clear, Whole
<1> DEFINE T == {v \in Widgets : Clear(t, p, v) => v \in Line[w]}
<1>2. DeskTop \in T
  BY <1>1, LineHas, DeskTopAssumption
<1>3. ASSUME NEW v \in Lower, Parent[v] \in T PROVE v \in T
  <2> SUFFICES ASSUME Clear(t, p, v) PROVE v \in Line[w]
    BY DEF Lower
  <2>1. v \in Widgets /\ v \in Line[v] /\ Parent[v] \in Widgets /\ Parent[v] \in Line[v]
    BY AboveParent, LineHas
  <2>2. Parent[v] \in Line[w]
    BY <1>3, <2>1, ClearAbove
  <2>3. v \in t.on /\ v \in t.visible /\ p \in t.px[v] /\ v \in ToSet(t.kids[Parent[v]])
    BY <2>1, InTreeIs DEF Clear, Whole
  <2>4. Parent[v] # w
    BY <2>3 DEF OnTop
  <2>5. PICK y \in Line[w] : y \in Lower /\ Parent[y] = Parent[v]
    BY <1>1, <2>2, <2>4, LineRises
  <2> SUFFICES ASSUME y # v PROVE FALSE
    BY <2>5
  <2>6. y \in t.on /\ p \in t.px[y] /\ y \in t.visible /\ y \in ToSet(t.kids[Parent[v]])
    <3>1. y \in t.on /\ p \in t.px[y] /\ y \in t.visible
      BY <1>1, WithinLine DEF Clear
    <3> QED
      BY <2>5, <3>1, InTreeIs DEF Whole
  <2>7. Nests(t.kids)
    BY DEF Whole
  <2>8. y \in InFront(t, v) \/ v \in InFront(t, y)
    BY <2>3, <2>5, <2>6, <2>7, InFrontIs
  <2>9. CASE y \in InFront(t, v)
    BY <2>1, <2>6, <2>9 DEF Clear
  <2>10. CASE v \in InFront(t, y)
    BY <1>1, <2>3, <2>10 DEF Clear
  <2> QED
    BY <2>8, <2>9, <2>10
<1>4. Widgets \subseteq T
  <2> HIDE DEF T
  <2> QED
    BY <1>2, <1>3, DownTheTree
<1> QED
  BY <1>1, <1>4

\* One widget is on top.
LEMMA TopOne ==
  ASSUME NEW t, Whole(t), NEW p, NEW v, NEW w, OnTop(t, p, v), OnTop(t, p, w)
  PROVE  v = w
<1>1. Clear(t, p, v) /\ Clear(t, p, w)
  BY DEF OnTop
<1>2. v \in Line[w] /\ w \in Line[v]
  BY <1>1, TopBelow
<1>3. v \in Widgets /\ w \in Widgets
  BY <1>1, InTreeIs DEF Clear, Whole
<1> QED
  BY <1>2, <1>3, LineRises

\* Some widget is on top.
LEMMA TopExists ==
  ASSUME NEW t, Whole(t), NEW p, NEW x, Clear(t, p, x)
  PROVE  \E w : OnTop(t, p, w) /\ x \in Line[w]
<1> DEFINE T == {v \in Widgets : Clear(t, p, v) => \E w : OnTop(t, p, w) /\ v \in Line[w]}
<1>1. ASSUME NEW v \in Widgets, \A y \in Lower : Parent[y] = v => y \in T PROVE v \in T
  <2> SUFFICES ASSUME Clear(t, p, v) PROVE \E w : OnTop(t, p, w) /\ v \in Line[w]
    OBVIOUS
  <2>1. PICK S : S = {w \in t.visible : p \in t.px[w]}
    OBVIOUS
  <2>2. CASE \A w \in ToSet(t.kids[v]) : w \notin S
    BY <2>1, <2>2, LineHas DEF OnTop
  <2>3. CASE \E w \in ToSet(t.kids[v]) : w \in S
    <3>1. PICK w \in ToSet(t.kids[v]) : w \in S /\ InFront(t, w) \cap S = {}
      BY <2>3, FrontOne DEF Whole
    <3>2. w \in t.visible /\ p \in t.px[w] /\ \A y \in InFront(t, w) : y \in t.visible => p \notin t.px[y]
      BY <2>1, <3>1
    <3>3. Clear(t, p, w) /\ w \in Lower /\ Parent[w] = v /\ v \in Line[w]
      BY <3>2, ClearKid
    <3>4. PICK z : OnTop(t, p, z) /\ w \in Line[z]
      BY <1>1, <3>3
    <3>5. z \in Widgets
      BY <3>4, InTreeIs DEF OnTop, Clear, Whole
    <3> QED
      BY <3>3, <3>4, <3>5, LineOfLine
  <2> QED
    BY <2>2, <2>3
<1>2. Widgets \subseteq T
  <2> HIDE DEF T
  <2> QED
    BY <1>1, UpTheTree
<1>3. x \in Widgets
  BY InTreeIs DEF Clear, Whole
<1> QED
  BY <1>2, <1>3
-----------------------------------------------------------------------------
(***************************************************************************)
(* Looking for the widget under a pixel.                                   *)
(***************************************************************************)

\* A way down ends.
LEMMA UpExists ==
  ASSUME NEW next,
         \A o \in Widgets : next[o] = o \/ (next[o] \in Lower /\ Parent[next[o]] = o)
  PROVE  \E f : /\ f = [o \in Widgets |-> f[o]]
                /\ \A o \in Widgets : f[o] = IF next[o] = o THEN o ELSE f[next[o]]
<1>1. PICK depth, n : Graded(depth, n)
  BY DepthExists
<1>2. n \in Nat /\ \A w \in Widgets : depth[w] \in Nat /\ depth[w] <= n
  BY <1>1 DEF Graded
<1>3. \A w \in Lower : w \in Widgets /\ Parent[w] \in Widgets /\ depth[w] = depth[Parent[w]] + 1
  BY <1>1, ParentIs DEF Graded, Lower
<1> DEFINE Goes(f, k) ==
             /\ f = [o \in Widgets |-> f[o]]
             /\ \A o \in Widgets : n - depth[o] <= k => f[o] = IF next[o] = o THEN o ELSE f[next[o]]
           R == {k \in Nat : \E f : Goes(f, k)}
<1>4. 0 \in R
  <2>1. PICK f : f = [o \in Widgets |-> o]
    OBVIOUS
  <2>2. ASSUME NEW o \in Widgets, n - depth[o] <= 0 PROVE next[o] = o
    BY <1>2, <1>3, <2>2
  <2>3. Goes(f, 0)
    BY <2>1, <2>2
  <2> HIDE DEF Goes
  <2> QED
    BY <2>3
<1>5. ASSUME NEW k \in Nat, k \in R PROVE k + 1 \in R
  <2>1. PICK f : Goes(f, k)
    BY <1>5
  <2>2. PICK g : g = [o \in Widgets |-> IF n - depth[o] = k + 1 /\ next[o] # o THEN f[next[o]] ELSE
                                        IF n - depth[o] = k + 1 THEN o ELSE f[o]]
    OBVIOUS
  <2>3. ASSUME NEW o \in Widgets, n - depth[o] <= k + 1
        PROVE  g[o] = IF next[o] = o THEN o ELSE g[next[o]]
    <3>1. ASSUME next[o] # o PROVE g[next[o]] = f[next[o]]
      <4>1. next[o] \in Widgets /\ depth[next[o]] = depth[o] + 1
        BY <1>3, <3>1
      <4>2. n - depth[next[o]] # k + 1
        BY <1>2, <2>3, <4>1
      <4> QED
        BY <2>2, <4>1, <4>2
    <3>2. CASE n - depth[o] = k + 1
      BY <2>2, <3>1, <3>2
    <3>3. CASE n - depth[o] # k + 1
      <4>1. n - depth[o] <= k
        BY <1>2, <2>3, <3>3
      <4>2. g[o] = f[o]
        BY <2>2, <3>3
      <4> QED
        BY <2>1, <3>1, <4>1, <4>2
    <3> QED
      BY <3>2, <3>3
  <2>4. g = [o \in Widgets |-> g[o]]
    BY <2>2
  <2>5. Goes(g, k + 1)
    BY <2>3, <2>4
  <2> HIDE DEF Goes
  <2> QED
    BY <2>5
<1> HIDE DEF Goes, R
<1>6. Nat \subseteq R
  BY <1>4, <1>5, SetInduction
<1>7. PICK f : Goes(f, n)
  BY <1>2, <1>6 DEF R
<1>8. ASSUME NEW o \in Widgets PROVE n - depth[o] <= n
  <2>1. n \in Nat /\ depth[o] \in Nat
    BY <1>2
  <2> QED
    BY <2>1
<1> QED
  BY <1>7, <1>8 DEF Goes

\* On its way down, the search goes on with the first child in S.
Searches(t, at, S) ==
  \A o \in Widgets :
    \/ at[o] = o /\ \A w \in ToSet(t.kids[o]) : w \notin S
    \/ \E w \in ToSet(t.kids[o]) : w \in S /\ InFront(t, w) \cap S = {} /\ at[o] = at[w]

\* Descend is such a search.
LEMMA DescendIs ==
  ASSUME NEW p, NEW rect, NEW t, Nests(kids), t.kids = kids
  PROVE  \E at : Descend(p, rect) = at[DeskTop] /\ Searches(t, at, {w \in visible : PointInRect(p, rect[w])})
<1> DEFINE Hit(o) == {i \in DOMAIN kids[o] : kids[o][i] \in visible /\ PointInRect(p, rect[kids[o][i]])}
           First(o) == CHOOSE i \in Hit(o) : \A j \in Hit(o) : i <= j
           E(x) == [o \in Widgets |-> IF Hit(o) = {} THEN o ELSE x[kids[o][First(o)]]]
           S == {w \in visible : PointInRect(p, rect[w])}
<1>1. ASSUME NEW o \in Widgets, Hit(o) # {}
      PROVE  /\ First(o) \in DOMAIN kids[o] /\ kids[o][First(o)] \in S
             /\ \A i \in DOMAIN kids[o] : kids[o][i] \in S => First(o) <= i
             /\ kids[o][First(o)] \in ToSet(kids[o])
  <2>1. kids[o] \in Seq(Widgets)
    BY DEF Nests
  <2>2. Hit(o) \in SUBSET Nat
    BY <2>1
  <2>3. \E i \in Hit(o) : \A j \in Hit(o) : i <= j
    <3>1. PICK H : H = Hit(o)
      OBVIOUS
    <3>2. H \in SUBSET Nat /\ H # {}
      BY <1>1, <2>2, <3>1
    <3>3. \E i \in H : \A j \in H : i <= j
      BY <3>2, LeastNumber
    <3> QED
      BY <3>1, <3>3
  <2>4. PICK m : m = First(o)
    OBVIOUS
  <2>5. m \in Hit(o) /\ \A j \in Hit(o) : m <= j
    BY <2>3, <2>4
  <2>6. m \in DOMAIN kids[o] /\ kids[o][m] \in S
    BY <2>5
  <2>7. \A i \in DOMAIN kids[o] : kids[o][i] \in S => m <= i
    BY <2>5
  <2>8. kids[o][m] \in ToSet(kids[o])
    BY <2>6 DEF ToSet
  <2> HIDE DEF First, Hit, S
  <2> QED
    BY <2>4, <2>6, <2>7, <2>8
<1>2. PICK next : next = [o \in Widgets |-> IF Hit(o) = {} THEN o ELSE kids[o][First(o)]]
  OBVIOUS
<1>3. Descend(p, rect) = (CHOOSE x : x = E(x))[DeskTop]
  BY DEF Descend
<1>4. \A o \in Widgets : Hit(o) = {} => \A w \in ToSet(kids[o]) : w \notin S
  BY DEF ToSet
<1> HIDE DEF Hit, First, S
<1>5. ASSUME NEW o \in Widgets
      PROVE  /\ Hit(o) = {} => next[o] = o
             /\ Hit(o) # {} => next[o] = kids[o][First(o)] /\ next[o] \in Lower /\ Parent[next[o]] = o /\ next[o] # o
  <2>1. CASE Hit(o) = {}
    BY <1>2, <2>1
  <2>2. CASE Hit(o) # {}
    <3>1. next[o] = kids[o][First(o)] /\ next[o] \in ToSet(kids[o])
      BY <1>1, <1>2, <2>2
    <3>2. next[o] \in Lower /\ Parent[next[o]] = o
      BY <3>1, KidsNest
    <3>3. next[o] # o
      BY <3>2, AboveParent, LineHas
    <3> QED
      BY <2>2, <3>1, <3>2, <3>3
  <2> QED
    BY <2>1, <2>2
<1>6. PICK f : /\ f = [o \in Widgets |-> f[o]]
               /\ \A o \in Widgets : f[o] = IF next[o] = o THEN o ELSE f[next[o]]
  <2>1. \A o \in Widgets : next[o] = o \/ (next[o] \in Lower /\ Parent[next[o]] = o)
    BY <1>5
  <2> QED
    BY <2>1, UpExists
<1>7. f = E(f)
  <2>1. \A o \in Widgets : f[o] = IF Hit(o) = {} THEN o ELSE f[kids[o][First(o)]]
    BY <1>5, <1>6
  <2>2. f = [o \in Widgets |-> f[o]]
    BY <1>6
  <2> QED
    BY <2>1, <2>2
<1>8. PICK at : at = CHOOSE x : x = E(x)
  OBVIOUS
<1>9. at = E(at)
  <2> HIDE DEF E
  <2> QED
    BY <1>7, <1>8
<1>10. \A o \in Widgets : at[o] = IF Hit(o) = {} THEN o ELSE at[kids[o][First(o)]]
  BY <1>9
<1> HIDE DEF E
<1>11. ASSUME NEW o \in Widgets
       PROVE  \/ at[o] = o /\ \A w \in ToSet(t.kids[o]) : w \notin S
              \/ \E w \in ToSet(t.kids[o]) : w \in S /\ InFront(t, w) \cap S = {} /\ at[o] = at[w]
  <2>1. CASE Hit(o) = {}
    BY <1>4, <1>10, <2>1
  <2>2. CASE Hit(o) # {}
    <3>1. PICK m : m = First(o)
      OBVIOUS
    <3>2. m \in DOMAIN t.kids[o] /\ \A i \in DOMAIN t.kids[o] : t.kids[o][i] \in S => m <= i
      BY <1>1, <2>2, <3>1
    <3>3. t.kids[o][m] \in ToSet(t.kids[o]) /\ InFront(t, t.kids[o][m]) \cap S = {}
      BY <3>2, FirstInFront
    <3>4. t.kids[o][m] \in S /\ at[o] = at[t.kids[o][m]]
      BY <1>1, <1>10, <2>2, <3>1
    <3> QED
      BY <3>3, <3>4
  <2> QED
    BY <2>1, <2>2
<1>12. Searches(t, at, S)
  BY <1>11 DEF Searches
<1>13. Descend(p, rect) = at[DeskTop]
  BY <1>3, <1>8
<1> QED
  BY <1>12, <1>13 DEF S

\* What the search finds by rectangles no smaller than what is drawn is on top, if it is drawn there.
LEMMA SearchFinds ==
  ASSUME NEW t, Whole(t), NEW p, NEW S, NEW at, Searches(t, at, S),
         S \subseteq t.visible, \A w \in t.on : w \in t.visible /\ p \in t.px[w] => w \in S
  PROVE  \A o \in t.on : /\ at[o] \in t.on /\ o \in Line[at[o]]
                         /\ Clear(t, p, o) /\ p \in t.px[at[o]] => OnTop(t, p, at[o])
<1> DEFINE Good(o) == /\ at[o] \in t.on /\ o \in Line[at[o]]
                      /\ Clear(t, p, o) /\ p \in t.px[at[o]] => OnTop(t, p, at[o])
           T == {o \in Widgets : o \in t.on => Good(o)}
<1>1. Nests(t.kids) /\ t.on = InTree(t.kids) /\ t.on \subseteq Widgets
  BY InTreeIs DEF Whole
<1>2. ASSUME NEW o \in Widgets, \A x \in Lower : Parent[x] = o => x \in T PROVE o \in T
  <2> SUFFICES ASSUME o \in t.on PROVE Good(o)
    OBVIOUS
  <2>1. \A w \in ToSet(t.kids[o]) : w \in t.on /\ w \in Lower /\ w \in Widgets /\ Parent[w] = o
    BY <1>1, InTreeIs, KidsNest DEF Lower
  <2>2. CASE at[o] = o /\ \A w \in ToSet(t.kids[o]) : w \notin S
    <3>1. ASSUME Clear(t, p, o) PROVE OnTop(t, p, o)
      BY <2>1, <2>2, <3>1 DEF OnTop
    <3> QED
      BY <2>2, <3>1, LineHas
  <2>3. CASE \E w \in ToSet(t.kids[o]) : w \in S /\ InFront(t, w) \cap S = {} /\ at[o] = at[w]
    <3>1. PICK w \in ToSet(t.kids[o]) : w \in S /\ InFront(t, w) \cap S = {} /\ at[o] = at[w]
      BY <2>3
    <3>2. w \in t.on /\ w \in Lower /\ w \in Widgets /\ Parent[w] = o /\ w \in T
      BY <1>2, <2>1
    <3>3. at[w] \in t.on /\ w \in Line[at[w]] /\ at[w] \in Widgets
      BY <1>1, <3>2
    <3>4. o \in Line[at[w]]
      BY <3>2, <3>3, LineOfLine, AboveParent
    <3>5. ASSUME Clear(t, p, o), p \in t.px[at[w]] PROVE OnTop(t, p, at[w])
      <4>1. p \in t.px[w]
        BY <3>3, <3>5, WithinLine
      <4>2. InFront(t, w) \subseteq t.on
        BY <1>1, <2>1, <3>2, InFrontIs
      <4>3. \A x \in InFront(t, w) : x \in t.visible => p \notin t.px[x]
        BY <3>1, <4>2
      <4>4. Clear(t, p, w)
        BY <3>1, <3>5, <4>1, <4>3, ClearKid
      <4> QED
        BY <3>2, <3>5, <4>4
    <3> HIDE DEF T
    <3> QED
      BY <3>1, <3>3, <3>4, <3>5
  <2> QED
    BY <2>2, <2>3 DEF Searches
<1>3. Widgets \subseteq T
  <2> HIDE DEF T
  <2> QED
    BY <1>2, UpTheTree
<1> QED
  BY <1>1, <1>3

\* And by what is drawn, it is.
LEMMA SearchDrawn ==
  ASSUME NEW t, Whole(t), NEW p, NEW S, NEW at, Searches(t, at, S),
         S = {w \in t.visible : p \in t.px[w]}
  PROVE  \A o \in t.on : Clear(t, p, o) => p \in t.px[at[o]]
<1> DEFINE T == {o \in Widgets : Clear(t, p, o) => p \in t.px[at[o]]}
<1>1. ASSUME NEW o \in Widgets, \A x \in Lower : Parent[x] = o => x \in T PROVE o \in T
  <2> SUFFICES ASSUME Clear(t, p, o) PROVE p \in t.px[at[o]]
    OBVIOUS
  <2>1. CASE at[o] = o
    BY <2>1 DEF Clear
  <2>2. CASE \E w \in ToSet(t.kids[o]) : w \in S /\ InFront(t, w) \cap S = {} /\ at[o] = at[w]
    <3>1. PICK w \in ToSet(t.kids[o]) : w \in S /\ InFront(t, w) \cap S = {} /\ at[o] = at[w]
      BY <2>2
    <3>2. w \in t.visible /\ p \in t.px[w] /\ \A x \in InFront(t, w) : x \in t.visible => p \notin t.px[x]
      BY <3>1
    <3>3. Clear(t, p, w) /\ w \in Lower /\ Parent[w] = o
      BY <3>2, ClearKid
    <3> QED
      BY <1>1, <3>1, <3>3
  <2> QED
    BY <2>1, <2>2 DEF Searches
<1>2. Widgets \subseteq T
  <2> HIDE DEF T
  <2> QED
    BY <1>1, UpTheTree
<1>3. t.on \subseteq Widgets
  BY InTreeIs DEF Whole
<1> QED
  BY <1>2, <1>3
-----------------------------------------------------------------------------
(***************************************************************************)
(* Painting: a pixel that is painted gets the picture that belongs to it.  *)
(***************************************************************************)
LEMMA CacheIs ==
  ASSUME NEW t, Whole(t), NEW w \in t.on, Line[w] \subseteq t.visible, NEW zone, NEW all, NEW p
  PROVE  p \in Cache(t, w, zone, all) <=> OnTop(t, p, w) /\ p \in zone
<1>1. w \in Widgets /\ w \in t.visible
  BY InTreeIs, LineHas DEF Whole
<1>2. PICK d : d = t.pos[w].draw
  OBVIOUS
<1>3. ~(d.a.x - d.b.x + 1 = 0 /\ d.a.y - d.b.y + 1 = 0)
  <2>1. d \in Rect /\ ~Tiny(d)
    BY <1>2 DEF Whole
  <2> QED
    BY <2>1 DEF Rect, Point, Tiny
<1>4. Cache(t, w, zone, all) = (zone \cap t.px[w]) \ UNION {t.px[v] : v \in Covering(t, w) \cap t.visible}
  BY <1>1, <1>2, <1>3 DEF Cache
<1>5. p \in Cache(t, w, zone, all) <=>
        p \in zone /\ p \in t.px[w] /\ \A v \in Covering(t, w) : v \in t.visible => p \notin t.px[v]
  BY <1>4
<1>6. (\A v \in Covering(t, w) : v \in t.visible => p \notin t.px[v]) <=>
        /\ \A v \in ToSet(t.kids[w]) : v \in t.visible => p \notin t.px[v]
        /\ \A x \in Line[w] : \A v \in InFront(t, x) : v \in t.visible => p \notin t.px[v]
  BY DEF Covering
<1> QED
  BY <1>5, <1>6 DEF OnTop, Clear

\* Widgets that are in sight.
InSight(t, S) == \A w \in S : w \in t.on /\ Line[w] \subseteq t.visible

\* The screen sc after S has been painted in a zone.
Paints(after, t, sc, S, zone) ==
  \A p \in Pixels : \A w : OnTop(t, p, w) => after[p] = IF w \in S /\ p \in zone THEN w ELSE sc[p]

\* A pass paints what is on top, where it comes to it, and nothing else.
LEMMA PaintedIs ==
  ASSUME NEW t, Whole(t), NEW sc, NEW S, InSight(t, S), NEW zone, NEW all
  PROVE  Paints(Painted(t, sc, S, zone, all), t, sc, S, zone)
<1> SUFFICES ASSUME NEW p \in Pixels, NEW w, OnTop(t, p, w)
             PROVE  Painted(t, sc, S, zone, all)[p] = IF w \in S /\ p \in zone THEN w ELSE sc[p]
  BY DEF Paints
<1>1. PICK by : by = {v \in S : p \in Cache(t, v, zone, all)}
  OBVIOUS
<1>2. Painted(t, sc, S, zone, all)[p] =
        IF by = {} THEN sc[p]
        ELSE CHOOSE v \in by : \A u \in by : Cardinality(Line[u]) <= Cardinality(Line[v])
  <2>1. by = {v \in S : p \in [u \in S |-> Cache(t, u, zone, all)][v]}
    BY <1>1
  <2> QED
    BY <2>1 DEF Painted
<1>3. \A v \in by : v = w
  BY <1>1, CacheIs, TopOne DEF InSight
<1>4. w \in by <=> w \in S /\ p \in zone
  BY <1>1, CacheIs DEF InSight
<1>5. CASE w \in S /\ p \in zone
  <2>1. by = {w}
    BY <1>3, <1>4, <1>5
  <2>2. Cardinality(Line[w]) \in Nat
    <3>1. w \in Widgets
      BY InTreeIs DEF OnTop, Clear, Whole
    <3>2. IsFiniteSet(Line[w])
      BY <3>1, LineIs, FiniteAssumption, FS_Subset
    <3> QED
      BY <3>2, FS_CardinalityType
  <2>3. \A v \in by : \A u \in by : Cardinality(Line[u]) <= Cardinality(Line[v])
    BY <2>1, <2>2
  <2> QED
    BY <1>2, <1>5, <2>1, <2>3
<1>6. CASE ~(w \in S /\ p \in zone)
  BY <1>2, <1>3, <1>4, <1>6
<1> QED
  BY <1>5, <1>6

\* A pass leaves a picture of the same pixels.
LEMMA PaintedDomain ==
  ASSUME NEW t, NEW sc, NEW S, NEW zone, NEW all
  PROVE  Painted(t, sc, S, zone, all) = [p \in Pixels |-> Painted(t, sc, S, zone, all)[p]]
BY DEF Painted

\* Between a widget and one above it.
LEMMA BetweenIs ==
  ASSUME NEW o \in Widgets, NEW w \in Below(o)
  PROVE  /\ w \in Widgets /\ o \in Line[w] /\ w \in Between(w, o)
         /\ Line[w] = Between(w, o) \cup Line[o]
<1>1. w \in Widgets /\ o \in Line[w]
  BY DEF Below
<1>2. \A x \in Line[w] : x \in Widgets
  BY <1>1, LineIs
<1>3. \A x \in Line[w] : x \in Below(o) \/ x \in Line[o]
  BY <1>1, <1>2, LineIsLinear DEF Below
<1>4. Line[o] \subseteq Line[w] /\ w \in Line[w]
  BY <1>1, LineOfLine, LineHas
<1> QED
  BY <1>1, <1>3, <1>4 DEF Between, Below

\* WidgetDrawAll(o) leaves o and what is below it on the screen where they are on top.
LEMMA DrawAllIs ==
  ASSUME NEW t, Whole(t), NEW sc, NEW o \in Widgets, NEW p \in Pixels, NEW w, OnTop(t, p, w)
  PROVE  WidgetDrawAll(t, sc, o)[p] = IF w \in Below(o) THEN w ELSE sc[p]
<1>1. PICK S : S = {v \in Below(o) \cap t.on : Between(v, o) \subseteq t.visible}
  OBVIOUS
<1>2. w \in t.on /\ Line[w] \subseteq t.visible
  BY DEF OnTop, Clear
<1>3. w \in Below(o) => WidgetCheckVisible(t, o) /\ w \in S
  BY <1>1, <1>2, BetweenIs DEF WidgetCheckVisible
<1>4. CASE ~WidgetCheckVisible(t, o)
  BY <1>3, <1>4 DEF WidgetDrawAll
<1>5. CASE WidgetCheckVisible(t, o)
  <2>1. WidgetDrawAll(t, sc, o) = Painted(t, sc, S, Pixels, TRUE)
    BY <1>1, <1>5 DEF WidgetDrawAll
  <2>2. InSight(t, S)
    BY <1>1, <1>5, BetweenIs DEF WidgetCheckVisible, InSight
  <2>3. \A all : Painted(t, sc, S, Pixels, all)[p] = IF w \in S /\ p \in Pixels THEN w ELSE sc[p]
    BY <2>2, PaintedIs DEF Paints
  <2> QED
    BY <1>1, <1>3, <2>1, <2>3
<1> QED
  BY <1>4, <1>5

\* It leaves a picture of the same pixels.
LEMMA DrawAllDomain ==
  ASSUME NEW t, NEW o, NEW sc, sc = [p \in Pixels |-> sc[p]]
  PROVE  WidgetDrawAll(t, sc, o) = [p \in Pixels |-> WidgetDrawAll(t, sc, o)[p]]
<1>1. PICK S : S = {v \in Below(o) \cap t.on : Between(v, o) \subseteq t.visible}
  OBVIOUS
<1>2. WidgetDrawAll(t, sc, o) = IF ~WidgetCheckVisible(t, o) THEN sc ELSE Painted(t, sc, S, Pixels, TRUE)
  BY <1>1 DEF WidgetDrawAll
<1>3. Painted(t, sc, S, Pixels, TRUE) = [p \in Pixels |-> Painted(t, sc, S, Pixels, TRUE)[p]]
  BY PaintedDomain
<1> QED
  BY <1>2, <1>3

\* WidgetDrawOnRectListEx(o) does so in the list.
LEMMA DrawOnListIs ==
  ASSUME NEW t, Whole(t), NEW sc, NEW o \in Widgets, WidgetCheckVisible(t, o), NEW zone,
         NEW p \in Pixels, NEW w, OnTop(t, p, w)
  PROVE  WidgetDrawOnRectListEx(t, sc, o, zone)[p] = IF w \in Below(o) /\ p \in zone THEN w ELSE sc[p]
<1>1. PICK S : S = {v \in Below(o) \cap t.on : \A x \in Between(v, o) : x \in t.visible /\ zone \cap t.px[x] # {}}
  OBVIOUS
<1> PICK all : all = FALSE
  OBVIOUS
<1>2. WidgetDrawOnRectListEx(t, sc, o, zone) = Painted(t, sc, S, zone, all)
  BY <1>1 DEF WidgetDrawOnRectListEx
<1>3. InSight(t, S)
  BY <1>1, BetweenIs DEF InSight, WidgetCheckVisible
<1>4. Paints(Painted(t, sc, S, zone, all), t, sc, S, zone)
  BY <1>3, PaintedIs
<1>5. ASSUME w \in Below(o), p \in zone PROVE w \in S
  <2>1. w \in t.on /\ Line[w] \subseteq t.visible /\ p \in t.px[w]
    BY DEF OnTop, Clear
  <2>2. \A x \in Line[w] : p \in t.px[x]
    BY <2>1, WithinLine
  <2>3. Between(w, o) \subseteq Line[w]
    BY DEF Between
  <2> QED
    BY <1>1, <1>5, <2>1, <2>2, <2>3
<1> QED
  BY <1>1, <1>2, <1>4, <1>5 DEF Paints

\* It leaves a picture of the same pixels.
LEMMA DrawOnListDomain ==
  ASSUME NEW t, NEW sc, NEW o, NEW zone
  PROVE  WidgetDrawOnRectListEx(t, sc, o, zone) = [p \in Pixels |-> WidgetDrawOnRectListEx(t, sc, o, zone)[p]]
<1>1. PICK S : S = {v \in Below(o) \cap t.on : \A x \in Between(v, o) : x \in t.visible /\ zone \cap t.px[x] # {}}
  OBVIOUS
<1>2. PICK all : all = FALSE
  OBVIOUS
<1>3. WidgetDrawOnRectListEx(t, sc, o, zone) = Painted(t, sc, S, zone, all)
  BY <1>1, <1>2 DEF WidgetDrawOnRectListEx
<1>4. Painted(t, sc, S, zone, all) = [p \in Pixels |-> Painted(t, sc, S, zone, all)[p]]
  BY PaintedDomain
<1> QED
  BY <1>3, <1>4

\* Two rectangles with a pixel in common overlap.
LEMMA InBothOverlay ==
  ASSUME NEW q \in Rect, NEW d \in Rect, NEW p \in Point, PointInRect(p, q), PointInRect(p, d)
  PROVE  RectOverlay(q, d)
BY DEF Rect, Point, PointInRect, RectOverlay

\* WidgetDrawOnRect of the desktop makes all of the rectangle what it ought to be.
LEMMA DrawOnRectIs ==
  ASSUME NEW t, Whole(t), NEW sc, NEW rect \in Rect, NEW p \in Pixels, NEW w, OnTop(t, p, w)
  PROVE  WidgetDrawOnRect(t, sc, DeskTop, rect)[p] = IF PointInRect(p, rect) THEN w ELSE sc[p]
<1>1. PICK S : S = {v \in Below(DeskTop) \cap t.on :
                      \A x \in Between(v, DeskTop) : x \in t.visible /\ RectOverlay(t.pos[x].draw, rect)}
  OBVIOUS
<1>2. WidgetCheckVisible(t, DeskTop)
  BY LineIs DEF WidgetCheckVisible, Whole
<1>3. WidgetDrawOnRect(t, sc, DeskTop, rect) = Painted(t, sc, S, PixelsOf(rect), FALSE)
  BY <1>1, <1>2 DEF WidgetDrawOnRect
<1>4. InSight(t, S)
  BY <1>1, <1>2, BetweenIs, DeskTopAssumption DEF WidgetCheckVisible, InSight
<1>5. \A all : Painted(t, sc, S, PixelsOf(rect), all)[p] = IF w \in S /\ p \in PixelsOf(rect) THEN w ELSE sc[p]
  BY <1>4, PaintedIs DEF Paints
<1>6. ASSUME PointInRect(p, rect) PROVE w \in S
  <2>1. w \in t.on /\ Line[w] \subseteq t.visible /\ p \in t.px[w]
    BY DEF OnTop, Clear
  <2>2. w \in Widgets /\ w \in Below(DeskTop)
    BY <2>1, InTreeIs, LineHas DEF Whole, Below
  <2>3. ASSUME NEW x \in Line[w] PROVE x \in t.visible /\ RectOverlay(t.pos[x].draw, rect)
    <3>1. x \in t.on /\ p \in t.px[x] /\ x \in Widgets
      BY <2>1, <2>2, WithinLine, LineIs
    <3>2. PointInRect(p, t.pos[x].draw) /\ t.pos[x].draw \in Rect
      BY <3>1 DEF Whole, PixelsOf
    <3>3. p \in Point
      BY PixelsAssumption
    <3> QED
      BY <1>6, <2>1, <3>2, <3>3, InBothOverlay
  <2>4. Between(w, DeskTop) \subseteq Line[w]
    BY DEF Between
  <2> QED
    BY <1>1, <2>1, <2>2, <2>3, <2>4
<1>7. p \in PixelsOf(rect) <=> PointInRect(p, rect)
  BY DEF PixelsOf
<1> QED
  BY <1>3, <1>5, <1>6, <1>7

\* It leaves a picture of the same pixels.
LEMMA DrawOnRectDomain ==
  ASSUME NEW t, NEW o, NEW rect, NEW sc, sc = [p \in Pixels |-> sc[p]]
  PROVE  WidgetDrawOnRect(t, sc, o, rect) = [p \in Pixels |-> WidgetDrawOnRect(t, sc, o, rect)[p]]
<1>1. PICK S : S = {v \in Below(o) \cap t.on :
                      \A x \in Between(v, o) : x \in t.visible /\ RectOverlay(t.pos[x].draw, rect)}
  OBVIOUS
<1>2. WidgetDrawOnRect(t, sc, o, rect) =
        IF ~WidgetCheckVisible(t, o) THEN sc ELSE Painted(t, sc, S, PixelsOf(rect), FALSE)
  BY <1>1 DEF WidgetDrawOnRect
<1>3. Painted(t, sc, S, PixelsOf(rect), FALSE) = [p \in Pixels |-> Painted(t, sc, S, PixelsOf(rect), FALSE)[p]]
  BY PaintedDomain
<1> QED
  BY <1>2, <1>3
-----------------------------------------------------------------------------
(***************************************************************************)
(* The coordinates.                                                        *)
(***************************************************************************)
LEMMA InterseptIn ==
  ASSUME NEW q \in Rect, NEW d \in Rect
  PROVE  /\ RectIntersept(q, d) \in Rect
         /\ NonEmpty(q) /\ RectOverlay(q, d) =>
              \A p \in Point : PointInRect(p, RectIntersept(q, d)) => PointInRect(p, q) /\ PointInRect(p, d)
BY DEF RectIntersept, RectAssign, Rect, Point, min, max, NonEmpty, RectOverlay, PointInRect

\* A rectangle that moves stays one.
LEMMA MoveIs ==
  ASSUME NEW q \in Rect, NEW v \in Point
  PROVE  RectMove(q, v) \in Rect /\ (NonEmpty(q) => NonEmpty(RectMove(q, v)))
BY DEF RectMove, RectAssign, Rect, Point, NonEmpty

\* Nowhere is a rectangle, off the screen.
LEMMA NowhereIs == Nowhere \in Rect /\ \A p \in Point : ~PointInRect(p, Nowhere)
BY DEF Nowhere, RectAssign, Rect, Point, PointInRect

\* What is placed is drawn within what its parent leaves to its children.
LEMMA PlacedIs ==
  ASSUME NEW rel \in Rect, NEW area \in Rect, NEW around \in Rect, NEW parent \in Coordinates
  PROVE  /\ Placed(rel, area, around, parent) \in Coordinates
         /\ NonEmpty(rel) =>
              \A p \in Point : PointInRect(p, Placed(rel, area, around, parent).draw) =>
                /\ PointInRect(p, Placed(rel, area, around, parent).abs)
                /\ PointInRect(p, parent.child)
         /\ NonEmpty(area)
              /\ RectOverlay(RectMove(area, Placed(rel, area, around, parent).abs.a),
                             Placed(rel, area, around, parent).draw) =>
              \A p \in Point : PointInRect(p, Placed(rel, area, around, parent).child) =>
                PointInRect(p, Placed(rel, area, around, parent).draw)
<1>1. parent.abs \in Rect /\ parent.draw \in Rect /\ parent.child \in Rect
  BY DEF Coordinates
<1>2. \A q \in Rect : q.a \in Point
  BY DEF Rect
<1>3. PICK abs : abs = RectMove(rel, RectMove(around, parent.abs.a).a)
  OBVIOUS
<1>4. abs \in Rect /\ (NonEmpty(rel) => NonEmpty(abs))
  <2>1. RectMove(around, parent.abs.a) \in Rect
    BY <1>1, <1>2, MoveIs
  <2> QED
    BY <1>2, <1>3, <2>1, MoveIs
<1>5. PICK draw : draw = IF RectOverlay(abs, parent.child) THEN RectIntersept(abs, parent.child) ELSE Nowhere
  OBVIOUS
<1>6. draw \in Rect
  BY <1>1, <1>4, <1>5, InterseptIn, NowhereIs
<1>7. ASSUME NonEmpty(rel), NEW p \in Point, PointInRect(p, draw)
      PROVE  PointInRect(p, abs) /\ PointInRect(p, parent.child)
  BY <1>1, <1>4, <1>5, <1>7, InterseptIn, NowhereIs
<1>8. PICK moved : moved = RectMove(area, abs.a)
  OBVIOUS
<1>9. moved \in Rect /\ (NonEmpty(area) => NonEmpty(moved))
  BY <1>2, <1>4, <1>8, MoveIs
<1>10. RectIntersept(moved, draw) \in Rect
  BY <1>6, <1>9, InterseptIn
<1>11. ASSUME NonEmpty(area), RectOverlay(moved, draw), NEW p \in Point, PointInRect(p, RectIntersept(moved, draw))
       PROVE  PointInRect(p, draw)
  BY <1>6, <1>9, <1>11, InterseptIn
<1>12. Placed(rel, area, around, parent) = [abs |-> abs, draw |-> draw, child |-> RectIntersept(moved, draw)]
  BY <1>3, <1>5, <1>8 DEF Placed
<1>13. Placed(rel, area, around, parent) \in Coordinates
  BY <1>4, <1>6, <1>10, <1>12 DEF Coordinates
<1> QED
  BY <1>7, <1>8, <1>11, <1>12, <1>13

\* The coordinates of the widgets on the desktop are what their parents' say.
Fresh(tree, rel, area, ps) ==
  \A w \in InTree(tree) \ {DeskTop} :
    ps[w] = Placed(rel[w], area[w], area[Parent[w]], ps[Parent[w]])

Top0 == [abs |-> Rel0[DeskTop], draw |-> Rel0[DeskTop], child |-> Rel0[DeskTop]]

Sound(tree, rel, area, ps, vis) ==
  /\ Nests(tree)
  /\ rel \in [Widgets -> Rect] /\ area \in [Widgets -> Rect] /\ ps \in [Widgets -> Coordinates]
  /\ vis \subseteq Widgets /\ DeskTop \in vis
  /\ ps[DeskTop] = Top0
  /\ Fresh(tree, rel, area, ps) /\ Allowed(tree, rel, area, ps)

\* The fields of Tree.
LEMMA TreeIs ==
  ASSUME NEW tree, NEW ps, NEW vis
  PROVE  /\ Tree(tree, ps, vis).kids = tree /\ Tree(tree, ps, vis).pos = ps
         /\ Tree(tree, ps, vis).visible = vis /\ Tree(tree, ps, vis).on = InTree(tree)
         /\ \A w \in Widgets : Tree(tree, ps, vis).px[w] = PixelsOf(ps[w].draw)
BY DEF Tree

\* What is drawn of a widget is in its rectangle, and in what is drawn of its parent.
LEMMA SoundDraws ==
  ASSUME NoScreenBoundary, NEW tree, NEW rel, NEW area, NEW ps, NEW vis, Sound(tree, rel, area, ps, vis),
         NEW w \in InTree(tree), NEW p \in Pixels, PointInRect(p, ps[w].draw)
  PROVE  /\ PointInRect(p, ps[w].abs)
         /\ w \in Lower => PointInRect(p, ps[Parent[w]].draw)
<1>1. w \in Widgets /\ p \in Point /\ Nests(tree)
  BY InTreeIs, PixelsAssumption DEF Sound
<1>2. CASE w = DeskTop
  BY <1>2, PixelsAssumption DEF Sound, Top0, Lower
<1>3. CASE w # DeskTop
  <2>1. w \in Lower /\ Parent[w] \in Widgets /\ Parent[w] \in InTree(tree) /\ w \in ToSet(tree[Parent[w]])
    BY <1>1, <1>3, InTreeIs, ParentIs DEF Lower
  <2>2. PICK v : v = Parent[w]
    OBVIOUS
  <2>3. ps[w] = Placed(rel[w], area[w], area[v], ps[v])
    BY <1>3, <2>2 DEF Sound, Fresh
  <2>4. /\ rel[w] \in Rect /\ area[w] \in Rect /\ area[v] \in Rect /\ ps[v] \in Coordinates
        /\ NonEmpty(rel[w])
    BY <1>1, <2>1, <2>2 DEF Sound, Allowed
  <2>5. PointInRect(p, ps[w].abs) /\ PointInRect(p, ps[v].child)
    BY <1>1, <2>3, <2>4, PlacedIs
  <2>6. PointInRect(p, ps[v].draw)
    <3>1. CASE v = DeskTop
      BY <3>1, PixelsAssumption DEF Sound, Top0
    <3>2. CASE v # DeskTop
      <4>1. v \in Lower /\ Parent[v] \in Widgets
        BY <2>1, <2>2, <3>2, ParentIs DEF Lower
      <4>2. ps[v] = Placed(rel[v], area[v], area[Parent[v]], ps[Parent[v]])
        BY <2>1, <2>2, <3>2 DEF Sound, Fresh
      <4>3. rel[v] \in Rect /\ area[v] \in Rect /\ area[Parent[v]] \in Rect /\ ps[Parent[v]] \in Coordinates
        BY <2>1, <2>2, <4>1 DEF Sound
      <4>4. tree[v] # << >>
        BY <2>1, <2>2 DEF ToSet
      <4>5. NonEmpty(area[v]) /\ RectOverlay(RectMove(area[v], ps[v].abs.a), ps[v].draw)
        BY <2>1, <2>2, <4>4 DEF Sound, Allowed, NoScreenBoundary
      <4> QED
        BY <1>1, <2>5, <4>2, <4>3, <4>5, PlacedIs
    <3> QED
      BY <3>1, <3>2
  <2> QED
    BY <2>2, <2>5, <2>6
<1> QED
  BY <1>2, <1>3

\* Under the invariant the paints find what they rely on.
LEMMA SoundWhole ==
  ASSUME NoScreenBoundary, NEW tree, NEW rel, NEW area, NEW ps, NEW vis, Sound(tree, rel, area, ps, vis)
  PROVE  Whole(Tree(tree, ps, vis))
<1>1. PICK t : t = Tree(tree, ps, vis)
  OBVIOUS
<1>2. /\ t.kids = tree /\ t.pos = ps /\ t.visible = vis /\ t.on = InTree(tree)
      /\ \A w \in Widgets : t.px[w] = PixelsOf(ps[w].draw)
  BY <1>1, TreeIs
<1>3. Nests(tree) /\ InTree(tree) \subseteq Widgets /\ vis \subseteq Widgets /\ DeskTop \in vis
  BY InTreeIs DEF Sound
<1>4. ASSUME NEW w \in Lower, w \in t.on PROVE t.px[w] \subseteq t.px[Parent[w]]
  <2>1. w \in Widgets /\ Parent[w] \in Widgets
    BY AboveParent
  <2> QED
    BY <1>2, <1>4, <2>1, SoundDraws DEF PixelsOf
<1>5. t.px[DeskTop] = Pixels
  <2>1. ps[DeskTop].draw = Rel0[DeskTop]
    BY DEF Sound, Top0
  <2>2. PixelsOf(Rel0[DeskTop]) = Pixels
    BY PixelsAssumption DEF PixelsOf
  <2> QED
    BY <1>2, <2>1, <2>2, DeskTopAssumption
<1>6. ASSUME NEW w \in t.on PROVE t.pos[w].draw \in Rect /\ ~Tiny(t.pos[w].draw)
  <2>1. ps[w] \in Coordinates
    BY <1>2, <1>3, <1>6 DEF Sound
  <2>2. ~Tiny(ps[w].draw)
    BY <1>2, <1>6 DEF Sound, Allowed, NoScreenBoundary
  <2> QED
    BY <1>2, <2>1, <2>2 DEF Coordinates
<1> QED
  BY <1>1, <1>2, <1>3, <1>4, <1>5, <1>6 DEF Whole

(***************************************************************************)
(* The invariant: the coordinates are fresh, and each pixel shows what is  *)
(* on top there.                                                           *)
(***************************************************************************)
Pictured(tree, ps, vis, sc) ==
  /\ sc = [p \in Pixels |-> sc[p]]
  /\ \A p \in Pixels : OnTop(Tree(tree, ps, vis), p, sc[p])

ScreenInv == Sound(kids, Relative, ChildArea, pos, visible) /\ Pictured(kids, pos, visible, screen)

\* Under the invariant a painting from back to front shows what is on the screen.
LEMMA ShownIs ==
  ASSUME NoScreenBoundary, ScreenInv, NEW p \in Pixels
  PROVE  Shown(p) = screen[p]
<1>1. PICK t : t = Tree(kids, pos, visible)
  OBVIOUS
<1>2. /\ t.kids = kids /\ t.pos = pos /\ t.visible = visible /\ t.on = InTree(kids)
      /\ \A w \in Widgets : t.px[w] = PixelsOf(pos[w].draw)
  BY <1>1, TreeIs
<1>3. Whole(t)
  BY <1>1, SoundWhole DEF ScreenInv
<1>4. PICK rect : rect = [w \in Widgets |-> pos[w].draw]
  OBVIOUS
<1>5. PICK S : S = {w \in visible : PointInRect(p, rect[w])}
  OBVIOUS
<1>6. S = {w \in t.visible : p \in t.px[w]}
  <2>1. t.visible = visible /\ visible \subseteq Widgets
    BY <1>2, <1>3 DEF Whole
  <2>2. ASSUME NEW w \in visible PROVE PointInRect(p, rect[w]) <=> p \in t.px[w]
    <3>1. w \in Widgets /\ rect[w] = pos[w].draw /\ t.px[w] = PixelsOf(pos[w].draw)
      BY <1>2, <1>4, <2>1
    <3> QED
      BY <3>1 DEF PixelsOf
  <2> QED
    BY <1>5, <2>1, <2>2
<1>7. Nests(kids)
  BY DEF ScreenInv, Sound
<1>8. PICK at : Descend(p, rect) = at[DeskTop] /\ Searches(t, at, S)
  BY <1>2, <1>5, <1>7, DescendIs
<1>9. DeskTop \in t.on /\ Clear(t, p, DeskTop)
  BY <1>2, <1>3, <1>7, InTreeIs, ClearDesk
<1>10. p \in t.px[at[DeskTop]]
  BY <1>3, <1>6, <1>8, <1>9, SearchDrawn
<1>11. S \subseteq t.visible /\ \A w \in t.on : w \in t.visible /\ p \in t.px[w] => w \in S
  BY <1>6
<1>12. OnTop(t, p, at[DeskTop])
  BY <1>3, <1>8, <1>9, <1>10, <1>11, SearchFinds
<1>13. OnTop(t, p, screen[p])
  BY <1>1 DEF ScreenInv, Pictured
<1>14. Shown(p) = at[DeskTop]
  BY <1>4, <1>8 DEF Shown
<1> QED
  BY <1>3, <1>12, <1>13, <1>14, TopOne

\* Under the invariant the mouse finds what is on the screen, if it is drawn at all.
LEMMA UnderIs ==
  ASSUME NoScreenBoundary, ScreenInv, NEW p \in Pixels, PointInRect(p, pos[TopWidgetUnderPoint(p)].draw)
  PROVE  TopWidgetUnderPoint(p) = screen[p]
<1>1. PICK t : t = Tree(kids, pos, visible)
  OBVIOUS
<1>2. /\ t.kids = kids /\ t.pos = pos /\ t.visible = visible /\ t.on = InTree(kids)
      /\ \A w \in Widgets : t.px[w] = PixelsOf(pos[w].draw)
  BY <1>1, TreeIs
<1>3. Whole(t)
  BY <1>1, SoundWhole DEF ScreenInv
<1>4. PICK rect : rect = [w \in Widgets |-> pos[w].abs]
  OBVIOUS
<1>5. PICK S : S = {w \in visible : PointInRect(p, rect[w])}
  OBVIOUS
<1>6. Nests(kids) /\ InTree(kids) \subseteq Widgets
  BY InTreeIs DEF ScreenInv, Sound
<1>7. ASSUME NEW w \in t.on, w \in t.visible, p \in t.px[w] PROVE w \in S
  <2>1. w \in Widgets /\ PointInRect(p, pos[w].draw)
    BY <1>2, <1>6, <1>7 DEF PixelsOf
  <2>2. PointInRect(p, pos[w].abs)
    BY <1>2, <2>1, SoundDraws DEF ScreenInv
  <2> QED
    BY <1>2, <1>4, <1>5, <1>7, <2>1, <2>2
<1>8. PICK at : Descend(p, rect) = at[DeskTop] /\ Searches(t, at, S)
  BY <1>2, <1>5, <1>6, DescendIs
<1>9. DeskTop \in t.on /\ Clear(t, p, DeskTop)
  BY <1>2, <1>3, <1>6, InTreeIs, ClearDesk
<1>10. S \subseteq t.visible
  BY <1>2, <1>5
<1>11. /\ at[DeskTop] \in t.on
       /\ p \in t.px[at[DeskTop]] => OnTop(t, p, at[DeskTop])
  BY <1>3, <1>7, <1>8, <1>9, <1>10, SearchFinds
<1>12. TopWidgetUnderPoint(p) = at[DeskTop]
  BY <1>4, <1>8 DEF TopWidgetUnderPoint
<1>13. p \in t.px[at[DeskTop]]
  BY <1>2, <1>6, <1>11, <1>12 DEF PixelsOf
<1>14. OnTop(t, p, screen[p])
  BY <1>1 DEF ScreenInv, Pictured
<1> QED
  BY <1>3, <1>11, <1>12, <1>13, <1>14, TopOne

\* What the invariant says of the properties.
LEMMA ScreenInvIs ==
  ASSUME NoScreenBoundary, ScreenInv
  PROVE  WidgetsOK /\ ScreenIsTop /\ HitIsDrawn
<1>1. Nests(kids) /\ InTree(kids) \subseteq Widgets
  BY InTreeIs DEF ScreenInv, Sound
<1>2. screen \in [Pixels -> Widgets]
  <2>1. \A p \in Pixels : screen[p] \in InTree(kids)
    BY TreeIs DEF ScreenInv, Pictured, OnTop, Clear
  <2>2. screen = [p \in Pixels |-> screen[p]]
    BY DEF ScreenInv, Pictured
  <2> QED
    BY <1>1, <2>1, <2>2
<1>3. ASSUME NEW v \in Widgets PROVE Cardinality(ToSet(kids[v])) = Len(kids[v])
  <2>1. PICK s : s = kids[v]
    OBVIOUS
  <2>2. s \in Seq(Widgets) /\ \A i, j \in DOMAIN s : s[i] = s[j] => i = j
    BY <1>1, <2>1 DEF Nests
  <2>3. Len(s) \in Nat /\ DOMAIN s = 1..Len(s)
    BY <2>2
  <2>4. s \in [1..Len(s) -> ToSet(s)]
    BY <2>2 DEF ToSet
  <2>5. s \in Bijection(1..Len(s), ToSet(s))
    BY <2>2, <2>3, <2>4 DEF Bijection, Injection, Surjection, ToSet, IsInjective
  <2>6. ExistsBijection(1..Len(s), ToSet(s))
    BY <2>5 DEF ExistsBijection
  <2> QED
    BY <2>1, <2>3, <2>6, FS_CountingElements
<1>4. ASSUME NEW v \in Widgets, NEW w \in Widgets, ToSet(kids[v]) \cap ToSet(kids[w]) # {} PROVE v = w
  BY <1>1, <1>4, KidsNest
<1>5. ScreenTypeOK
  BY <1>2, <1>3, <1>4 DEF ScreenTypeOK, ScreenInv, Sound, Nests, Coordinates
<1>6. CoordinatesFresh
  BY DEF CoordinatesFresh, ScreenInv, Sound, Fresh
<1>7. ScreenIsTop
  BY ShownIs DEF ScreenIsTop
<1>8. HitIsDrawn
  BY UnderIs DEF HitIsDrawn
<1> QED
  BY <1>5, <1>6, <1>7, <1>8 DEF WidgetsOK
-----------------------------------------------------------------------------
(***************************************************************************)
(* The coordinates and the sizes an operation computes.                    *)
(***************************************************************************)
LEMMA BelowIs ==
  ASSUME NEW o \in Lower
  PROVE  /\ DeskTop \notin Below(o) /\ o \in Below(o) /\ Below(o) \subseteq Lower
         /\ \A w \in Lower : w \in Below(o) <=> w = o \/ Parent[w] \in Below(o)
<1>1. o \in Widgets /\ o # DeskTop
  BY DEF Lower
<1>2. DeskTop \notin Below(o)
  BY <1>1, LineIs DEF Below
<1>3. o \in Below(o)
  BY <1>1, LineHas DEF Below
<1>4. Below(o) \subseteq Lower
  BY <1>2 DEF Below, Lower
<1>5. ASSUME NEW w \in Lower PROVE w \in Below(o) <=> w = o \/ Parent[w] \in Below(o)
  <2>1. w \in Widgets /\ Parent[w] \in Widgets
    BY AboveParent
  <2>2. Line[w] = {w} \cup Line[Parent[w]]
    BY LineIs
  <2> QED
    BY <2>1, <2>2 DEF Below
<1> QED
  BY <1>2, <1>3, <1>4, <1>5

\* The widgets whose coordinates are computed anew.
Renewed(o, lost) == {w \in Below(o) : \A p \in lost : p \notin Line[w] \ {w}}

\* The recursion of Refreshed: anew from the parent, or as it was.
LEMMA RefreshedIs ==
  ASSUME pos \in [Widgets -> Coordinates], NEW o \in Lower, NEW lost,
         NEW rel \in [Widgets -> Rect], NEW area \in [Widgets -> Rect]
  PROVE  /\ Refreshed(o, rel, area, lost) \in [Widgets -> Coordinates]
         /\ \A w \in Widgets :
              /\ w \notin Renewed(o, lost) => Refreshed(o, rel, area, lost)[w] = pos[w]
              /\ w \in Renewed(o, lost) =>
                   Refreshed(o, rel, area, lost)[w] =
                     Placed(rel[w], area[w], area[Parent[w]], Refreshed(o, rel, area, lost)[Parent[w]])
<1> DEFINE E(x) == [w \in Widgets |->
                      IF w \notin Below(o) \/ \E p \in lost : p \in Line[w] \ {w} THEN pos[w]
                      ELSE Placed(rel[w], area[w], area[Parent[w]], x[Parent[w]])]
<1>1. \A w \in Widgets : (w \notin Below(o) \/ \E p \in lost : p \in Line[w] \ {w}) <=> w \notin Renewed(o, lost)
  BY DEF Renewed
<1>2. Renewed(o, lost) \subseteq Lower
  BY BelowIs DEF Renewed
<1>3. \A w \in Lower : w \in Widgets /\ Parent[w] \in Widgets
  BY AboveParent
<1>4. PICK step : step = [w \in Widgets |-> [v \in Coordinates |->
                            IF w \notin Renewed(o, lost) THEN pos[w]
                            ELSE Placed(rel[w], area[w], area[Parent[w]], v)]]
  OBVIOUS
<1>5. ASSUME NEW w \in Lower, NEW v \in Coordinates PROVE Placed(rel[w], area[w], area[Parent[w]], v) \in Coordinates
  BY <1>3, PlacedIs
<1>6. Closed(Coordinates, pos[DeskTop], step)
  <2>1. pos[DeskTop] \in Coordinates
    BY DeskTopAssumption
  <2>2. ASSUME NEW w \in Lower, NEW v \in Coordinates PROVE step[w][v] \in Coordinates
    BY <1>3, <1>4, <1>5
  <2> QED
    BY <2>1, <2>2 DEF Closed
<1>7. PICK f : Follows(f, pos[DeskTop], step) /\ \A w \in Widgets : f[w] \in Coordinates
  BY <1>6, DownExists
<1>8. f = E(f)
  <2>1. ASSUME NEW w \in Widgets
        PROVE  f[w] = IF w \notin Renewed(o, lost) THEN pos[w]
                      ELSE Placed(rel[w], area[w], area[Parent[w]], f[Parent[w]])
    <3>1. CASE w = DeskTop
      BY <1>2, <1>7, <3>1 DEF Follows, Lower
    <3>2. CASE w # DeskTop
      <4>1. w \in Lower /\ Parent[w] \in Widgets
        BY <1>3, <3>2 DEF Lower
      <4>2. f[w] = step[w][f[Parent[w]]] /\ f[Parent[w]] \in Coordinates
        BY <1>7, <4>1 DEF Follows
      <4> QED
        BY <1>4, <4>2
    <3> QED
      BY <3>1, <3>2
  <2>2. f = [w \in Widgets |-> f[w]]
    BY <1>7 DEF Follows
  <2> QED
    BY <1>1, <2>1, <2>2
<1>9. PICK new : new = Refreshed(o, rel, area, lost)
  OBVIOUS
<1>10. new = CHOOSE x : x = E(x)
  BY <1>9 DEF Refreshed
<1>11. new = E(new)
  <2> HIDE DEF E
  <2> QED
    BY <1>8, <1>10
<1>12. \A w \in Widgets : new[w] = IF w \notin Renewed(o, lost) THEN pos[w]
                                   ELSE Placed(rel[w], area[w], area[Parent[w]], new[Parent[w]])
  BY <1>1, <1>11
<1>13. new = [w \in Widgets |-> new[w]]
  BY <1>11
<1> HIDE DEF E
<1> DEFINE T == {w \in Widgets : new[w] \in Coordinates}
<1>14. DeskTop \in T
  BY <1>2, <1>12, DeskTopAssumption DEF Lower
<1>15. ASSUME NEW w \in Lower, Parent[w] \in T PROVE w \in T
  <2>1. w \in Widgets /\ new[Parent[w]] \in Coordinates
    BY <1>3, <1>15
  <2>2. Placed(rel[w], area[w], area[Parent[w]], new[Parent[w]]) \in Coordinates
    BY <1>5, <2>1
  <2>3. new[w] \in Coordinates
    BY <1>12, <2>1, <2>2
  <2> QED
    BY <2>1, <2>3
<1>16. Widgets \subseteq T
  <2> HIDE DEF T
  <2> QED
    BY <1>14, <1>15, DownTheTree
<1>17. new \in [Widgets -> Coordinates]
  BY <1>13, <1>16
<1> QED
  BY <1>9, <1>12, <1>17

Size == [rel : Rect, area : Rect, set : BOOLEAN]

\* The size of w, v being that of its parent (Resized).
SizeFrom(o, r, w, v) ==
  LET z == SelfRelative(ChildArea[Parent[w]])
      n == Stuck(w, z, SelfRelative(v.area))
  IN CASE w = o -> [rel |-> r, area |-> AreaFor(w, r), set |-> TRUE]
       [] w # o /\ w \in Below(o) /\ v.set /\ "auto" \in Magnets[w]
            /\ NonEmpty(z) /\ RectOverlay(z, Relative[w]) ->
            [rel |-> n, area |-> AreaFor(w, n), set |-> TRUE]
       [] OTHER -> [rel |-> Relative[w], area |-> ChildArea[w], set |-> FALSE]

\* Moved to the origin a rectangle stays one.
LEMMA SelfRelativeIs == \A q \in Rect : SelfRelative(q) \in Rect /\ (NonEmpty(q) => NonEmpty(SelfRelative(q)))
BY DEF SelfRelative, RectAssign, Rect, Point, NonEmpty

\* What the resize flags make of a child's rectangle is one.
LEMMA StuckIs ==
  ASSUME NEW w \in Widgets, Relative \in [Widgets -> Rect], NEW z \in Rect, NEW nz \in Rect
  PROVE  Stuck(w, z, nz) \in Rect
<1>1. PICK q \in Rect : q = Relative[w]
  OBVIOUS
<1>2. PICK dx \in Int : dx = z.b.x - nz.b.x
  BY DEF Rect, Point
<1>3. PICK dy \in Int : dy = z.b.y - nz.b.y
  BY DEF Rect, Point
<1>4. \A right, bottom \in BOOLEAN : (IF right THEN dx ELSE 0) \in Int /\ (IF bottom THEN dy ELSE 0) \in Int
  OBVIOUS
<1>5. q.a.x \in Int /\ q.a.y \in Int /\ q.b.x \in Int /\ q.b.y \in Int
  BY DEF Rect, Point
<1>6. \A i, j, k, m \in Int : RectAssign(q.a.x - i, q.a.y - j, q.b.x - k, q.b.y - m) \in Rect
  BY <1>5 DEF RectAssign, Rect, Point
<1>7. Stuck(w, z, nz) = RectAssign(
        q.a.x - (IF {"right", "fixedwidth"} \subseteq Magnets[w] THEN dx ELSE 0),
        q.a.y - (IF {"bottom", "fixedheight"} \subseteq Magnets[w] THEN dy ELSE 0),
        q.b.x - (IF "right" \in Magnets[w] THEN dx ELSE 0),
        q.b.y - (IF "bottom" \in Magnets[w] THEN dy ELSE 0))
  BY <1>1, <1>2, <1>3 DEF Stuck
<1> QED
  BY <1>4, <1>6, <1>7

\* And so is the child area that goes with it.
LEMMA AreaForIs ==
  ASSUME NEW w \in Widgets, Relative \in [Widgets -> Rect], ChildArea \in [Widgets -> Rect], NEW q \in Rect
  PROVE  AreaFor(w, q) \in Rect
<1>1. PICK d \in Rect : d = Relative[w]
  OBVIOUS
<1>2. PICK g \in Rect : g = ChildArea[w]
  OBVIOUS
<1>3. AreaFor(w, q) = [g EXCEPT !.b = [x |-> q.b.x - q.a.x - d.b.x + g.b.x + d.a.x,
                                       y |-> q.b.y - q.a.y - d.b.y + g.b.y + d.a.y]]
  BY <1>1, <1>2 DEF AreaFor
<1>4. [x |-> q.b.x - q.a.x - d.b.x + g.b.x + d.a.x, y |-> q.b.y - q.a.y - d.b.y + g.b.y + d.a.y] \in Point
  BY DEF Rect, Point
<1> QED
  BY <1>3, <1>4 DEF Rect

\* Only what is below o is resized along with it.
LEMMA ResizedIs ==
  ASSUME Relative \in [Widgets -> Rect], ChildArea \in [Widgets -> Rect], NEW o \in Lower, NEW r \in Rect
  PROVE  /\ Resized(o, r) \in [Widgets -> Size]
         /\ \A w \in Widgets : w \notin Below(o) =>
              Resized(o, r)[w] = [rel |-> Relative[w], area |-> ChildArea[w], set |-> FALSE]
<1> DEFINE E(x) == [w \in Widgets |-> SizeFrom(o, r, w, x[Parent[w]])]
<1>1. \A w \in Widgets : \A v : w \notin Below(o) =>
        SizeFrom(o, r, w, v) = [rel |-> Relative[w], area |-> ChildArea[w], set |-> FALSE]
  BY BelowIs DEF SizeFrom
<1>2. DeskTop \notin Below(o) /\ \A w \in Lower : w \in Widgets /\ Parent[w] \in Widgets
  BY BelowIs, AboveParent
<1>3. ASSUME NEW w \in Lower, NEW v \in Size PROVE SizeFrom(o, r, w, v) \in Size
  <2>1. PICK z : z = SelfRelative(ChildArea[Parent[w]])
    OBVIOUS
  <2>2. PICK n : n = Stuck(w, z, SelfRelative(v.area))
    OBVIOUS
  <2>3. w \in Widgets /\ ChildArea[Parent[w]] \in Rect /\ v.area \in Rect
    BY <1>2 DEF Size
  <2>4. n \in Rect
    BY <2>1, <2>2, <2>3, SelfRelativeIs, StuckIs
  <2>5. AreaFor(w, n) \in Rect /\ AreaFor(w, r) \in Rect
    BY <2>3, <2>4, AreaForIs
  <2>6. [rel |-> r, area |-> AreaFor(w, r), set |-> TRUE] \in Size
    BY <2>5 DEF Size
  <2>7. [rel |-> n, area |-> AreaFor(w, n), set |-> TRUE] \in Size
    BY <2>4, <2>5 DEF Size
  <2>8. [rel |-> Relative[w], area |-> ChildArea[w], set |-> FALSE] \in Size
    BY <2>3 DEF Size
  <2>9. SizeFrom(o, r, w, v) \in {[rel |-> r, area |-> AreaFor(w, r), set |-> TRUE],
                                  [rel |-> n, area |-> AreaFor(w, n), set |-> TRUE],
                                  [rel |-> Relative[w], area |-> ChildArea[w], set |-> FALSE]}
    BY <2>1, <2>2 DEF SizeFrom
  <2> QED
    BY <2>6, <2>7, <2>8, <2>9
<1>4. PICK top : top = [rel |-> Relative[DeskTop], area |-> ChildArea[DeskTop], set |-> FALSE]
  OBVIOUS
<1>5. top \in Size
  BY <1>4, DeskTopAssumption DEF Size
<1>6. PICK step : step = [w \in Widgets |-> [v \in Size |-> SizeFrom(o, r, w, v)]]
  OBVIOUS
<1>7. Closed(Size, top, step)
  BY <1>2, <1>3, <1>5, <1>6 DEF Closed
<1>8. PICK f : Follows(f, top, step) /\ \A w \in Widgets : f[w] \in Size
  BY <1>7, DownExists
<1>9. f = E(f)
  <2>1. ASSUME NEW w \in Widgets PROVE f[w] = SizeFrom(o, r, w, f[Parent[w]])
    <3>1. CASE w = DeskTop
      BY <1>1, <1>2, <1>4, <1>8, <3>1 DEF Follows
    <3>2. CASE w # DeskTop
      <4>1. w \in Lower /\ Parent[w] \in Widgets
        BY <1>2, <3>2 DEF Lower
      <4>2. f[w] = step[w][f[Parent[w]]] /\ f[Parent[w]] \in Size
        BY <1>8, <4>1 DEF Follows
      <4> QED
        BY <1>6, <4>2
    <3> QED
      BY <3>1, <3>2
  <2>2. f = [w \in Widgets |-> f[w]]
    BY <1>8 DEF Follows
  <2> QED
    BY <2>1, <2>2
<1>10. PICK new : new = Resized(o, r)
  OBVIOUS
<1>11. new = CHOOSE x : x = E(x)
  BY <1>10 DEF Resized, SizeFrom
<1>12. new = E(new)
  <2> HIDE DEF E
  <2> QED
    BY <1>9, <1>11
<1>13. \A w \in Widgets : new[w] = SizeFrom(o, r, w, new[Parent[w]])
  BY <1>12
<1>14. new = [w \in Widgets |-> new[w]]
  BY <1>12
<1> HIDE DEF E
<1> DEFINE T == {w \in Widgets : new[w] \in Size}
<1>15. DeskTop \in T
  BY <1>1, <1>2, <1>4, <1>5, <1>13, DeskTopAssumption
<1>16. \A w \in Lower : Parent[w] \in T => w \in T
  BY <1>2, <1>3, <1>13
<1>17. Widgets \subseteq T
  <2> HIDE DEF T
  <2> QED
    BY <1>15, <1>16, DownTheTree
<1> QED
  BY <1>1, <1>10, <1>13, <1>14, <1>17

\* The recursion of Pos0.
LEMMA Pos0Is ==
  /\ Pos0 \in [Widgets -> Coordinates] /\ Pos0[DeskTop] = Top0
  /\ \A w \in Lower : Pos0[w] = Placed(Rel0[w], Area0[w], Area0[Parent[w]], Pos0[Parent[w]])
<1> DEFINE E(x) == [w \in Widgets |->
                      IF w = DeskTop
                      THEN [abs |-> Rel0[DeskTop], draw |-> Rel0[DeskTop], child |-> Rel0[DeskTop]]
                      ELSE Placed(Rel0[w], Area0[w], Area0[Parent[w]], x[Parent[w]])]
<1>1. Rel0 \in [Widgets -> Rect] /\ Area0 \in [Widgets -> Rect] /\ Top0 \in Coordinates
  BY CoordinatesAssumption, DeskTopAssumption DEF Top0, Coordinates
<1>2. \A w \in Lower : w \in Widgets /\ w # DeskTop /\ Parent[w] \in Widgets
  BY AboveParent
<1>3. PICK step : step = [w \in Widgets |-> [v \in Coordinates |-> Placed(Rel0[w], Area0[w], Area0[Parent[w]], v)]]
  OBVIOUS
<1>4. ASSUME NEW w \in Lower, NEW v \in Coordinates
      PROVE  Placed(Rel0[w], Area0[w], Area0[Parent[w]], v) \in Coordinates
  BY <1>1, <1>2, PlacedIs
<1>5. Closed(Coordinates, Top0, step)
  BY <1>1, <1>2, <1>3, <1>4 DEF Closed
<1>6. PICK f : Follows(f, Top0, step) /\ \A w \in Widgets : f[w] \in Coordinates
  BY <1>5, DownExists
<1>7. f = E(f)
  <2>1. ASSUME NEW w \in Widgets
        PROVE  f[w] = IF w = DeskTop THEN Top0 ELSE Placed(Rel0[w], Area0[w], Area0[Parent[w]], f[Parent[w]])
    <3>1. CASE w = DeskTop
      BY <1>6, <3>1 DEF Follows
    <3>2. CASE w # DeskTop
      <4>1. w \in Lower /\ Parent[w] \in Widgets
        BY <1>2, <3>2 DEF Lower
      <4>2. f[w] = step[w][f[Parent[w]]] /\ f[Parent[w]] \in Coordinates
        BY <1>6, <4>1 DEF Follows
      <4> QED
        BY <1>3, <3>2, <4>2
    <3> QED
      BY <3>1, <3>2
  <2>2. f = [w \in Widgets |-> f[w]]
    BY <1>6 DEF Follows
  <2> QED
    BY <2>1, <2>2 DEF Top0
<1>8. Pos0 = CHOOSE x : x = E(x)
  BY DEF Pos0
<1>9. Pos0 = E(Pos0)
  <2> HIDE DEF E
  <2> QED
    BY <1>7, <1>8
<1>10. /\ Pos0 = [w \in Widgets |-> Pos0[w]] /\ Pos0[DeskTop] = Top0
       /\ \A w \in Lower : Pos0[w] = Placed(Rel0[w], Area0[w], Area0[Parent[w]], Pos0[Parent[w]])
  BY <1>2, <1>9, DeskTopAssumption DEF Top0
<1> HIDE DEF E
<1> DEFINE T == {w \in Widgets : Pos0[w] \in Coordinates}
<1>11. DeskTop \in T
  BY <1>1, <1>10, DeskTopAssumption
<1>12. \A w \in Lower : Parent[w] \in T => w \in T
  BY <1>2, <1>4, <1>10
<1>13. Widgets \subseteq T
  <2> HIDE DEF T
  <2> QED
    BY <1>11, <1>12, DownTheTree
<1> QED
  BY <1>10, <1>13
-----------------------------------------------------------------------------
(***************************************************************************)
(* The operations.                                                         *)
(***************************************************************************)

\* A screen on which what is on top is shown is as the invariant says.
LEMMA PicturedFrom ==
  ASSUME NoScreenBoundary, NEW tree, NEW rel, NEW area, NEW ps, NEW vis, Sound(tree, rel, area, ps, vis),
         NEW sc, sc = [p \in Pixels |-> sc[p]],
         \A p \in Pixels : \A w : OnTop(Tree(tree, ps, vis), p, w) => sc[p] = w
  PROVE  Pictured(tree, ps, vis, sc)
<1>1. PICK t : t = Tree(tree, ps, vis)
  OBVIOUS
<1>2. Whole(t)
  BY <1>1, SoundWhole
<1>3. ASSUME NEW p \in Pixels PROVE OnTop(t, p, sc[p])
  <2>1. Clear(t, p, DeskTop)
    BY <1>2, ClearDesk
  <2>2. PICK w : OnTop(t, p, w)
    BY <1>2, <2>1, TopExists
  <2> QED
    BY <1>1, <2>2
<1> QED
  BY <1>1, <1>3 DEF Pictured

\* At first the whole desktop is painted.
LEMMA ScreenInitInv == NoScreenBoundary /\ ScreenInit => ScreenInv
<1> SUFFICES ASSUME NoScreenBoundary, ScreenInit PROVE ScreenInv
  OBVIOUS
<1>1. /\ kids = Layout /\ Relative = Rel0 /\ ChildArea = Area0 /\ pos = Pos0
      /\ visible = Widgets \ Hidden0
  BY DEF ScreenInit
<1>2. Fresh(Layout, Rel0, Area0, Pos0)
  BY LayoutNests, InTreeIs, Pos0Is DEF Fresh, Lower
<1>3. Sound(kids, Relative, ChildArea, pos, visible)
  BY <1>1, <1>2, LayoutNests, Pos0Is, PlacesAssumption, CoordinatesAssumption, PixelsAssumption, DeskTopAssumption
     DEF Sound
<1>4. PICK t : t = Tree(kids, pos, visible)
  OBVIOUS
<1>5. PICK sc : sc = [p \in Pixels |-> NULL]
  OBVIOUS
<1>6. screen = WidgetDrawAll(t, sc, DeskTop)
  BY <1>4, <1>5 DEF ScreenInit
<1>7. Whole(t)
  BY <1>3, <1>4, SoundWhole
<1>8. ASSUME NEW p \in Pixels, NEW w, OnTop(t, p, w) PROVE screen[p] = w
  <2>1. screen[p] = IF w \in Below(DeskTop) THEN w ELSE sc[p]
    BY <1>6, <1>7, <1>8, DrawAllIs, DeskTopAssumption
  <2>2. w \in Widgets
    BY <1>7, <1>8, InTreeIs DEF OnTop, Clear, Whole
  <2> QED
    BY <2>1, <2>2, LineHas DEF Below
<1>9. screen = [p \in Pixels |-> screen[p]]
  <2>1. sc = [p \in Pixels |-> sc[p]]
    BY <1>5
  <2> QED
    BY <1>6, <2>1, DrawAllDomain
<1> QED
  BY <1>3, <1>4, <1>8, <1>9, PicturedFrom DEF ScreenInv

\* u comes before v.
Before(s, u, v) == \E j, k \in DOMAIN s : j < k /\ s[j] = u /\ s[k] = v

\* In front of a widget is what is before it among the children.
LEMMA InFrontBefore ==
  ASSUME NEW t, NEW w \in Lower
  PROVE  \A v : v \in InFront(t, w) <=> Before(t.kids[Parent[w]], v, w)
<1>1. PICK s : s = t.kids[Parent[w]]
  OBVIOUS
<1>2. InFront(t, w) = {s[i] : i \in {j \in DOMAIN s : \E k \in DOMAIN s : j < k /\ s[k] = w}}
  BY <1>1, ParentIs DEF InFront
<1> QED
  BY <1>1, <1>2 DEF Before

\* What is in front of something above w is a child of something above w.
LEMMA BesideLine ==
  ASSUME NEW t, Nests(t.kids), NEW w \in Widgets, NEW x \in Line[w], NEW v \in InFront(t, x)
  PROVE  /\ x \in Lower /\ v \in Lower /\ Parent[v] = Parent[x] /\ Parent[v] \in Line[w]
         /\ v \in ToSet(t.kids[Parent[v]])
<1>1. x \in Lower /\ Parent[x] \in Line[w] /\ Parent[x] \in Widgets
  <2>1. x # DeskTop
    BY NoneInFront
  <2> QED
    BY <2>1, LineOfLine, ParentIs
<1>2. v \in ToSet(t.kids[Parent[x]])
  BY <1>1, InFrontIs
<1> QED
  BY <1>1, <1>2, KidsNest

\* What the operation has not painted was on top before.
LEMMA StaysShown ==
  ASSUME NoScreenBoundary, ScreenInv, NEW p \in Pixels, NEW w, OnTop(Tree(kids, pos, visible), p, w)
  PROVE  screen[p] = w
<1>1. Whole(Tree(kids, pos, visible)) /\ OnTop(Tree(kids, pos, visible), p, screen[p])
  BY SoundWhole DEF ScreenInv, Pictured
<1> QED
  BY <1>1, TopOne

\* TabBookSelectTab: the page that appears covers the ones that go.
LEMMA SelectTabInv ==
  ASSUME NoScreenBoundary, ScreenInv, NEW o \in Widgets, NEW c, TabBookSelectTab(o, c)
  PROVE  ScreenInv'
<1>1. PICK vis : vis = (visible \ ToSet(kids[o])) \cup {c}
  OBVIOUS
<1>2. PICK s : s = Tree(kids, pos, vis)
  OBVIOUS
<1>3. PICK t : t = Tree(kids, pos, visible)
  OBVIOUS
<1>4. /\ visible' = vis /\ kids' = kids /\ Relative' = Relative /\ ChildArea' = ChildArea /\ pos' = pos
      /\ screen' = WidgetDrawAll(s, screen, o) /\ c \in ToSet(kids[o])
  BY <1>1, <1>2 DEF TabBookSelectTab
<1>5. Sound(kids, Relative, ChildArea, pos, visible) /\ Nests(kids) /\ screen = [p \in Pixels |-> screen[p]]
  BY DEF ScreenInv, Sound, Pictured
<1>6. \A v \in ToSet(kids[o]) : v \in Lower /\ v \in Widgets /\ v # DeskTop /\ Parent[v] = o
  BY <1>5, KidsNest DEF Lower
<1>7. Sound(kids, Relative, ChildArea, pos, vis)
  BY <1>1, <1>4, <1>5, <1>6 DEF Sound
<1>8. Whole(s) /\ Whole(t)
  BY <1>2, <1>3, <1>5, <1>7, SoundWhole
<1>9. /\ s.kids = kids /\ t.kids = kids /\ s.visible = vis /\ t.visible = visible /\ s.on = t.on
      /\ \A w \in Widgets : s.px[w] = t.px[w]
  BY <1>2, <1>3, TreeIs
<1>10. ASSUME NEW p \in Pixels, NEW w, OnTop(s, p, w) PROVE screen'[p] = w
  <2>1. screen'[p] = IF w \in Below(o) THEN w ELSE screen[p]
    BY <1>4, <1>8, <1>10, DrawAllIs
  <2> SUFFICES ASSUME w \notin Below(o) PROVE OnTop(t, p, w)
    BY <1>3, <2>1, StaysShown
  <2>2. w \in Widgets /\ o \notin Line[w] /\ w \in Line[w]
    BY <1>8, <1>10, InTreeIs, LineHas DEF OnTop, Clear, Whole, Below
  <2>3. ASSUME NEW x \in Line[w] PROVE x \in visible
    <3>1. x \in vis
      BY <1>9, <1>10 DEF OnTop, Clear
    <3>2. x # c
      BY <1>4, <1>6, <2>2, LineOfLine
    <3> QED
      BY <1>1, <3>1, <3>2
  <2>4. ASSUME NEW x \in Line[w], NEW v \in InFront(t, x), v \in visible PROVE p \notin t.px[v]
    <3>1. v \in Lower /\ v \in Widgets /\ Parent[v] # o
      BY <1>5, <1>9, <2>2, BesideLine DEF Lower
    <3>2. v \in vis
      BY <1>1, <1>6, <2>4, <3>1
    <3>3. v \in InFront(s, x)
      BY <1>9 DEF InFront
    <3> QED
      BY <1>9, <1>10, <3>1, <3>2, <3>3 DEF OnTop, Clear
  <2>5. ASSUME NEW v \in ToSet(kids[w]), v \in visible PROVE p \notin t.px[v]
    <3>1. v \in Widgets /\ Parent[v] = w
      BY <1>5, <2>2, KidsNest DEF Lower
    <3>2. v \in vis
      BY <1>1, <1>6, <2>2, <2>5, <3>1
    <3> QED
      BY <1>9, <1>10, <3>1, <3>2 DEF OnTop
  <2> QED
    BY <1>9, <1>10, <2>2, <2>3, <2>4, <2>5 DEF OnTop, Clear
<1>11. screen' = [p \in Pixels |-> screen'[p]]
  BY <1>4, <1>5, DrawAllDomain
<1>12. Pictured(kids, pos, vis, screen')
  BY <1>2, <1>7, <1>10, <1>11, PicturedFrom
<1> QED
  BY <1>4, <1>7, <1>12 DEF ScreenInv

\* A list without one of its items.
LEMMA WithoutItem ==
  ASSUME NEW S, NEW s \in Seq(S), NEW k \in 1..Len(s)
  PROVE  /\ RemoveAt(s, k) \in Seq(S) /\ Len(RemoveAt(s, k)) = Len(s) - 1
         /\ \A i \in 1..(Len(s) - 1) : RemoveAt(s, k)[i] = IF i < k THEN s[i] ELSE s[i + 1]
<1> DEFINE f == SubSeq(s, 1, k - 1)
           b == SubSeq(s, k + 1, Len(s))
<1>1. f \in Seq(S) /\ Len(f) = k - 1 /\ \A i \in 1..(k - 1) : f[i] = s[i]
  OBVIOUS
<1>2. b \in Seq(S) /\ Len(b) = Len(s) - k /\ \A i \in 1..(Len(s) - k) : b[i] = s[k + i]
  OBVIOUS
<1> HIDE DEF f, b
<1>3. f \o b \in Seq(S) /\ Len(f \o b) = Len(s) - 1
  BY <1>1, <1>2
<1>4. ASSUME NEW i \in 1..(Len(s) - 1)
      PROVE  (f \o b)[i] = IF i < k THEN s[i] ELSE s[i + 1]
  <2>1. CASE i < k
    <3>1. i \in 1..(k - 1) /\ i \in 1..(Len(f) + Len(b)) /\ i <= Len(f)
      BY <1>1, <1>2, <2>1
    <3>2. (f \o b)[i] = f[i]
      BY <1>1, <1>2, <3>1, ConcatProperties
    <3> QED
      BY <1>1, <2>1, <3>1, <3>2
  <2>2. CASE i >= k
    <3>0. i - (k - 1) \in 1..(Len(s) - k) /\ i \in 1..(Len(f) + Len(b)) /\ ~(i <= Len(f))
      BY <1>1, <1>2, <2>2
    <3>1. (f \o b)[i] = b[i - (k - 1)] /\ i - (k - 1) \in 1..(Len(s) - k)
      <4>1. f \in Seq(S) /\ b \in Seq(S) /\ Len(f) = k - 1
        BY <1>1, <1>2
      <4>2. (f \o b)[i] = IF i <= Len(f) THEN f[i] ELSE b[i - Len(f)]
        BY <3>0, <4>1, ConcatProperties
      <4> QED
        BY <3>0, <4>1, <4>2
    <3>2. k + (i - (k - 1)) = i + 1
      BY <2>2
    <3> QED
      BY <1>2, <2>2, <3>1, <3>2
  <2>3. i < k \/ i >= k
    OBVIOUS
  <2> QED
    BY <2>1, <2>2, <2>3
<1> QED
  BY <1>3, <1>4 DEF RemoveAt, f, b

\* A sequence of children, none of them twice.
Once(s) == s \in Seq(Widgets) /\ \A i, j \in DOMAIN s : s[i] = s[j] => i = j

\* The others stay in their order.
LEMMA OthersAre ==
  ASSUME NEW s, Once(s), NEW o \in ToSet(s)
  PROVE  /\ Once(Others(s, o)) /\ ToSet(Others(s, o)) = ToSet(s) \ {o}
         /\ \A u, v \in ToSet(s) \ {o} : Before(s, u, v) => Before(Others(s, o), u, v)
<1>1. PICK k : k = CHOOSE i \in DOMAIN s : s[i] = o
  OBVIOUS
<1>2. k \in DOMAIN s /\ s[k] = o
  <2>1. \E i \in DOMAIN s : s[i] = o
    BY DEF ToSet
  <2> QED
    BY <1>1, <2>1
<1>3. s \in Seq(Widgets) /\ Len(s) \in Nat /\ DOMAIN s = 1..Len(s) /\ \A i, j \in 1..Len(s) : s[i] = s[j] => i = j
  BY DEF Once
<1>4. PICK d : d = Others(s, o)
  OBVIOUS
<1>5. d = RemoveAt(s, k)
  BY <1>1, <1>4 DEF Others
<1>6. /\ d \in Seq(Widgets) /\ Len(d) = Len(s) - 1
      /\ \A i \in 1..(Len(s) - 1) : d[i] = IF i < k THEN s[i] ELSE s[i + 1]
  <2>1. s \in Seq(Widgets) /\ k \in 1..Len(s)
    BY <1>2, <1>3
  <2>2. /\ RemoveAt(s, k) \in Seq(Widgets) /\ Len(RemoveAt(s, k)) = Len(s) - 1
        /\ \A i \in 1..(Len(s) - 1) : RemoveAt(s, k)[i] = IF i < k THEN s[i] ELSE s[i + 1]
    BY <2>1, WithoutItem
  <2> QED
    BY <1>5, <2>2
<1>7. DOMAIN d = 1..(Len(s) - 1)
  BY <1>6
\* Where the item at place i of s goes.
<1>8. ASSUME NEW i \in 1..Len(s), i # k
      PROVE  \E m \in DOMAIN d : d[m] = s[i] /\ m = IF i < k THEN i ELSE i - 1
  <2>1. CASE i < k
    BY <1>2, <1>3, <1>6, <1>7, <2>1
  <2>2. CASE k < i
    <3>1. i - 1 \in 1..(Len(s) - 1) /\ ~(i - 1 < k) /\ ~(i < k) /\ (i - 1) + 1 = i
      BY <1>2, <1>3, <2>2
    <3> QED
      BY <1>6, <1>7, <3>1
  <2> QED
    BY <1>2, <1>3, <1>8, <2>1, <2>2
<1>9. ASSUME NEW m \in DOMAIN d
      PROVE  \E i \in 1..Len(s) : i # k /\ d[m] = s[i] /\ i = IF m < k THEN m ELSE m + 1
  <2>1. CASE m < k
    BY <1>2, <1>3, <1>6, <1>7, <2>1
  <2>2. CASE ~(m < k)
    <3>1. m + 1 \in 1..Len(s) /\ m + 1 # k
      BY <1>2, <1>3, <1>7, <2>2
    <3> QED
      BY <1>6, <1>7, <2>2, <3>1
  <2> QED
    BY <2>1, <2>2
<1>10. ToSet(d) = ToSet(s) \ {o}
  <2>1. \A x : x \in ToSet(d) <=> \E m \in DOMAIN d : d[m] = x
    BY DEF ToSet
  <2>2. \A x : x \in ToSet(s) <=> \E i \in 1..Len(s) : s[i] = x
    BY <1>3 DEF ToSet
  <2>3. \A i \in 1..Len(s) : s[i] = o <=> i = k
    BY <1>2, <1>3
  <2>4. ASSUME NEW x \in ToSet(d) PROVE x \in ToSet(s) \ {o}
    BY <1>9, <2>1, <2>2, <2>3
  <2>5. ASSUME NEW x \in ToSet(s), x # o PROVE x \in ToSet(d)
    BY <1>2, <1>8, <2>1, <2>2, <2>5
  <2> QED
    BY <2>4, <2>5
<1>11. ASSUME NEW m \in DOMAIN d, NEW n \in DOMAIN d, d[m] = d[n] PROVE m = n
  <2>1. PICK i \in 1..Len(s) : d[m] = s[i] /\ i = IF m < k THEN m ELSE m + 1
    BY <1>9
  <2>2. PICK j \in 1..Len(s) : d[n] = s[j] /\ j = IF n < k THEN n ELSE n + 1
    BY <1>9
  <2>3. i = j
    BY <1>3, <1>11, <2>1, <2>2
  <2>4. m \in Nat /\ n \in Nat /\ k \in Nat
    BY <1>2, <1>3, <1>7
  <2> QED
    BY <2>1, <2>2, <2>3, <2>4
<1>12. ASSUME NEW u \in ToSet(s) \ {o}, NEW v \in ToSet(s) \ {o}, Before(s, u, v) PROVE Before(d, u, v)
  <2>1. PICK i, j \in 1..Len(s) : i < j /\ s[i] = u /\ s[j] = v
    BY <1>3, <1>12 DEF Before
  <2>2. i # k /\ j # k
    BY <1>2, <2>1
  <2>3. PICK m \in DOMAIN d : d[m] = s[i] /\ m = IF i < k THEN i ELSE i - 1
    BY <1>8, <2>2
  <2>4. PICK n \in DOMAIN d : d[n] = s[j] /\ n = IF j < k THEN j ELSE j - 1
    BY <1>8, <2>2
  <2>5. m < n
    BY <1>2, <1>3, <2>1, <2>2, <2>3, <2>4
  <2> QED
    BY <2>1, <2>3, <2>4, <2>5 DEF Before
<1> QED
  BY <1>4, <1>6, <1>10, <1>11, <1>12 DEF Once

\* One that comes in front.
LEMMA InFrontOf ==
  ASSUME NEW s, Once(s), NEW o \in Widgets, o \notin ToSet(s)
  PROVE  /\ Once(<<o>> \o s) /\ ToSet(<<o>> \o s) = ToSet(s) \cup {o}
         /\ \A u, v : Before(s, u, v) => Before(<<o>> \o s, u, v)
         /\ \A v \in ToSet(s) : Before(<<o>> \o s, o, v)
<1>1. s \in Seq(Widgets) /\ Len(s) \in Nat /\ DOMAIN s = 1..Len(s) /\ \A i, j \in 1..Len(s) : s[i] = s[j] => i = j
  BY DEF Once
<1>2. PICK d : d = <<o>> \o s
  OBVIOUS
<1>3. /\ d \in Seq(Widgets) /\ DOMAIN d = 1..(Len(s) + 1) /\ d[1] = o
      /\ \A i \in 1..Len(s) : d[i + 1] = s[i] /\ i + 1 \in DOMAIN d
  BY <1>1, <1>2
<1>4. \A x : x \in ToSet(d) <=> \E m \in DOMAIN d : d[m] = x
  BY DEF ToSet
<1>5. \A x : x \in ToSet(s) <=> \E i \in 1..Len(s) : s[i] = x
  BY <1>1 DEF ToSet
<1>6. \A m \in DOMAIN d : m = 1 \/ (m - 1 \in 1..Len(s) /\ d[m] = s[m - 1])
  <2> SUFFICES ASSUME NEW m \in DOMAIN d, m # 1 PROVE m - 1 \in 1..Len(s) /\ d[m] = s[m - 1]
    OBVIOUS
  <2>1. m - 1 \in 1..Len(s) /\ (m - 1) + 1 = m
    BY <1>1, <1>3
  <2> QED
    BY <1>3, <2>1
<1>7. 1 \in DOMAIN d
  BY <1>1, <1>3
<1>8. ToSet(d) = ToSet(s) \cup {o}
  <2>1. ASSUME NEW x \in ToSet(d) PROVE x \in ToSet(s) \cup {o}
    BY <1>3, <1>4, <1>5, <1>6
  <2>2. ASSUME NEW x \in ToSet(s) \cup {o} PROVE x \in ToSet(d)
    BY <1>3, <1>4, <1>5, <1>7
  <2> QED
    BY <2>1, <2>2
<1>9. ASSUME NEW m \in DOMAIN d, NEW n \in DOMAIN d, d[m] = d[n] PROVE m = n
  <2>1. m \in Nat /\ n \in Nat
    BY <1>1, <1>3
  <2>2. CASE m = 1 \/ n = 1
    BY <1>3, <1>5, <1>6, <1>9, <2>2
  <2>3. CASE m # 1 /\ n # 1
    <3>1. m - 1 = n - 1
      BY <1>1, <1>6, <1>9, <2>3
    <3> QED
      BY <2>1, <3>1
  <2> QED
    BY <2>2, <2>3
<1>10. ASSUME NEW u, NEW v, Before(s, u, v) PROVE Before(d, u, v)
  <2>1. PICK i, j \in 1..Len(s) : i < j /\ s[i] = u /\ s[j] = v
    BY <1>1, <1>10 DEF Before
  <2>2. i + 1 < j + 1 /\ d[i + 1] = u /\ d[j + 1] = v /\ i + 1 \in DOMAIN d /\ j + 1 \in DOMAIN d
    BY <1>3, <2>1
  <2> QED
    BY <2>2 DEF Before
<1>11. ASSUME NEW v \in ToSet(s) PROVE Before(d, o, v)
  <2>1. PICK i \in 1..Len(s) : s[i] = v
    BY <1>5
  <2>2. 1 < i + 1 /\ d[i + 1] = v /\ i + 1 \in DOMAIN d
    BY <1>3, <2>1
  <2> QED
    BY <1>3, <1>7, <2>2 DEF Before
<1> QED
  BY <1>2, <1>3, <1>8, <1>9, <1>10, <1>11 DEF Once

\* Raising a child takes nothing from the desktop.
LEMMA SameInTree ==
  ASSUME NEW tree, NEW other, \A v \in Widgets : ToSet(tree[v]) = ToSet(other[v])
  PROVE  InTree(tree) = InTree(other)
<1>1. ASSUME NEW w \in Widgets, NEW i \in Line[w] \ {DeskTop} PROVE ToSet(tree[Parent[i]]) = ToSet(other[Parent[i]])
  BY LineOfLine, AboveParent
<1> QED
  BY <1>1 DEF InTree

\* WidgetSetFirst: only o and what is below it can come to be on top.
LEMMA SetFirstInv ==
  ASSUME NoScreenBoundary, ScreenInv, NEW o \in Widgets, WidgetSetFirst(o)
  PROVE  ScreenInv'
<1>1. PICK q : q = Parent[o]
  OBVIOUS
<1>2. PICK tree : tree = [kids EXCEPT ![q] = <<o>> \o Others(@, o)]
  OBVIOUS
<1>3. PICK s : s = Tree(tree, pos, visible)
  OBVIOUS
<1>4. PICK t : t = Tree(kids, pos, visible)
  OBVIOUS
<1>5. Sound(kids, Relative, ChildArea, pos, visible) /\ Nests(kids) /\ screen = [p \in Pixels |-> screen[p]]
  BY DEF ScreenInv, Sound, Pictured
<1>6. o \in Lower /\ o \in InTree(kids)
  BY DEF WidgetSetFirst, Movable, Lower
<1>7. q \in Widgets /\ o \in ToSet(kids[q])
  BY <1>1, <1>5, <1>6, InTreeIs, ParentIs
<1>8. pos \in [Widgets -> Coordinates] /\ Relative \in [Widgets -> Rect] /\ ChildArea \in [Widgets -> Rect]
  BY <1>5 DEF Sound
\* The coordinates are as they were: there was nothing to refresh.
<1>9. Refreshed(o, Relative, ChildArea, {}) = pos
  <2>1. PICK ps : ps = Refreshed(o, Relative, ChildArea, {})
    OBVIOUS
  <2>2. /\ ps \in [Widgets -> Coordinates]
        /\ \A w \in Widgets :
             /\ w \notin Renewed(o, {}) => ps[w] = pos[w]
             /\ w \in Renewed(o, {}) => ps[w] = Placed(Relative[w], ChildArea[w], ChildArea[Parent[w]], ps[Parent[w]])
    BY <1>6, <1>8, <2>1, RefreshedIs
  <2> DEFINE T == {w \in Widgets : ps[w] = pos[w]}
  <2>3. DeskTop \in T
    BY <1>6, <2>2, BelowIs, DeskTopAssumption DEF Renewed
  <2>4. ASSUME NEW w \in Lower, Parent[w] \in T PROVE w \in T
    <3>1. w \in Widgets /\ w # DeskTop /\ ps[Parent[w]] = pos[Parent[w]]
      BY <2>4, AboveParent
    <3>2. CASE w \notin Renewed(o, {})
      BY <2>2, <3>1, <3>2
    <3>3. CASE w \in Renewed(o, {})
      <4>1. w \in InTree(kids)
        BY <1>5, <1>6, <3>3, InTreeLine DEF Renewed, Below
      <4>2. pos[w] = Placed(Relative[w], ChildArea[w], ChildArea[Parent[w]], pos[Parent[w]])
        BY <1>5, <3>1, <4>1 DEF Sound, Fresh
      <4>3. ps[w] = Placed(Relative[w], ChildArea[w], ChildArea[Parent[w]], ps[Parent[w]])
        BY <2>2, <3>1, <3>3
      <4> QED
        BY <3>1, <4>2, <4>3
    <3> QED
      BY <3>2, <3>3
  <2>5. Widgets \subseteq T
    <3> HIDE DEF T
    <3> QED
      BY <2>3, <2>4, DownTheTree
  <2>6. \A w \in Widgets : ps[w] = pos[w]
    BY <2>5
  <2> HIDE DEF T
  <2> QED
    BY <1>8, <2>1, <2>2, <2>6
<1>10. /\ kids' = tree /\ pos' = pos /\ Relative' = Relative /\ ChildArea' = ChildArea /\ visible' = visible
       /\ screen' = WidgetDrawAll(s, screen, o)
  BY <1>1, <1>2, <1>3, <1>9 DEF WidgetSetFirst
<1>11. tree \in [Widgets -> Seq(Widgets)] /\ tree[q] = <<o>> \o Others(kids[q], o)
       /\ \A v \in Widgets : v # q => tree[v] = kids[v]
  <2>1. Once(kids[q])
    BY <1>5, <1>7 DEF Once, Nests
  <2>2. Once(Others(kids[q], o)) /\ o \notin ToSet(Others(kids[q], o)) /\ o \in Widgets
    BY <1>7, <2>1, OthersAre DEF Lower
  <2>3. <<o>> \o Others(kids[q], o) \in Seq(Widgets)
    BY <2>2, InFrontOf DEF Once
  <2> QED
    BY <1>2, <1>5, <1>7, <2>3 DEF Nests
<1>12. /\ Once(tree[q]) /\ ToSet(tree[q]) = ToSet(kids[q])
       /\ \A u, v \in ToSet(kids[q]) : v # o /\ Before(kids[q], u, v) => Before(tree[q], u, v)
  <2>1. Once(kids[q])
    BY <1>5, <1>7 DEF Once, Nests
  <2>2. PICK d : d = Others(kids[q], o)
    OBVIOUS
  <2>3. /\ Once(d) /\ ToSet(d) = ToSet(kids[q]) \ {o}
        /\ \A u, v \in ToSet(kids[q]) \ {o} : Before(kids[q], u, v) => Before(d, u, v)
    BY <1>7, <2>1, <2>2, OthersAre
  <2>4. /\ Once(<<o>> \o d) /\ ToSet(<<o>> \o d) = ToSet(d) \cup {o}
        /\ \A u, v : Before(d, u, v) => Before(<<o>> \o d, u, v)
        /\ \A v \in ToSet(d) : Before(<<o>> \o d, o, v)
    BY <2>3, InFrontOf
  <2>5. tree[q] = <<o>> \o d
    BY <1>11, <2>2
  <2> QED
    BY <1>7, <2>3, <2>4, <2>5
<1>13. \A v \in Widgets : ToSet(tree[v]) = ToSet(kids[v])
  BY <1>11, <1>12
<1>14. Nests(tree)
  <2>1. ASSUME NEW v \in Widgets PROVE \A i, j \in DOMAIN tree[v] : tree[v][i] = tree[v][j] => i = j
    BY <1>5, <1>11, <1>12 DEF Nests, Once
  <2> QED
    BY <1>5, <1>11, <1>13, <2>1 DEF Nests, Lower
<1>15. InTree(tree) = InTree(kids)
  BY <1>13, SameInTree
<1>16. Sound(tree, Relative, ChildArea, pos, visible)
  <2>1. Fresh(tree, Relative, ChildArea, pos)
    BY <1>5, <1>15 DEF Sound, Fresh
  <2>2. \A w \in Widgets : tree[w] # << >> => kids[w] # << >>
    BY <1>7, <1>11 DEF ToSet
  <2>3. Allowed(tree, Relative, ChildArea, pos)
    <3>1. InTree(kids) \subseteq Widgets
      BY <1>5, InTreeIs
    <3> QED
      BY <1>5, <1>15, <2>2, <3>1 DEF Sound, Allowed
  <2> QED
    BY <1>5, <1>14, <2>1, <2>3 DEF Sound
<1>17. Whole(s) /\ Whole(t)
  BY <1>3, <1>4, <1>5, <1>16, SoundWhole
<1>18. /\ s.kids = tree /\ t.kids = kids /\ s.visible = visible /\ t.visible = visible /\ s.on = t.on
       /\ \A w \in Widgets : s.px[w] = t.px[w]
  BY <1>3, <1>4, <1>15, TreeIs
<1>19. ASSUME NEW p \in Pixels, NEW w, OnTop(s, p, w) PROVE screen'[p] = w
  <2>1. screen'[p] = IF w \in Below(o) THEN w ELSE screen[p]
    BY <1>10, <1>17, <1>19, DrawAllIs
  <2> SUFFICES ASSUME w \notin Below(o) PROVE OnTop(t, p, w)
    BY <1>4, <2>1, StaysShown
  <2>2. w \in Widgets /\ o \notin Line[w]
    BY <1>17, <1>19, InTreeIs DEF OnTop, Clear, Whole, Below
  <2>3. ASSUME NEW x \in Line[w], NEW v \in InFront(t, x), v \in visible PROVE p \notin t.px[v]
    <3>1. x \in Lower /\ v \in Lower /\ v \in Widgets /\ Parent[v] = Parent[x] /\ v \in ToSet(kids[Parent[x]])
      BY <1>5, <1>18, <2>2, BesideLine DEF Lower
    <3>2. x \in ToSet(kids[Parent[x]]) /\ Parent[x] \in Widgets
      <4>1. x \in t.on
        BY <1>17, <1>18, <1>19, <2>2, WithinLine DEF OnTop, Clear
      <4> QED
        BY <1>17, <1>18, <3>1, <4>1, InTreeIs, ParentIs DEF Whole
    <3>3. Before(kids[Parent[x]], v, x)
      BY <1>18, <3>1, InFrontBefore
    <3>4. Before(tree[Parent[x]], v, x)
      <4>1. x # o
        BY <2>2
      <4> QED
        BY <1>11, <1>12, <3>1, <3>2, <3>3, <4>1
    <3>5. v \in InFront(s, x)
      BY <1>18, <3>1, <3>4, InFrontBefore
    <3> QED
      BY <1>18, <1>19, <2>3, <3>1, <3>5 DEF OnTop, Clear
  <2>4. ASSUME NEW v \in ToSet(kids[w]), v \in visible PROVE p \notin t.px[v]
    <3>1. v \in Widgets /\ v \in ToSet(tree[w])
      BY <1>5, <1>13, <2>2, KidsNest DEF Lower
    <3> QED
      BY <1>18, <1>19, <2>4, <3>1 DEF OnTop
  <2> QED
    BY <1>18, <1>19, <2>2, <2>3, <2>4 DEF OnTop, Clear
<1>20. screen' = [p \in Pixels |-> screen'[p]]
  BY <1>5, <1>10, DrawAllDomain
<1>21. Pictured(tree, pos, visible, screen')
  BY <1>3, <1>16, <1>19, <1>20, PicturedFrom
<1> QED
  BY <1>10, <1>16, <1>21 DEF ScreenInv

\* Insertion of a window: its coordinates are computed, and it is painted.
LEMMA InsertWindowInv ==
  ASSUME NoScreenBoundary, ScreenInv, NEW o \in Widgets, InsertWindow(o)
  PROVE  ScreenInv'
<1>1. PICK ps : ps = Refreshed(o, Relative, ChildArea, {})
  OBVIOUS
<1>2. PICK tree : tree = [kids EXCEPT ![DeskTop] = <<o>> \o @]
  OBVIOUS
<1>3. PICK s : s = Tree(tree, ps, visible)
  OBVIOUS
<1>4. PICK t : t = Tree(kids, pos, visible)
  OBVIOUS
<1>5. /\ Sound(kids, Relative, ChildArea, pos, visible) /\ Nests(kids) /\ screen = [p \in Pixels |-> screen[p]]
      /\ pos \in [Widgets -> Coordinates] /\ Relative \in [Widgets -> Rect] /\ ChildArea \in [Widgets -> Rect]
  BY DEF ScreenInv, Sound, Pictured
<1>6. /\ kids' = tree /\ pos' = ps /\ Relative' = Relative /\ ChildArea' = ChildArea /\ visible' = visible
      /\ screen' = WidgetDrawAll(s, screen, o) /\ Allowed(tree, Relative, ChildArea, ps)
      /\ o \in ToSet(Layout[DeskTop]) /\ o \notin ToSet(kids[DeskTop])
  BY <1>1, <1>2, <1>3 DEF InsertWindow
<1>7. o \in Lower /\ Parent[o] = DeskTop
  BY <1>6, ParentIs, DeskTopAssumption
<1>8. /\ ps \in [Widgets -> Coordinates]
      /\ \A w \in Widgets :
           /\ w \notin Below(o) => ps[w] = pos[w]
           /\ w \in Below(o) => ps[w] = Placed(Relative[w], ChildArea[w], ChildArea[Parent[w]], ps[Parent[w]])
  <2>1. Renewed(o, {}) = Below(o)
    BY DEF Renewed
  <2> QED
    BY <1>1, <1>5, <1>7, <2>1, RefreshedIs
<1>9. Once(kids[DeskTop])
  BY <1>5, DeskTopAssumption DEF Once, Nests
<1>10. /\ tree[DeskTop] = <<o>> \o kids[DeskTop] /\ Once(tree[DeskTop])
       /\ ToSet(tree[DeskTop]) = ToSet(kids[DeskTop]) \cup {o}
       /\ \A u, v : Before(kids[DeskTop], u, v) => Before(tree[DeskTop], u, v)
  <2>1. tree[DeskTop] = <<o>> \o kids[DeskTop]
    BY <1>2, <1>5, DeskTopAssumption DEF Nests
  <2> QED
    BY <1>6, <1>9, <2>1, InFrontOf
<1>11. tree \in [Widgets -> Seq(Widgets)] /\ \A v \in Lower : tree[v] = kids[v]
  BY <1>2, <1>5, <1>10 DEF Nests, Once, Lower
<1>12. Nests(tree)
  <2>1. ASSUME NEW v \in Widgets
        PROVE  /\ ToSet(tree[v]) \subseteq ToSet(Layout[v])
               /\ \A i, j \in DOMAIN tree[v] : tree[v][i] = tree[v][j] => i = j
    <3>1. CASE v = DeskTop
      BY <1>5, <1>6, <1>10, <3>1 DEF Nests, Once
    <3>2. CASE v # DeskTop
      BY <1>5, <1>11, <3>2 DEF Nests, Lower
    <3> QED
      BY <3>1, <3>2
  <2> QED
    BY <1>5, <1>11, <2>1 DEF Nests
\* The widgets on the desktop now are those before, and the new window with what it holds.
<1>13. \A w \in Widgets : w \in InTree(kids) => w \in InTree(tree) /\ w \notin Below(o)
  <2> SUFFICES ASSUME NEW w \in Widgets, w \in InTree(kids) PROVE w \in InTree(tree) /\ w \notin Below(o)
    OBVIOUS
  <2>1. \A v \in Widgets : ToSet(kids[v]) \subseteq ToSet(tree[v])
    BY <1>10, <1>11 DEF Lower
  <2>2. \A i \in Line[w] \ {DeskTop} : Parent[i] \in Widgets
    BY LineOfLine, ParentIs
  <2>3. w \in InTree(tree)
    BY <2>1, <2>2 DEF InTree
  <2>4. w \notin Below(o)
    BY <1>6, <1>7 DEF InTree, Below, Lower
  <2> QED
    BY <2>3, <2>4
<1>14. \A w \in Widgets : w \in InTree(tree) /\ w \notin Below(o) => w \in InTree(kids)
  <2> SUFFICES ASSUME NEW w \in Widgets, w \in InTree(tree), w \notin Below(o), NEW i \in Line[w] \ {DeskTop}
               PROVE  i \in ToSet(kids[Parent[i]])
    BY DEF InTree
  <2>1. i \in ToSet(tree[Parent[i]]) /\ i # o
    BY DEF InTree, Below
  <2>2. Parent[i] = DeskTop \/ Parent[i] \in Lower
    BY LineOfLine, ParentIs DEF Lower
  <2> QED
    BY <1>10, <1>11, <2>1, <2>2
<1>15. InTree(kids) \subseteq Widgets /\ InTree(tree) \subseteq Widgets
  BY DEF InTree
<1>16. Sound(tree, Relative, ChildArea, ps, visible)
  <2>1. Fresh(tree, Relative, ChildArea, ps)
    <3> SUFFICES ASSUME NEW w \in InTree(tree), w # DeskTop
                 PROVE  ps[w] = Placed(Relative[w], ChildArea[w], ChildArea[Parent[w]], ps[Parent[w]])
      BY DEF Fresh
    <3>1. w \in Widgets /\ w \in Lower /\ Parent[w] \in Widgets
      BY <1>15, ParentIs DEF Lower
    <3>2. CASE w \in Below(o)
      BY <1>8, <3>1, <3>2
    <3>3. CASE w \notin Below(o)
      <4>1. pos[w] = Placed(Relative[w], ChildArea[w], ChildArea[Parent[w]], pos[Parent[w]])
        BY <1>5, <1>14, <3>1, <3>3 DEF Sound, Fresh
      <4>2. Parent[w] \notin Below(o)
        BY <1>7, <3>1, <3>3, BelowIs
      <4> QED
        BY <1>8, <3>1, <3>3, <4>1, <4>2
    <3> QED
      BY <3>2, <3>3
  <2>2. ps[DeskTop] = Top0
    BY <1>5, <1>7, <1>8, BelowIs, DeskTopAssumption DEF Sound
  <2> QED
    BY <1>5, <1>6, <1>8, <1>12, <2>1, <2>2 DEF Sound
<1>17. Whole(s) /\ Whole(t)
  BY <1>3, <1>4, <1>5, <1>16, SoundWhole
<1>18. /\ s.kids = tree /\ t.kids = kids /\ s.visible = visible /\ t.visible = visible
       /\ s.on = InTree(tree) /\ t.on = InTree(kids)
       /\ \A w \in Widgets : s.px[w] = PixelsOf(ps[w].draw) /\ t.px[w] = PixelsOf(pos[w].draw)
  BY <1>3, <1>4, TreeIs
<1>19. ASSUME NEW p \in Pixels, NEW w, OnTop(s, p, w) PROVE screen'[p] = w
  <2>1. screen'[p] = IF w \in Below(o) THEN w ELSE screen[p]
    BY <1>6, <1>17, <1>19, DrawAllIs
  <2> SUFFICES ASSUME w \notin Below(o) PROVE OnTop(t, p, w)
    BY <1>4, <2>1, StaysShown
  <2>2. w \in Widgets /\ o \notin Line[w] /\ w \in InTree(kids)
    BY <1>14, <1>15, <1>18, <1>19 DEF OnTop, Clear, Below
  <2>3. \A v \in InTree(kids) : v \in Widgets /\ s.px[v] = t.px[v]
    BY <1>8, <1>13, <1>15, <1>18
  <2>4. ASSUME NEW x \in Line[w], NEW v \in InFront(t, x), v \in visible PROVE p \notin t.px[v]
    <3>1. /\ x \in Lower /\ v \in Lower /\ v \in Widgets /\ Parent[v] = Parent[x]
          /\ v \in ToSet(kids[Parent[v]]) /\ Parent[v] \in Line[w]
      BY <1>5, <1>18, <2>2, BesideLine DEF Lower
    <3>2. v \in InTree(kids)
      <4>1. Parent[v] \in InTree(kids)
        BY <1>5, <2>2, <3>1, InTreeLine
      <4> QED
        BY <1>5, <3>1, <4>1, InTreeIs
    <3>3. Before(kids[Parent[x]], v, x)
      BY <1>18, <3>1, InFrontBefore
    <3>4. Parent[x] = DeskTop \/ Parent[x] \in Lower
      BY <3>1, ParentIs DEF Lower
    <3>5. Before(tree[Parent[x]], v, x)
      BY <1>10, <1>11, <3>3, <3>4
    <3>6. v \in InFront(s, x)
      BY <1>18, <3>1, <3>5, InFrontBefore
    <3> QED
      BY <1>18, <1>19, <2>3, <2>4, <3>2, <3>6 DEF OnTop, Clear
  <2>5. ASSUME NEW v \in ToSet(kids[w]), v \in visible PROVE p \notin t.px[v]
    <3>1. v \in InTree(kids)
      BY <1>5, <2>2, InTreeIs
    <3>2. v \in ToSet(tree[w])
      BY <1>10, <1>11, <2>2 DEF Lower
    <3> QED
      BY <1>18, <1>19, <2>3, <2>5, <3>1, <3>2 DEF OnTop
  <2>6. p \in t.px[w]
    BY <1>19, <2>2, <2>3 DEF OnTop, Clear
  <2> QED
    BY <1>18, <1>19, <2>2, <2>4, <2>5, <2>6 DEF OnTop, Clear
<1>20. screen' = [p \in Pixels |-> screen'[p]]
  BY <1>5, <1>6, DrawAllDomain
<1>21. Pictured(tree, ps, visible, screen')
  BY <1>3, <1>16, <1>19, <1>20, PicturedFrom
<1> QED
  BY <1>6, <1>16, <1>21 DEF ScreenInv

\* To draw a widget again changes nothing.
LEMMA DrawnAgain ==
  ASSUME NEW t, Whole(t), NEW sc, sc = [p \in Pixels |-> sc[p]],
         \A p \in Pixels : \A w : OnTop(t, p, w) => sc[p] = w, NEW o \in Widgets
  PROVE  WidgetDrawAll(t, sc, o) = sc
<1>1. WidgetDrawAll(t, sc, o) = [p \in Pixels |-> WidgetDrawAll(t, sc, o)[p]]
  BY DrawAllDomain
<1>2. ASSUME NEW p \in Pixels PROVE WidgetDrawAll(t, sc, o)[p] = sc[p]
  <2>1. PICK w : OnTop(t, p, w)
    BY ClearDesk, TopExists
  <2> QED
    BY <2>1, DrawAllIs
<1> QED
  BY <1>1, <1>2

\* Removal of a window: all of what it left is painted, and then nothing changes.
LEMMA RemoveWindowInv ==
  ASSUME NoScreenBoundary, ScreenInv, NEW o \in Widgets, RemoveWindow(o)
  PROVE  ScreenInv'
<1>1. PICK tree : tree = [kids EXCEPT ![DeskTop] = Others(@, o)]
  OBVIOUS
<1>2. PICK s : s = Tree(tree, pos, visible)
  OBVIOUS
<1>3. PICK t : t = Tree(kids, pos, visible)
  OBVIOUS
<1>4. /\ Sound(kids, Relative, ChildArea, pos, visible) /\ Nests(kids) /\ screen = [p \in Pixels |-> screen[p]]
      /\ pos \in [Widgets -> Coordinates]
  BY DEF ScreenInv, Sound, Pictured
<1>5. /\ kids' = tree /\ pos' = pos /\ Relative' = Relative /\ ChildArea' = ChildArea /\ visible' = visible
      /\ o \in ToSet(kids[DeskTop])
  BY <1>1 DEF RemoveWindow
<1>6. o \in Lower /\ Parent[o] = DeskTop
  BY <1>4, <1>5, KidsNest, DeskTopAssumption
<1>7. Once(kids[DeskTop])
  BY <1>4, DeskTopAssumption DEF Once, Nests
<1>8. /\ tree[DeskTop] = Others(kids[DeskTop], o) /\ Once(tree[DeskTop])
      /\ ToSet(tree[DeskTop]) = ToSet(kids[DeskTop]) \ {o}
      /\ \A u, v \in ToSet(kids[DeskTop]) \ {o} : Before(kids[DeskTop], u, v) => Before(tree[DeskTop], u, v)
  <2>1. tree[DeskTop] = Others(kids[DeskTop], o)
    BY <1>1, <1>4, DeskTopAssumption DEF Nests
  <2> QED
    BY <1>5, <1>7, <2>1, OthersAre
<1>9. tree \in [Widgets -> Seq(Widgets)] /\ \A v \in Lower : tree[v] = kids[v]
  BY <1>1, <1>4, <1>8 DEF Nests, Once, Lower
<1>10. Nests(tree)
  <2>1. ASSUME NEW v \in Widgets
        PROVE  /\ ToSet(tree[v]) \subseteq ToSet(Layout[v])
               /\ \A i, j \in DOMAIN tree[v] : tree[v][i] = tree[v][j] => i = j
    <3>1. CASE v = DeskTop
      BY <1>4, <1>8, <3>1 DEF Nests, Once
    <3>2. CASE v # DeskTop
      BY <1>4, <1>9, <3>2 DEF Nests, Lower
    <3> QED
      BY <3>1, <3>2
  <2> QED
    BY <1>4, <1>9, <2>1 DEF Nests
<1>11. \A w \in Widgets : w \in InTree(tree) => w \in InTree(kids) /\ w \notin Below(o)
  <2> SUFFICES ASSUME NEW w \in Widgets, w \in InTree(tree) PROVE w \in InTree(kids) /\ w \notin Below(o)
    OBVIOUS
  <2>1. \A v \in Widgets : ToSet(tree[v]) \subseteq ToSet(kids[v])
    BY <1>8, <1>9 DEF Lower
  <2>2. \A i \in Line[w] \ {DeskTop} : Parent[i] \in Widgets
    BY LineOfLine, ParentIs
  <2>3. w \in InTree(kids)
    BY <2>1, <2>2 DEF InTree
  <2>4. w \notin Below(o)
    BY <1>6, <1>8 DEF InTree, Below, Lower
  <2> QED
    BY <2>3, <2>4
<1>12. InTree(kids) \subseteq Widgets /\ InTree(tree) \subseteq Widgets
  BY DEF InTree
<1>13. Sound(tree, Relative, ChildArea, pos, visible)
  <2>1. Fresh(tree, Relative, ChildArea, pos)
    BY <1>4, <1>11, <1>12 DEF Sound, Fresh
  <2>2. \A w \in Widgets : tree[w] # << >> => kids[w] # << >>
    BY <1>5, <1>9 DEF ToSet, Lower
  <2>3. Allowed(tree, Relative, ChildArea, pos)
    BY <1>4, <1>11, <1>12, <2>2 DEF Sound, Allowed
  <2> QED
    BY <1>4, <1>10, <2>1, <2>3 DEF Sound
<1>14. Whole(s) /\ Whole(t)
  BY <1>2, <1>3, <1>4, <1>13, SoundWhole
<1>15. /\ s.kids = tree /\ t.kids = kids /\ s.visible = visible /\ t.visible = visible
       /\ s.on = InTree(tree) /\ t.on = InTree(kids)
       /\ \A w \in Widgets : s.px[w] = PixelsOf(pos[w].draw) /\ t.px[w] = PixelsOf(pos[w].draw)
  BY <1>2, <1>3, TreeIs
\* The desktop paints what the window covered.
<1>16. PICK sc : sc = WidgetDrawOnRect(s, screen, DeskTop, pos[o].draw)
  OBVIOUS
<1>17. ASSUME NEW p \in Pixels, NEW w, OnTop(s, p, w) PROVE sc[p] = w
  <2>1. pos[o].draw \in Rect
    BY <1>4 DEF Coordinates
  <2>2. sc[p] = IF PointInRect(p, pos[o].draw) THEN w ELSE screen[p]
    BY <1>14, <1>16, <1>17, <2>1, DrawOnRectIs
  <2> SUFFICES ASSUME ~PointInRect(p, pos[o].draw) PROVE OnTop(t, p, w)
    BY <1>3, <2>2, StaysShown
  <2>3. w \in Widgets /\ w \in InTree(kids) /\ o \notin Line[w]
    BY <1>11, <1>12, <1>15, <1>17 DEF OnTop, Clear, Below
  <2>4. ASSUME NEW x \in Line[w], NEW v \in InFront(t, x), v \in visible PROVE p \notin t.px[v]
    <3>1. /\ x \in Lower /\ v \in Lower /\ v \in Widgets /\ Parent[v] = Parent[x]
          /\ v \in ToSet(kids[Parent[v]])
      BY <1>4, <1>15, <2>3, BesideLine DEF Lower
    <3>2. CASE v = o
      BY <1>15, <3>1, <3>2 DEF PixelsOf
    <3>3. CASE v # o
      <4>1. Before(kids[Parent[x]], v, x)
        BY <1>15, <3>1, InFrontBefore
      <4>2. Parent[x] = DeskTop \/ Parent[x] \in Lower
        BY <3>1, ParentIs DEF Lower
      <4>3. x \in ToSet(kids[Parent[x]]) /\ x # o
        BY <2>3, <4>1 DEF Before, ToSet
      <4>4. Before(tree[Parent[x]], v, x)
        BY <1>8, <1>9, <3>1, <3>3, <4>1, <4>2, <4>3
      <4>5. v \in InFront(s, x)
        BY <1>15, <3>1, <4>4, InFrontBefore
      <4> QED
        BY <1>15, <1>17, <2>4, <3>1, <4>5 DEF OnTop, Clear
    <3> QED
      BY <3>2, <3>3
  <2>5. ASSUME NEW v \in ToSet(kids[w]), v \in visible PROVE p \notin t.px[v]
    <3>1. v \in Widgets
      BY <1>4, <2>3, KidsNest DEF Lower
    <3>2. CASE v = o
      BY <1>15, <3>1, <3>2 DEF PixelsOf
    <3>3. CASE v # o
      <4>1. v \in ToSet(tree[w])
        BY <1>8, <1>9, <2>3, <3>3 DEF Lower
      <4> QED
        BY <1>15, <1>17, <2>5, <3>1, <4>1 DEF OnTop
    <3> QED
      BY <3>2, <3>3
  <2> QED
    BY <1>15, <1>17, <2>3, <2>4, <2>5 DEF OnTop, Clear
<1>18. sc = [p \in Pixels |-> sc[p]]
  BY <1>4, <1>16, DrawOnRectDomain
\* And the siblings paint what is there already.
<1>19. screen' = sc
  <2>1. PICK len : len = Len(tree[DeskTop])
    OBVIOUS
  <2>2. len \in Nat /\ \A n \in 1..len : tree[DeskTop][n] \in Widgets
    BY <1>8, <2>1 DEF Once
  <2> DEFINE E(x) == [n \in 0..len |-> IF n = 0 THEN WidgetDrawOnRect(s, screen, DeskTop, pos[o].draw)
                                       ELSE WidgetDrawAll(s, x[n - 1], tree[DeskTop][n])]
  <2>3. PICK n \in 0..len : screen' = (CHOOSE x : x = E(x))[n]
    BY <1>1, <1>2, <2>1 DEF RemoveWindow
  <2>4. \A m \in 1..len : WidgetDrawAll(s, sc, tree[DeskTop][m]) = sc
    BY <1>14, <1>17, <1>18, <2>2, DrawnAgain
  <2>5. PICK f : f = [m \in 0..len |-> sc]
    OBVIOUS
  <2>6. f = E(f)
    <3>1. ASSUME NEW m \in 0..len
          PROVE  f[m] = IF m = 0 THEN WidgetDrawOnRect(s, screen, DeskTop, pos[o].draw)
                        ELSE WidgetDrawAll(s, f[m - 1], tree[DeskTop][m])
      <4>1. CASE m = 0
        BY <1>16, <2>5, <4>1
      <4>2. CASE m # 0
        <5>1. m \in 1..len /\ m - 1 \in 0..len
          BY <2>2, <4>2
        <5> QED
          BY <2>4, <2>5, <4>2, <5>1
      <4> QED
        BY <4>1, <4>2
    <3>2. f = [m \in 0..len |-> f[m]]
      BY <2>5
    <3> QED
      BY <3>1, <3>2
  <2>7. PICK g : g = CHOOSE x : x = E(x)
    OBVIOUS
  <2>8. g = E(g)
    <3> HIDE DEF E
    <3> QED
      BY <2>6, <2>7
  <2>9. \A m \in 0..len : g[m] = IF m = 0 THEN sc ELSE WidgetDrawAll(s, g[m - 1], tree[DeskTop][m])
    BY <1>16, <2>8
  <2> HIDE DEF E
  <2> DEFINE T == {m \in Nat : m <= len => g[m] = sc}
  <2>10. 0 \in T
    BY <2>2, <2>9
  <2>11. ASSUME NEW m \in Nat, m \in T PROVE m + 1 \in T
    <3> SUFFICES ASSUME m + 1 <= len PROVE g[m + 1] = sc
      OBVIOUS
    <3>1. m + 1 \in 1..len /\ m + 1 \in 0..len /\ (m + 1) - 1 = m /\ m + 1 # 0 /\ g[m] = sc
      BY <2>2, <2>11
    <3> QED
      BY <2>4, <2>9, <3>1
  <2>12. Nat \subseteq T
    <3> HIDE DEF T
    <3> QED
      BY <2>10, <2>11, SetInduction
  <2> QED
    BY <2>2, <2>3, <2>7, <2>12
<1>20. Pictured(tree, pos, visible, screen')
  BY <1>2, <1>13, <1>17, <1>18, <1>19, PicturedFrom
<1> QED
  BY <1>5, <1>13, <1>20 DEF ScreenInv

\* Moves and resizes: o is painted, and its parent where o has been and is no more.
LEMMA PlaceInv ==
  ASSUME NoScreenBoundary, ScreenInv, NEW o \in Widgets, NEW r \in Rect, Movable(o), Place(o, r)
  PROVE  ScreenInv'
<1>1. PICK new : new = Resized(o, r)
  OBVIOUS
<1>2. PICK rel : rel = [w \in Widgets |-> new[w].rel]
  OBVIOUS
<1>3. PICK area : area = [w \in Widgets |-> new[w].area]
  OBVIOUS
<1>4. PICK lost : lost = {w \in Widgets : new[w].set /\ ~NonEmpty(SelfRelative(ChildArea[w]))}
  OBVIOUS
<1>5. PICK ps : ps = Refreshed(o, rel, area, lost)
  OBVIOUS
<1>6. PICK s : s = Tree(kids, ps, visible)
  OBVIOUS
<1>7. PICK t : t = Tree(kids, pos, visible)
  OBVIOUS
<1>8. PICK bare : bare = PixelsOf(pos[o].draw) \ PixelsOf(ps[o].draw)
  OBVIOUS
<1>9. PICK q : q = Parent[o]
  OBVIOUS
<1>10. PICK drawn : drawn = WidgetDrawAll(s, screen, o)
  OBVIOUS
<1>11. /\ kids' = kids /\ Relative' = rel /\ ChildArea' = area /\ pos' = ps /\ visible' = visible
       /\ screen' = WidgetDrawOnRectListEx(s, drawn, q, bare) /\ Allowed(kids, rel, area, ps)
  BY <1>1, <1>2, <1>3, <1>4, <1>5, <1>6, <1>8, <1>9, <1>10 DEF Place
<1>12. /\ Sound(kids, Relative, ChildArea, pos, visible) /\ Nests(kids) /\ InTree(kids) \subseteq Widgets
       /\ pos \in [Widgets -> Coordinates] /\ Relative \in [Widgets -> Rect] /\ ChildArea \in [Widgets -> Rect]
  BY InTreeIs DEF ScreenInv, Sound
<1>13. o \in Lower /\ o \in InTree(kids) /\ q \in Widgets /\ Line[q] \subseteq visible
  BY <1>9, AboveParent DEF Movable, NoScreenBoundary, Lower
<1>14. /\ new \in [Widgets -> Size]
       /\ \A w \in Widgets : w \notin Below(o) =>
            new[w] = [rel |-> Relative[w], area |-> ChildArea[w], set |-> FALSE]
  BY <1>1, <1>12, <1>13, ResizedIs
<1>15. /\ rel \in [Widgets -> Rect] /\ area \in [Widgets -> Rect]
       /\ \A w \in Widgets : w \notin Below(o) => rel[w] = Relative[w] /\ area[w] = ChildArea[w]
  BY <1>2, <1>3, <1>14 DEF Size
<1>16. /\ ps \in [Widgets -> Coordinates]
       /\ \A w \in Widgets :
            /\ w \notin Renewed(o, lost) => ps[w] = pos[w]
            /\ w \in Renewed(o, lost) => ps[w] = Placed(rel[w], area[w], area[Parent[w]], ps[Parent[w]])
  <2>1. /\ pos \in [Widgets -> Coordinates] /\ o \in Lower
        /\ rel \in [Widgets -> Rect] /\ area \in [Widgets -> Rect]
    BY <1>12, <1>13, <1>15
  <2>2. /\ Refreshed(o, rel, area, lost) \in [Widgets -> Coordinates]
        /\ \A w \in Widgets :
             /\ w \notin Renewed(o, lost) => Refreshed(o, rel, area, lost)[w] = pos[w]
             /\ w \in Renewed(o, lost) =>
                  Refreshed(o, rel, area, lost)[w] =
                    Placed(rel[w], area[w], area[Parent[w]], Refreshed(o, rel, area, lost)[Parent[w]])
    BY <2>1, RefreshedIs
  <2> QED
    BY <1>5, <2>2
\* No widget with children is lost: its child area was not empty.
<1>17. ASSUME NEW w \in Below(o) PROVE w \in Renewed(o, lost)
  <2> SUFFICES ASSUME NEW x \in lost, x \in Line[w], x # w PROVE FALSE
    BY DEF Renewed
  <2>1. w \in Widgets /\ w \in InTree(kids)
    BY <1>12, <1>13, InTreeLine DEF Below
  <2>2. x \in Widgets /\ x \in InTree(kids)
    BY <1>12, <2>1, InTreeLine, LineIs
  <2>3. PICK y \in Line[w] : y \in Lower /\ Parent[y] = x
    BY <2>1, LineRises
  <2>4. y \in InTree(kids)
    BY <1>12, <2>1, InTreeLine
  <2>5. y \in ToSet(kids[x])
    BY <1>12, <2>3, <2>4, InTreeIs
  <2>6. kids[x] # << >>
    BY <2>5 DEF ToSet
  <2>7. NonEmpty(ChildArea[x]) /\ ChildArea[x] \in Rect
    BY <1>12, <2>2, <2>6 DEF Sound, Allowed, NoScreenBoundary
  <2> QED
    BY <1>4, <2>7, SelfRelativeIs
<1>18. \A w \in Widgets : w \in Renewed(o, lost) <=> w \in Below(o)
  BY <1>17 DEF Renewed
<1>19. Sound(kids, rel, area, ps, visible)
  <2>1. Fresh(kids, rel, area, ps)
    <3> SUFFICES ASSUME NEW w \in InTree(kids), w # DeskTop
                 PROVE  ps[w] = Placed(rel[w], area[w], area[Parent[w]], ps[Parent[w]])
      BY DEF Fresh
    <3>1. w \in Widgets /\ w \in Lower /\ Parent[w] \in Widgets
      BY <1>12, ParentIs DEF Lower
    <3>2. CASE w \in Below(o)
      BY <1>16, <1>18, <3>1, <3>2
    <3>3. CASE w \notin Below(o)
      <4>1. pos[w] = Placed(Relative[w], ChildArea[w], ChildArea[Parent[w]], pos[Parent[w]])
        BY <1>12, <3>1, <3>3 DEF Sound, Fresh, Lower
      <4>2. Parent[w] \notin Below(o)
        BY <1>13, <3>1, <3>3, BelowIs
      <4>3. ps[w] = pos[w] /\ ps[Parent[w]] = pos[Parent[w]]
        BY <1>16, <1>18, <3>1, <3>3, <4>2
      <4>4. rel[w] = Relative[w] /\ area[w] = ChildArea[w] /\ area[Parent[w]] = ChildArea[Parent[w]]
        BY <1>15, <3>1, <3>3, <4>2
      <4> QED
        BY <4>1, <4>3, <4>4
    <3> QED
      BY <3>2, <3>3
  <2>2. ps[DeskTop] = Top0
    BY <1>12, <1>13, <1>16, <1>18, BelowIs, DeskTopAssumption DEF Sound
  <2> QED
    BY <1>11, <1>12, <1>15, <1>16, <2>1, <2>2 DEF Sound
<1>20. Whole(s) /\ Whole(t)
  BY <1>6, <1>7, <1>12, <1>19, SoundWhole
<1>21. /\ s.kids = kids /\ t.kids = kids /\ s.visible = visible /\ t.visible = visible /\ s.on = t.on
       /\ \A w \in Widgets : s.px[w] = PixelsOf(ps[w].draw) /\ t.px[w] = PixelsOf(pos[w].draw)
  BY <1>6, <1>7, TreeIs
<1>22. ASSUME NEW p \in Pixels, NEW w, OnTop(s, p, w) PROVE screen'[p] = w
  <2>1. drawn[p] = IF w \in Below(o) THEN w ELSE screen[p]
    BY <1>10, <1>20, <1>22, DrawAllIs
  <2>2. screen'[p] = IF w \in Below(q) /\ p \in bare THEN w ELSE drawn[p]
    <3>1. WidgetCheckVisible(s, q)
      BY <1>13, <1>21 DEF WidgetCheckVisible
    <3>2. WidgetDrawOnRectListEx(s, drawn, q, bare)[p] = IF w \in Below(q) /\ p \in bare THEN w ELSE drawn[p]
      BY <1>13, <1>20, <1>22, <3>1, DrawOnListIs
    <3> QED
      BY <1>11, <3>2
  <2> SUFFICES ASSUME w \notin Below(o), ~(w \in Below(q) /\ p \in bare) PROVE OnTop(t, p, w)
    BY <1>7, <2>1, <2>2, StaysShown
  <2>3. w \in Widgets /\ w \in t.on /\ o \notin Line[w] /\ w \in Line[w]
    BY <1>20, <1>21, <1>22, InTreeIs, LineHas DEF OnTop, Clear, Whole, Below
\* What does not belong to o is drawn where it was.
  <2>4. \A v \in Widgets : v \notin Below(o) => s.px[v] = t.px[v]
    BY <1>16, <1>18, <1>21
\* Of what belongs to o, only o itself can hide w: then its parent has painted.
  <2>5. ASSUME NEW v \in Lower, Parent[v] \in Line[w], v \in visible, v \in Below(o), p \notin s.px[v]
        PROVE  p \notin t.px[v]
    <3>1. Parent[v] \notin Below(o)
      BY <2>3, <2>5, LineOfLine DEF Below
    <3>2. v = o
      BY <1>13, <2>5, <3>1, BelowIs
    <3>3. w \in Below(q)
      BY <1>9, <2>3, <2>5, <3>2 DEF Below
    <3>4. p \notin bare
      BY <3>3
    <3> QED
      BY <1>8, <1>21, <2>5, <3>2, <3>4
  <2>6. ASSUME NEW v \in Lower, Parent[v] \in Line[w], v \in visible, p \notin s.px[v] PROVE p \notin t.px[v]
    <3>1. v \in Widgets
      BY DEF Lower
    <3> QED
      BY <2>4, <2>5, <2>6, <3>1
  <2>7. ASSUME NEW x \in Line[w], NEW v \in InFront(t, x), v \in visible PROVE p \notin t.px[v]
    <3>1. v \in Lower /\ Parent[v] \in Line[w]
      BY <1>12, <1>21, <2>3, BesideLine
    <3>2. v \in InFront(s, x)
      BY <1>21 DEF InFront
    <3>3. p \notin s.px[v]
      BY <1>21, <1>22, <2>7, <3>2 DEF OnTop, Clear
    <3> QED
      BY <2>6, <2>7, <3>1, <3>3
  <2>8. ASSUME NEW v \in ToSet(kids[w]), v \in visible PROVE p \notin t.px[v]
    <3>1. v \in Lower /\ Parent[v] \in Line[w]
      BY <1>12, <2>3, KidsNest
    <3>2. p \notin s.px[v]
      BY <1>21, <1>22, <2>8 DEF OnTop
    <3> QED
      BY <2>6, <2>8, <3>1, <3>2
  <2>9. p \in t.px[w]
    BY <1>22, <2>3, <2>4 DEF OnTop, Clear, Below
  <2> QED
    BY <1>21, <1>22, <2>3, <2>7, <2>8, <2>9 DEF OnTop, Clear
<1>23. screen' = [p \in Pixels |-> screen'[p]]
  BY <1>11, DrawOnListDomain
<1>24. Pictured(kids, ps, visible, screen')
  BY <1>6, <1>19, <1>22, <1>23, PicturedFrom
<1> QED
  BY <1>11, <1>19, <1>24 DEF ScreenInv

\* Every step keeps the invariant.
LEMMA ScreenNextInv == NoScreenBoundary /\ ScreenInv /\ [ScreenNext]_screenVars => ScreenInv'
<1> SUFFICES ASSUME NoScreenBoundary, ScreenInv, [ScreenNext]_screenVars PROVE ScreenInv'
  OBVIOUS
<1>1. Relative \in [Widgets -> Rect] /\ InTree(kids) \subseteq Widgets
  BY InTreeIs DEF ScreenInv, Sound
<1>2. ASSUME NEW m \in Moves, WidgetMove(m[1], m[2], m[3]) PROVE ScreenInv'
  <2>1. PICK o : o = m[1]
    OBVIOUS
  <2>2. PICK r : r = RectMove(Relative[o], [x |-> m[2], y |-> m[3]])
    OBVIOUS
  <2>3. Movable(o) /\ Place(o, r)
    BY <1>2, <2>1, <2>2 DEF WidgetMove
  <2>4. o \in Widgets /\ m[2] \in Int /\ m[3] \in Int
    BY <1>1, <2>3, CoordinatesAssumption DEF Movable
  <2>5. r \in Rect
    BY <1>1, <2>2, <2>4, MoveIs DEF Point
  <2> QED
    BY <2>3, <2>4, <2>5, PlaceInv
<1>3. ASSUME NEW m \in Sizes, WidgetResize(m[1], m[2], m[3]) PROVE ScreenInv'
  <2>1. PICK o : o = m[1]
    OBVIOUS
  <2>2. PICK r : r = [Relative[o] EXCEPT !.b = [x |-> @.x + m[2], y |-> @.y + m[3]]]
    OBVIOUS
  <2>3. Movable(o) /\ Place(o, r)
    BY <1>3, <2>1, <2>2 DEF WidgetResize
  <2>4. o \in Widgets /\ m[2] \in Int /\ m[3] \in Int
    BY <1>1, <2>3, CoordinatesAssumption DEF Movable
  <2>5. r \in Rect
    <3>1. PICK q \in Rect : q = Relative[o]
      BY <1>1, <2>4
    <3>2. [x |-> q.b.x + m[2], y |-> q.b.y + m[3]] \in Point
      BY <2>4 DEF Rect, Point
    <3>3. r = [q EXCEPT !.b = [x |-> q.b.x + m[2], y |-> q.b.y + m[3]]]
      BY <2>2, <3>1
    <3> QED
      BY <3>2, <3>3 DEF Rect
  <2> QED
    BY <2>3, <2>4, <2>5, PlaceInv
<1>4. ASSUME NEW m \in Places, WidgetSetMetrics(m[1], m[2]) PROVE ScreenInv'
  <2>1. Movable(m[1]) /\ Place(m[1], m[2])
    BY <1>4 DEF WidgetSetMetrics
  <2>2. m[1] \in Widgets /\ m[2] \in Rect
    BY <1>1, <2>1, CoordinatesAssumption DEF Movable
  <2> QED
    BY <2>1, <2>2, PlaceInv
<1>5. ASSUME NEW o \in Widgets, WidgetSetFirst(o) \/ InsertWindow(o) \/ RemoveWindow(o) PROVE ScreenInv'
  BY <1>5, SetFirstInv, InsertWindowInv, RemoveWindowInv
<1>6. ASSUME NEW o \in Books, NEW c \in ToSet(kids[o]), TabBookSelectTab(o, c) PROVE ScreenInv'
  <2>1. o \in Widgets
    BY <1>1, <1>6 DEF TabBookSelectTab
  <2> QED
    BY <1>6, <2>1, SelectTabInv
<1>7. CASE UNCHANGED screenVars
  BY <1>7 DEF screenVars, ScreenInv, Sound, Fresh, Allowed, Nests, InTree, Pictured, Tree
<1> QED
  BY <1>2, <1>3, <1>4, <1>5, <1>6, <1>7 DEF ScreenNext

(***************************************************************************)
(* Types and the stored coordinates: what is stored with each widget on    *)
(* the desktop is what one gets from Relative and ChildArea all over again.*)
(***************************************************************************)
THEOREM CoordinatesAreFresh == NoScreenBoundary /\ ScreenSpec => []WidgetsOK
<1> SUFFICES ASSUME NoScreenBoundary PROVE ScreenSpec => []WidgetsOK
  OBVIOUS
<1>1. ScreenInit => ScreenInv
  BY ScreenInitInv
<1>2. ScreenInv /\ [ScreenNext]_screenVars => ScreenInv'
  BY ScreenNextInv
<1>3. ScreenInv => WidgetsOK
  BY ScreenInvIs
<1> QED
  BY <1>1, <1>2, <1>3, PTL DEF ScreenSpec

(***************************************************************************)
(* The partial repaints of moves, resizes, raises, insertions, removals    *)
(* and tab changes add up: each pixel shows the widget that a painting of  *)
(* the whole desktop from back to front would leave there.                 *)
(***************************************************************************)
THEOREM PartialPaintsAddUp == NoScreenBoundary /\ ScreenSpec => []ScreenIsTop
<1> SUFFICES ASSUME NoScreenBoundary PROVE ScreenSpec => []ScreenIsTop
  OBVIOUS
<1>1. ScreenInit => ScreenInv
  BY ScreenInitInv
<1>2. ScreenInv /\ [ScreenNext]_screenVars => ScreenInv'
  BY ScreenNextInv
<1>3. ScreenInv => ScreenIsTop
  BY ScreenInvIs
<1> QED
  BY <1>1, <1>2, <1>3, PTL DEF ScreenSpec

(***************************************************************************)
(* TopWidgetUnderPoint and the painting agree: wherever the mouse finds a  *)
(* widget that is drawn at that point, it is this widget one sees.         *)
(***************************************************************************)
THEOREM MouseGoesToWhatIsSeen == NoScreenBoundary /\ ScreenSpec => []HitIsDrawn
<1> SUFFICES ASSUME NoScreenBoundary PROVE ScreenSpec => []HitIsDrawn
  OBVIOUS
<1>1. ScreenInit => ScreenInv
  BY ScreenInitInv
<1>2. ScreenInv /\ [ScreenNext]_screenVars => ScreenInv'
  BY ScreenNextInv
<1>3. ScreenInv => HitIsDrawn
  BY ScreenInvIs
<1> QED
  BY <1>1, <1>2, <1>3, PTL DEF ScreenSpec
=============================================================================
