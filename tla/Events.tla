------------------------------- MODULE Events -------------------------------
(***************************************************************************)
(* The way of a key or a click to a widget: PollEvents asks the mouse and  *)
(* the keyboard, and HandleEvent gives what they say to the system handler *)
(* (main.c) and to WidgetEventHandler (widget.c), which calls the handlers *)
(* of the widgets.                                                         *)
(*                                                                         *)
(* There is one Event, one Mouse, one TopWidget, one FocusedWidget and one *)
(* drag for all of the program, and a widget's handler may open a dialog   *)
(* and poll until it is answered.  The nested polls write all of these     *)
(* while the outer WidgetEventHandler is half way through: it reads them   *)
(* again after each handler.  A frame of the stack is one PollEvents that  *)
(* has not returned.                                                       *)
(*                                                                         *)
(* A widget stands for a window with its controls; the left button stands  *)
(* for the three.  Keys and changes of the button are numbered, so that    *)
(* "got" can count how often each reached a handler.                       *)
(***************************************************************************)
EXTENDS WidgetNames, Naturals, Sequences, FiniteSets, SequencesExt

CONSTANTS
  MaxKeys, MaxClicks, MaxTurns, \* bounds: what the user does
  MaxDepth,      \* bound: polls within polls
  Together,      \* boundary: the mouse changes and a key arrives before one poll
  PollUnhandled, \* boundary: a handler that polled for an answer may return FALSE
  BusyHover,     \* boundary: handlers of hovering and of focus dispose of widgets
  CloseInDrag,   \* boundary: widgets are disposed of while something is dragged
  DropPolls      \* boundary: DropData polls for events

ASSUME BoundsAssumption == {MaxKeys, MaxClicks, MaxTurns, MaxDepth} \subseteq Nat
ASSUME BoundariesAssumption ==
  {Together, PollUnhandled, BusyHover, CloseInDrag, DropPolls} \subseteq BOOLEAN

VARIABLES
  device,        \* the hardware: pointer, button, wheel and the key buffer
  Event,         \* the one TEvent
  Mouse,         \* what MouseEventGenerator keeps: Moved, ButtonChanges, State.b
  TopWidget, FocusedWidget, MasterWidget,
  drag,          \* WWF_DRAGING and DragCaller
  live,          \* the widgets not yet disposed of
  stack,         \* the polls under way, the innermost last
  got            \* history: how often each input was handed to a handler

vars == <<device, Event, Mouse, TopWidget, FocusedWidget, MasterWidget, drag, live, stack, got>>
widgets == <<TopWidget, FocusedWidget, MasterWidget, drag, live>>

Inputs == ({"key"} \X (1..MaxKeys)) \cup ({"click"} \X (1..MaxClicks))

\* The left button is down after an odd number of changes.
Down(n) == n % 2 = 1
Released == Mouse.changes /\ ~Mouse.b
Pressed == Mouse.changes /\ Mouse.b

Counted(i) == got' = [got EXCEPT ![i] = Min({2, @ + 1})]
-----------------------------------------------------------------------------
(***************************************************************************)
(* The hardware, at any time.                                              *)
(***************************************************************************)
MousePending == device.moved \/ device.clicks # device.old \/ device.wheel

MouseMay == Together \/ device.keys = << >>

Move ==
  /\ MouseMay
  /\ \E w \in live : device' = [device EXCEPT !.under = w, !.moved = TRUE]
  /\ UNCHANGED <<Event, Mouse, widgets, stack, got>>

PushButton ==
  /\ MouseMay /\ device.clicks < MaxClicks
  /\ device' = [device EXCEPT !.clicks = @ + 1]
  /\ UNCHANGED <<Event, Mouse, widgets, stack, got>>

Turn ==
  /\ MouseMay /\ device.turns < MaxTurns
  /\ device' = [device EXCEPT !.turns = @ + 1, !.wheel = TRUE]
  /\ UNCHANGED <<Event, Mouse, widgets, stack, got>>

Press ==
  /\ Together \/ ~MousePending
  /\ device.typed < MaxKeys
  /\ device' = [device EXCEPT !.typed = @ + 1, !.keys = Append(@, device.typed + 1)]
  /\ UNCHANGED <<Event, Mouse, widgets, stack, got>>
-----------------------------------------------------------------------------
(***************************************************************************)
(* GenerateEvent.                                                          *)
(***************************************************************************)

\* MouseEventGenerator, for the button's changes as given.
Reading(changes) ==
  [moved |-> device.moved, changes |-> changes, b |-> Down(device.clicks), click |-> device.clicks]

Read == Reading(Down(device.clicks) # Down(device.old))

\* What the generators leave: nothing is pending but the keys after the first.
Remaining(old, keys) ==
  [device EXCEPT !.moved = FALSE, !.old = old, !.wheel = FALSE, !.keys = keys]

LaterKeys == IF device.keys = << >> THEN << >> ELSE Tail(device.keys)

ReadDevice == Remaining(device.clicks, LaterKeys)

(***************************************************************************)
(* "ev" is not initialised: if no turn of the wheel sets its Message, it   *)
(* is what the stack holds, which the last turn may have left there.       *)
(***************************************************************************)
Messages == IF device.wheel THEN {TRUE} ELSE {FALSE, Event.message}

Types == (IF Read.moved \/ Read.changes \/ device.wheel THEN {"mouse"} ELSE {})
         \cup (IF device.keys = << >> THEN {} ELSE {"key"})

(***************************************************************************)
(* The stages of one poll, in their order: the system handler, then        *)
(* WidgetEventHandler's sends, then its keyboard branch.                   *)
(***************************************************************************)
Stage == <<"system", "begin", "left", "enter", "message", "move", "focus", "select", "down", "up",
           "drop", "afterdrop", "key">>
At == [s \in ToSet(Stage) |-> CHOOSE i \in DOMAIN Stage : Stage[i] = s]

(***************************************************************************)
(* One PollEvents: "at" is the stage it has come to, "busy" whether the    *)
(* handler of that stage is running, on "target", and "polled" whether it  *)
(* has polled.  WidgetEventHandler's own variables are the branch it took, *)
(* OldTopWidget, and whether it differs from the new one.                  *)
(***************************************************************************)
Frame == [at |-> 1, busy |-> FALSE, polled |-> FALSE, mouse |-> FALSE, drag |-> FALSE,
          crossed |-> FALSE, old |-> NULL, target |-> NULL]

Top == Last(stack)
Here(f) == stack' = [stack EXCEPT ![Len(stack)] = f]
InStage(s) == stack # << >> /\ Stage[Top.at] = s
Polled == IF stack = << >> THEN << >>
          ELSE [stack EXCEPT ![Len(stack)].polled = TRUE]

\* May the handler that runs poll?
MayPoll == \/ Stage[Top.at] \in {"down", "up", "key"}
           \/ Stage[Top.at] = "drop" /\ DropPolls

\* PollEvents: of the main loop, or of a handler that waits.
PollEvents ==
  /\ stack # << >> => Top.busy /\ MayPoll
  /\ Len(stack) < MaxDepth
  /\ \E m \in Messages :
       Event' = [type |-> Types, message |-> m,
                 key |-> IF device.keys = << >> THEN Event.key ELSE Head(device.keys)]
  /\ Mouse' = Read
  /\ device' = ReadDevice
  /\ stack' = IF Types = {} THEN Polled ELSE Append(Polled, Frame)
  /\ UNCHANGED <<widgets, got>>
-----------------------------------------------------------------------------
(***************************************************************************)
(* HandleEvent.                                                            *)
(***************************************************************************)

\* Mutant of SystemKey: the event is not cleared and goes on to the widgets.
SystemKeyGoesOn ==
  /\ InStage("system") /\ "key" \in Event.type
  /\ Counted(<<"key", Event.key>>)
  /\ Here([Top EXCEPT !.at = At["begin"]])
  /\ UNCHANGED <<device, Event, Mouse, widgets>>

\* _SystemEventHandler takes one of its keys and clears the event.
SystemKey ==
  /\ InStage("system") /\ "key" \in Event.type
  /\ Counted(<<"key", Event.key>>)
  /\ Event' = [Event EXCEPT !.type = {}]
  /\ stack' = Front(stack)
  /\ UNCHANGED <<device, Mouse, widgets>>

\* WidgetEventHandler begins: which widget is the mouse on?
WidgetEventHandler ==
  /\ InStage("system")
  /\ LET mouse == Event.type = {"mouse"}
         on    == IF MasterWidget # NULL THEN MasterWidget ELSE device.under
     IN /\ TopWidget' = IF mouse THEN on ELSE TopWidget
        /\ Here([Top EXCEPT !.at = At["begin"], !.mouse = mouse, !.drag = drag.on,
                            !.crossed = mouse /\ TopWidget # on, !.old = TopWidget])
  /\ UNCHANGED <<device, Event, Mouse, FocusedWidget, MasterWidget, drag, live, got>>

Clicks(f) == f.mouse /\ ~f.drag /\ Mouse.changes

\* Between "select" and "down" a click without TopWidget ends the poll.
NoTop(f) == Clicks(f) /\ TopWidget = NULL /\ f.at < At["down"]

\* Mutant of KeyDue: the keyboard branch is an "else" of the drag.
KeyDueUndragged(f) == Event.type = {"key"} /\ FocusedWidget # NULL /\ ~NoTop(f) /\ ~drag.on

KeyDue(f) == Event.type = {"key"} /\ FocusedWidget # NULL /\ ~NoTop(f)

(***************************************************************************)
(* Whether f still has to come to stage s, by what the globals hold now.   *)
(***************************************************************************)
Due(f, s) ==
  CASE s \in {"system", "begin"} -> FALSE
    [] s = "left"      -> f.mouse /\ f.crossed /\ f.old # NULL
    [] s = "enter"     -> f.mouse /\ f.crossed
    [] s = "message"   -> f.mouse /\ ~f.drag /\ Event.message
    [] s = "move"      -> f.mouse /\ Mouse.moved /\ ~(f.drag /\ f.crossed)
    [] s = "focus"     -> Clicks(f) /\ Pressed
    [] s = "select"    -> Clicks(f) /\ Pressed
    [] s = "down"      -> Clicks(f) /\ Pressed /\ ~NoTop(f)
    [] s = "up"        -> Clicks(f) /\ Released /\ ~NoTop(f)
    [] s = "drop"      -> f.mouse /\ f.drag /\ Released
    [] s = "afterdrop" -> Stage[f.at] = "drop" /\ f.target # NULL
    [] s = "key"       -> KeyDue(f)

Ahead(f) == {i \in DOMAIN Stage : i > f.at /\ Due(f, Stage[i])}
NextStage(f) == LET s == Ahead(f) IN IF s = {} THEN "return" ELSE Stage[Min(s)]

\* The innermost poll runs no handler, and its next stage is s.
Comes(s) == stack # << >> /\ ~Top.busy /\ ~InStage("system") /\ NextStage(Top) = s

\* The widgets a stage dereferences.
Used(f, s) ==
  CASE s = "left" -> {f.old}
    [] s = "key"  -> {FocusedWidget}
    [] s = "drop" -> {TopWidget, drag.caller}
    [] s = "afterdrop" -> {drag.caller}
    [] s = "return" -> {}
    [] OTHER      -> {TopWidget}

Input(s) ==
  CASE s = "key" -> <<"key", Event.key>>
    [] s \in {"down", "up"} -> <<"click", Mouse.click>>

\* WidgetSendSEvent: the handler of the widget starts.  A second click in short time sends
\* WEvMouseLDClk first and WEvMouseLDown only if that is refused: one "down" here.
Send(s) ==
  /\ Comes(s) /\ Used(Top, s) \subseteq live
  /\ LET t == CHOOSE w \in Used(Top, s) : TRUE
     IN /\ Here([Top EXCEPT !.at = At[s], !.busy = TRUE, !.polled = FALSE, !.target = t])
        /\ MasterWidget' = IF s = "up" /\ t = MasterWidget THEN NULL ELSE MasterWidget
  /\ IF s \in {"key", "down", "up"} THEN Counted(Input(s)) ELSE UNCHANGED got
  /\ UNCHANGED <<device, Event, Mouse, TopWidget, FocusedWidget, drag, live>>

Sends == {"left", "enter", "message", "move", "down", "up", "key"}

SendAny == stack # << >> /\ ~Top.busy /\ \E s \in Sends \cap {NextStage(Top)} : Send(s)

\* PollEvents returns.
Return ==
  /\ Comes("return")
  /\ stack' = Front(stack)
  /\ UNCHANGED <<device, Event, Mouse, widgets, got>>
-----------------------------------------------------------------------------
(***************************************************************************)
(* What the handlers do.                                                   *)
(***************************************************************************)

Without(x, w) == IF x = w THEN NULL ELSE x

\* Mutant of DisposeOf: TopWidget keeps its value.
DisposeKeepsTop(w, focused) ==
  /\ live' = live \ {w}
  /\ MasterWidget' = Without(MasterWidget, w)
  /\ FocusedWidget' = Without(focused, w)
  /\ device' = [device EXCEPT !.under = IF @ = w THEN DeskTop ELSE @]
  /\ UNCHANGED <<TopWidget, drag>>

(***************************************************************************)
(* WidgetDisposeEx(w), while "focused" has the focus: no global pointer is *)
(* left to it, but for DragCaller.                                         *)
(***************************************************************************)
DisposeOf(w, focused) ==
  /\ live' = live \ {w}
  /\ TopWidget' = Without(TopWidget, w)
  /\ MasterWidget' = Without(MasterWidget, w)
  /\ FocusedWidget' = Without(focused, w)
  /\ device' = [device EXCEPT !.under = IF @ = w THEN DeskTop ELSE @]
  /\ UNCHANGED drag

\* The widgets a handler may dispose of: the desktop stays.
Disposable == IF drag.on /\ ~CloseInDrag THEN {} ELSE live \ {DeskTop}

Clicked == {"down", "up", "key"}
Hovered == {"left", "enter", "message", "move"}

\* The handler of Top returns r.
Back(r) ==
  /\ stack # << >> /\ Top.busy
  /\ Top.polled /\ ~PollUnhandled => r
  /\ IF r /\ Stage[Top.at] \in {"down", "up"} THEN stack' = Front(stack)
     ELSE Here([Top EXCEPT !.busy = FALSE])
  /\ UNCHANGED <<Event, Mouse, got>>

\* A widget that has gone cannot be asked for its parent: its handlers say TRUE.
HandlerReturns ==
  \E r \in BOOLEAN :
    /\ Back(r)
    /\ Top.target \notin live => r
    /\ UNCHANGED <<device, widgets>>

\* A menu, a new window: it takes the focus (WidgetSetFocusEx).
HandlerFocuses ==
  /\ Back(TRUE)
  /\ Stage[Top.at] \in Clicked
  /\ \E w \in live : FocusedWidget' = w
  /\ UNCHANGED <<device, TopWidget, MasterWidget, drag, live>>

HandlerDisposes ==
  \E r \in BOOLEAN, w \in Disposable :
    /\ Back(r)
    /\ Stage[Top.at] \in Clicked \cup (IF BusyHover THEN Hovered ELSE {})
    /\ Top.target \notin live \ {w} => r
    /\ DisposeOf(w, FocusedWidget)

(***************************************************************************)
(* A scroll bar, a slider, a window's frame: it gets the mouse until LUp.  *)
(* The views that start a drag when the mouse moves do not do this.        *)
(***************************************************************************)
HandlerGrabs ==
  /\ Back(TRUE)
  /\ InStage("down") /\ ~Top.polled /\ ~drag.on
  /\ MasterWidget' = Top.target
  /\ UNCHANGED <<device, TopWidget, FocusedWidget, drag, live>>

\* DragStart, by a handler of WEvMouseMove.
DragStart ==
  /\ Back(TRUE)
  /\ InStage("move") /\ Mouse.b
  /\ drag' = [on |-> TRUE, caller |-> Top.target]
  /\ MasterWidget' = NULL
  /\ UNCHANGED <<device, TopWidget, FocusedWidget, live>>

\* WidgetSetFocus(TopWidget): a menu that loses the focus goes.
WidgetSetFocus ==
  /\ Comes("focus") /\ TopWidget \in live
  /\ Here([Top EXCEPT !.at = At["focus"]])
  /\ LET others == IF BusyHover THEN live ELSE {FocusedWidget} \ {TopWidget}
         gone   == IF FocusedWidget = TopWidget THEN {} ELSE others \cap Disposable
     IN \/ /\ FocusedWidget' = TopWidget
           /\ UNCHANGED <<device, TopWidget, MasterWidget, drag, live>>
        \/ \E w \in gone :
             /\ DisposeOf(w, TopWidget)
  /\ UNCHANGED <<Event, Mouse, got>>

\* WidgetSelect(TopWidget): windows raise themselves.
WidgetSelect ==
  /\ Comes("select") /\ TopWidget \in live
  /\ Here([Top EXCEPT !.at = At["select"]])
  /\ UNCHANGED <<device, Event, Mouse, widgets, got>>
-----------------------------------------------------------------------------
(***************************************************************************)
(* The end of a drag.                                                      *)
(***************************************************************************)
\* Mutant of DragStop: the drag goes on.
DragStopNot == drag

DragStop == [on |-> FALSE, caller |-> NULL]

\* The widget does not take the data, or the caller does not give it.
DragCancel ==
  /\ Comes("drop") /\ Used(Top, "drop") \subseteq live
  /\ Here([Top EXCEPT !.at = At["drop"], !.target = NULL])
  /\ drag' = DragStop
  /\ UNCHANGED <<device, Event, Mouse, TopWidget, FocusedWidget, MasterWidget, live, got>>

\* DropData starts; it ends as other handlers do (HandlerReturns).
DropData ==
  /\ Comes("drop") /\ Used(Top, "drop") \subseteq live
  /\ Here([Top EXCEPT !.at = At["drop"], !.busy = TRUE, !.polled = FALSE, !.target = TopWidget])
  /\ UNCHANGED <<device, Event, Mouse, widgets, got>>

DragAfterDrop ==
  /\ Comes("afterdrop") /\ drag.caller \in live
  /\ Here([Top EXCEPT !.at = At["afterdrop"]])
  /\ drag' = DragStop
  /\ UNCHANGED <<device, Event, Mouse, TopWidget, FocusedWidget, MasterWidget, live, got>>
-----------------------------------------------------------------------------
Init ==
  /\ device = [under |-> DeskTop, moved |-> FALSE, clicks |-> 0, old |-> 0, turns |-> 0, wheel |-> FALSE,
               typed |-> 0, keys |-> << >>]
  /\ Event = [type |-> {}, message |-> FALSE, key |-> 0]
  /\ Mouse = [moved |-> FALSE, changes |-> FALSE, b |-> FALSE, click |-> 0]
  /\ TopWidget = NULL /\ MasterWidget = NULL
  /\ FocusedWidget \in Widgets \cup {NULL}
  /\ drag = [on |-> FALSE, caller |-> NULL]
  /\ live = Widgets
  /\ stack = << >>
  /\ got = [i \in Inputs |-> 0]

User == Move \/ PushButton \/ Turn \/ Press

Handlers == HandlerReturns \/ HandlerFocuses \/ HandlerDisposes \/ HandlerGrabs \/ DragStart

Program ==
  \/ PollEvents \/ SystemKey \/ WidgetEventHandler \/ SendAny \/ Return
  \/ Handlers \/ WidgetSetFocus \/ WidgetSelect
  \/ DragCancel \/ DropData \/ DragAfterDrop

Next == User \/ Program

Spec == Init /\ [][Next]_vars

\* The main loop polls for ever, and handlers come to an end.
FairSpec == Spec /\ WF_vars(Program)
-----------------------------------------------------------------------------
\* Types: the global pointers, none of them left to a widget that is gone, and the polls.
TypeOK ==
  /\ Event.type \subseteq {"mouse", "key"} /\ Event.message \in BOOLEAN /\ Event.key \in 0..MaxKeys
  /\ {TopWidget, FocusedWidget, MasterWidget} \subseteq live \cup {NULL}
  /\ drag.caller \in Widgets \cup {NULL}
  /\ drag.on \in BOOLEAN /\ DeskTop \in live /\ live \subseteq Widgets
  /\ Len(stack) <= MaxDepth
  /\ \A i \in DOMAIN stack : stack[i].at \in DOMAIN Stage /\ (i < Len(stack) => stack[i].busy)
  /\ got \in [Inputs -> 0..2]

(***************************************************************************)
(* Each key and each change of the button is handed to a handler at most   *)
(* once, though WidgetEventHandler reads Event and Mouse again after       *)
(* handlers that polled (widget.c:1238-1351).                              *)
(***************************************************************************)
InputOnce == \A i \in Inputs : got[i] <= 1

(***************************************************************************)
(* WidgetEventHandler never hands an event to a widget that is gone, or to *)
(* none: what the handlers before disposed of is no longer pointed to.     *)
(***************************************************************************)
UsesLive ==
  stack # << >> /\ ~Top.busy /\ ~InStage("system") => Used(Top, NextStage(Top)) \subseteq live

(***************************************************************************)
(* A widget keeps the mouse to itself no longer than the button is down:   *)
(* between two polls of the main loop a MasterWidget means a pressed       *)
(* button, or nothing else would ever get the mouse again.                 *)
(***************************************************************************)
GrabEnds == stack = << >> /\ MasterWidget # NULL => Mouse.b

\* The same of a drag: it ends when the button is let go.
DragEnds == stack = << >> /\ drag.on => Mouse.b

(***************************************************************************)
(* A key that is pressed reaches a handler, if some widget keeps the       *)
(* focus, however deep the dialog it was meant for.                        *)
(***************************************************************************)
KeyArrives ==
  \A k \in 1..MaxKeys :
    k \in ToSet(device.keys) ~> got[<<"key", k>>] > 0 \/ FocusedWidget = NULL

\* What the widgets keep from one event to the next ends with the button's release.
ReleaseEndsAll == TypeOK /\ GrabEnds /\ DragEnds
=============================================================================
