# Aura/Ozone kernel: TLA+ models, checks and proofs

The repository is a graphical shell for DOS: a small kernel (`src/src/*.c`),
libraries of widgets (`src/src/xlib`), applications (`src/src/xapps`) and a form
designer (`src/src/illkirch`). This directory specifies the parts of it that
keep state everybody else relies on - lists, loader, registry, events, timers,
tasks, the widgets and what they leave on the screen, text boxes, files in
memory - checks them with TLC, and proves them correct for every instance
with TLAPS. Source paths below are relative to `src/`.

## 1. The system

### One stack, and SysPoll on it

Threads are switched off in the source ("Due to unknown threading bugs, this
section is unactivated"). What is left is one C stack and one macro:

    SysPoll()  =  PollEvents(); TimersPoll(); PollTasks()      (include/kernel.h:43)

The main loop calls it (`src/main.c:325-332`), and so does code far down the
stack: a dialog (`WidgetExecute`, `src/xlib/widget.c:1474`), a tooltip on show
(`widget.c:1650`, inside a timer), a console program that waits for a key
(`GetKey`, `src/xlib/conlib.c:219`) and `ThreadTimerWait` (`src/timer.c:60`).
Whatever a poll can reach - a handler, a timer, a task, the loading, closing and
freeing of programs - can therefore run in the middle of whatever polls. These
nested polls are the concurrency of this system. One further jump crosses them:
`BreakApp` ends in a `longjmp` to the main loop.

### Components

| Component | State | Operations | What makes it correct |
|---|---|---|---|
| Lists `include/list.h`, `src/list.c` | `Last` and the `Next`/`Prev` links of the items, a ring | add, insert before, remove, drop, lookup, sort, free | the links always represent one sequence, in both directions; freeing reads no freed item; sorting loses nothing |
| Dynamic loader `src/dynld.c` | `Applications`, `Symbols`, `AppExtenders`; per application its state, use count, host, libraries | load and run, close, break, free (the task `DynLdTCP`), shut down | linked code is loaded code; no call returns into freed code; what is closed gets freed; libraries close last |
| Main loop `src/main.c` | `GSExit`, the `setjmp` point | boot, poll, quit, shut down | MSG_QUIT ends the system |
| Registry `src/registry.c` | a tree of typed keys, and its file | resolve, create, set, get, rename, delete, save, load | the links stay a tree; what is set is what is read; what is loaded is what was saved |
| Events `src/events.c` with `mouse.c`, `keyboard.c` | one global `Event`, the device state, `TopWidget`, `FocusedWidget`, `MasterWidget`, a drag | generate, handle, deliver | each change of a device reaches one handler once, and never a widget that is gone |
| Timers `src/timer.c`, tasks `src/tasks.c` | the ring of timers, the chain of tasks | walk, install, kill | nothing killed is called, nothing is skipped for ever |
| Widget tree `src/xlib/widget.c` | rings of children, selection, popups | insert, raise, select, dispose; dispose of all an application owns | rings stay rings; the selected window is on top; an application leaves no widget behind |
| Screen: `widget.c`, `tabbook.c`, `spliter.c`, `src/metrics.c` | stored coordinates, visibility, the pixels; lists of rectangles | move, resize, raise, show, remove, and the partial repaints | the repaints add up to what a full repaint would give |
| Text boxes `src/xlib/textbox.c` | the text and pointers into it, clipboard, drag | keys, mouse, cut, copy, paste, drop | the pointers stay in the text; no letter is lost or doubled |
| Files in memory `src/xlib/memfile.c` | a growing buffer, size, position | read, write, seek, close, reopen | the bytes written are the bytes read |
| Consoles `src/xlib/conlib.c`, `src/xapps/console.c` | key buffer, hosted programs | wait for a key, run a program, close | a console's end takes its programs along |

`PROJECT.json` lists every component with its status, and under "hazards" each
place where the code is hard to test, with the properties that watch it or the
reason none does.

How they interact: the loader keeps its applications and symbols in lists and
reads library paths and the boot entries from the registry; its sweep is a task;
the widget library disposes of a program's windows through an application
extender; the events of the window system call `CloseApp` and `BreakApp`; a
console hosts programs through the loader's `Host` field; widgets clip with lists
of rectangles; text boxes own timers and receive drags from the event system.

## 2. The modules

| Module | Models | Role |
|---|---|---|
| `ItemList` | what a list promises | abstract: a sequence of distinct items |
| `Ring`, `ListLookup` | `list.h`, `list.c`, the drop in `listview.c` | the linked representation; its lookups and the refinement of `ItemList` |
| `ListOrder` | the exchange sorts of `list.c` | one call, on places |
| `RingOrder` | | composes `ListLookup` and `ListOrder`: the sort on a ring that other operations made |
| `DynLd` | `dynld.c`, the loop of `main.c`, `WidgetExecute`, `conlib.c`/`console.c`/`xsystem.c` as far as they call the loader | the loader on a stack of nested polls |
| `Registry` | `registry.c` | the tree and its file |
| `Events` | `events.c`, `mouse.c`, `keyboard.c`, `WidgetEventHandler` | input on a stack of nested polls |
| `Polling` | | what both walks of `SysPoll` have: a bound on nesting |
| `Timers` | `timer.c` and its users | the walk under callbacks |
| `TaskOrder`, `Tasks` | `tasks.c` | abstract: an `ItemList` that is extended at its end only; the pointers, and the walk within the walk |
| `Rects`, `RectList` | `metrics.c` | rectangles; the lists of them, walked while they change |
| `Screen` | geometry and painting in `widget.c`, `tabbook.c`, `spliter.c` | what the partial repaints leave on the screen |
| `Widgets` | rings, selection and disposal in `widget.c`, `menu.c` | the tree, and the walk that ends an application |
| `TextBox` | `textbox.c` | text, pointers, clipboard, drag |
| `ByteFile`, `MemFile` | `memfile.c` | abstract file; the buffer |
| `WidgetNames` | | what `Events` and `Screen` both call the widgets |
| `RingProofs`, `DynLdProofs`, `PollingProofs`, `WidgetsProofs`, `TextBoxProofs` | | theorems |
| `DesktopProofs` | | theorems about `Events` and `Screen` |
| `DataProofs` | | theorems about `MemFile`, `Rects`, `RectList` and `Registry` |
| `Links` | | lemmas: induction over numbers as a fact about a set, walks along a link, and the rings of the children of a node under insertion and removal |
| `MC*` | | small instances |

Definitions keep the names of the functions they translate; `PROJECT.json` maps
each to its lines. An operator whose name says what is wrong with it
(`UnlinkKeepsLast`, `NewKeyExOneWay`) is a plausible mistake in the definition
below it, kept so that every property can be seen to fail for a reason.

A CONSTANT marked "bound" limits a count so that TLC ends. One marked "boundary"
names a case the code reaches in which it does something else than the
properties say; the runs exclude it, and section 5 tells what happens in it.

Some runs hold two models that share no variable (the timers and the tasks, the
screen and the lists of rectangles, the box of several lines and the pair of
boxes). There a variable `subject`, chosen at the start, says which one a
behaviour is about, and the other stays as it began: one check, not a product.

### Lists: `ItemList`, `Ring`, `ListLookup`, `ListOrder`, `RingOrder`

A list header has one pointer, `Last`. `Next` and `Prev` are functions from items
to items, kept when an item leaves, as the code keeps them. `LinkLast`,
`LinkBefore` and `Unlink` are the assignments of `BListAddItem`,
`ListAddItemBefore` and `BListRemoveItemEx` in their order; `DropBehind` is the
list view's reordering, which sets `Last` to an item that is not linked at that
moment and relies on `ListAddItemBefore` to repair it. `FreeList` is two actions,
because it interleaves reading links with freeing. The history variable `order`
follows the callers' belief by the operators of `ItemList`; without it no
invariant could say what the links ought to represent.

The sorts exchange what items hold and leave the links alone. `ListOrder` is one
call on places 1..n: comparators that answer 0 or 1 to equals (`ties`: views by
size answer 1, those by name 0) and that do not rank everything. `RingOrder` runs
it on a ring: `Loops` are the two `do ... while` loops over the links, and
`AtPlaces` says that they are where `ListOrder` counts.

Preconditions the code leaves to its callers are guards: an item added is in no
list, an item removed is in this one, a list that is sorted is not empty. The
sorts copy whatever lies behind the first 8 bytes of an item, which are `Next` and
`Prev` where pointers have 32 bits, as on the machine this shell is for.

### Loader: `DynLd`

`stack` is the C stack, reduced to the activations that can be interrupted: a
`load` (in the library loop of `DynLdRunEx`), a `main` (a program's `Main`), a
`handler` (of a program's window, called by a poll), a `dialog` (a handler that
waits in `WidgetExecute`) and a `tcp` (the sweep, which steps item by item). Only
the last one runs. What the user does reaches the programs exactly when the top of
the stack is a poll (`Polling`): the kernel starts a program, kills one, closes a
console or quits, or it calls a handler, which may open dialogs, start programs one
after the other, and close its own window. Whoever starts a program is returned
into: the handler of nav, of run or of the batch editor stays below the `Main` of a
console it has started, for as long as that polls. The calls between a handler and
the load it waits for (`FileRun` and `RunFile2` of fms2, say) are in libraries, which
stay as long as their users (`ImportsLive`), and have no activation of their own.
`Returns` passes a result to the activation below; `LongJmp` discards them all.

`app` gives the `TApplication` at each address; a freed address may be used
again. `users` is `App->Users`; `close` says whether `App->Close` is still to be
called; `bound` are the libraries the imports were resolved to, a history of
`ResolveSymbol` that the code keeps only as patched machine code. A symbol has a
`home` (the library its address points into) and an `owner` (`Symbol->App`); the
two differ for `SYSEXPORT`. `FreeHostedApp` includes the walk's own end, which
leaves out the item before a hosted last one.

| Step of the code | Action |
|---|---|
| AUTOLIB and STARTUP entries | `Boot`, `BootEnds` |
| `LoadLibraries` in `DynLdRunEx` | `LoadNextLibrary`, `LibraryNotRun`, `LibraryLoaded`, `LibraryMissing` |
| link, list and call `Main` | `NotStarted`, `Starts` |
| `Main` returned | `MainTrue`, `MainFalse` |
| an event for a program's window | `HandleEvent`, `HandlerReturns` |
| Alt-F, a file chosen in nav, run's OK; the console's command loop | `Run`; `RunHosted` |
| `WidgetExecute` | `OpenDialog`, `AnswerDialog` |
| `WM_CLOSE` | `CloseWindow` (`CloseApp` of the handler's own program), `CloseConsoleWindow` (`BreakApp`) |
| xSystem's Kill | `Kill` |
| `DynLdTCP` | `TcpStart`, `TcpItem` |
| MSG_QUIT and the end of `main` | `Quit`, `LeaveLoop`, `ShutDownClose`, `ShutDownFree` |

A round of the sweep reads `App->State` once more after the program is freed
(`src/dynld.c:680`); `TcpItem` takes it that `free` leaves that byte as it was.
`Kill` is aimed at programs; killing a library pulls code from under its users.
During boot and shutdown nothing fails to load; consoles in STARTUP would poll
before `setjmp` and are left out. `CloseApp` removes the symbols in one step; the
walk's own ending is not followed.

### Registry: `Registry`

`reg` gives the `TRegKey` at each address with its four links; a path is a
sequence of names. `Kids` is the order in which every loop of `registry.c` visits
the children: from `Last` along `Next`. `Child` has the comparison that does not
mind the case for every component but the last (`TextSqNCaseCompare` against
`TextCompare`), so "/A/x" and "/a/x" meet below one key while "/A" and "/a" are
two. `RDSizes` is the table as it stands, `RKT` its index, `Width` the size of the
C type the accessors use. `Written` numbers the keys as `GenerateTmpId` does, in
visiting order, and `Loaded` turns the numbers into addresses in one array.

A path is never empty and always long enough to be split by the code; links
(`RKT_LINK`) are set by no caller and are left out. A save is atomic, `malloc`
succeeds (`Room`), and `PowerOff` loses what was not saved. The default registry
(`Default`) is one path in the runs instead of well over a hundred, and any list of paths
that fits in memory in the proofs. `NRegistryInit` makes it without a file, and also beside one,
for a new setup (`KERNEL_RESETUP`).

### Events: `Events`

A frame of `stack` is one `PollEvents` that has not returned; `Stage` is the order
in which a poll comes to the system handler, the sends of `WidgetEventHandler`
(the widget that is left, the one that is entered, the message, the move, focus and
selection, button down and up, the drop) and its keyboard branch. Everything else -
`Event`, `Mouse`, `TopWidget`, `FocusedWidget`, `MasterWidget`, the drag - exists
once and is read again after each handler, which may have polled (`PollEvents`
with a frame below), disposed of a widget, grabbed the mouse or begun a drag.
`Due` says by those globals whether a frame still has to come to a stage. The
hardware acts at any time. A widget stands for a window with its controls, the left
button for the three; keys and clicks are numbered so that `got` can count.

The lists of event generators and of handlers are those `main.c` installs; nothing
in the tree changes them later.

### Timers and tasks: `Polling`, `Timers`, `TaskOrder`, `Tasks`

`TimersPoll` is followed step by step: `Call` reads `n = a->Next` before the
callback, `Return` goes on with it and tests the end against the `Last` of that
moment. While a callback runs (`busy`), widgets and programs make and kill timers,
and the tooltip's callback polls, which puts another walk on `stack`. Time is the
set of timers that are due. `owed` is history: what was due when the walk began and
has not been called.

`Tasks` has the pointers of `tasks.c` one by one - `TaskList`, `LastTask`, `Next`,
`Prev` - and walks within walks. `TaskOrder` is the sequence of installed tasks, and
`OrderSpec` says that the pointers implement it. A task reads `p->Next` after its
call, so a task removed while it runs is a boundary.

### Screen: `Rects`, `RectList`, `Screen`

`Rects` translates the operators of `metrics.c` as they are: `RectIntersept` of
two rectangles without a common part is not empty. `RectList` follows
`RemoveZoneInList` and `AddZoneInList` item by item, as they append pieces to the
list they walk; `zone` is history, the pixels the list ought to cover.

`Screen` has the widgets' stored coordinates (`pos`) and the pixels. An operation
changes one widget and paints what it believes to have changed; nothing ever paints
the whole screen. A paint clips the widget against those in front of it (`Cache`),
where lists of rectangles are the sets of pixels `RectList` shows them to be. Windows
move, resize, rise, go and come; `TabBookSelectTab` switches pages; `Stuck` is what
the spliter and the resize flags do to children.

### Tree of widgets: `Widgets`

`s` holds the rings (`Last` is the lowest child, `Last->Next` the highest), the
selection and the chain of popups. `InsertFirst`, `RemoveWidgetEx` and `SetFirstEx`
are the assignments of the code. `_DisposeAllAppWidgets` is a stack of frames
(`walk`), one per level, each of which has read `n` before it disposes of `a`.

### Text boxes: `TextBox`

A position is an offset, and `Stale` a pointer into the text before its last
reallocation. Keys, mouse, clipboard, drags and the program's own `SetText` come in
any order; the mouse also reaches a box with a button that was pressed elsewhere (`Reaches`).
`Scroll` is the scroll bars and the wheel (`src/src/xlib/scrllbar.c`): any place within their
ranges. It leaves the caret where it is, and the next key has to bring it back into sight
(`CaretInSight`). Each letter is 1 by 1, lines are 2 apart.

Left out: a drop and a paste do not ask for `TBF_EDITABLE`, `KEY_END` goes to the
start like `KEY_HOME`, a paste does not measure the text anew (the model measures
at the next letter, as the code does), `TextBoxTimer` locates the caret with `Text-1`
on a box without focus, and password boxes.

### Files in memory: `ByteFile`, `MemFile`

`ByteFile` is a file as a disk has it: contents and a position, and what the program
has kept of it, which is what is opened the next time. `MemFile` adds the buffer that
grows in steps (1024 in the code), what `realloc` leaves unset, and the binary data a
closed file becomes. Positions before the start are left out: the code takes them for
huge ones. `malloc` succeeds.

## 3. What is checked

| Run | Bounds | Shows |
|---|---|---|
| `ring` | 3 items, contents of two ranks, ties and unranked | the ring implements `ItemList` seen through its lookups; `FreeList` frees everything once and reads nothing freed; the sort goes over the ring as it counts, sorts and loses nothing; all loops end |
| `dynld` | 5 addresses, 4 programs, depth 5 | six invariants of the loader under all nestings |
| `dynld_live` | 3 addresses, depth 3, `AnsweredSpec` | closed applications are freed, MSG_QUIT halts the system |
| `conlib_symbols` | 4 addresses, conlib on demand | finding 1 |
| `registry` | 4 keys, names `a` and `A`, paths up to 2; with values, or any shape saved | tree, set/get, isolation of other paths, save/load |
| `registry_big` | 3 keys, 64-bit values | finding 2 |
| `screen` | 4 by 3 pixels, 6 widgets; lists of up to 3 rectangles on 3 by 2 pixels | partial repaints equal full ones; the mouse hits what is drawn; lists are exact |
| `events` | 2 widgets, 1 key, 2 changes of the button, 1 turn of the wheel, depth 2 | input is delivered once, to live widgets; keys arrive; the release ends grabs and drags |
| `polls` | 4 timers, 2 kills, 1 program; 3 tasks; depth 2 | walks call live code only, and everything that is due; tasks run once |
| `widgets` | 9 widgets of 4 owners | rings, selection, popups; an application ends whole |
| `textbox` | texts of up to 4 letters in one box, of 2 in two boxes | pointers in the text; the clipboard and drags move what is selected |
| `memfile` | files of up to 3 bytes, steps of 2 | a file in memory is a file |

Why the bounds are enough. A list operation touches at most an item, its two
neighbours and `Last`; three items make the first, the last and an inner one differ,
and the proofs do away with the bound. Five addresses hold a permanent library, one
on demand, its user, a console and the console's program at once, which is every
relation the loader has; depth 5 allows a load inside a load inside a console inside
a dialog. `MaxUsers` stops only the growth that failed loads cause. Four keys allow a
key with three children and a chain of three below the root; two levels suffice
because each step of a path looks at one ring. `Room` keeps as many keys free as the path is long,
so that no path of two names is set again once both exist; the theorems have no such bound.
In `Screen`, a window with a
stretching and a fixed child meets a tab book of two pages: each can be in front,
partly or wholly hidden, and cut by the screen's edge; `Moves`, `Sizes` and `Places`
are the calls made, `Room` keeps widgets within one pixel of the screen, so that one
can leave it on each side by a column or row. In `Events`, two changes of the button
are a click, with the key and the wheel in every stage of it; depth 2 is a dialog
over a handler. A timer more than those of the tooltip, a text box and a program
allows one to be added beyond `Last`; two kills allow the one the walk is at and
`Last`. Three bytes and steps of two let a file end in, at and behind a step.

Properties, and what each would catch:

- `RingInv`, `ImplementsItemList`: a link forgotten in one of the special cases (first,
  last, only item), in either direction; an item left behind.
- `FreesAllOnce`, `ListCallsEnd`: use after free, a leak or an endless walk.
- `WalksAgree`, `SortsInPlace`: an index off by one; a loop over the ring that stops early or
  starts late; contents lost in an exchange.
- `TablesOK`, `ImportsLive`, `UsersCoverHolders`: use counts against the libraries
  actually held, over failed loads, kills and re-loads; they may run too high (a
  library that stays for nothing), never too low; no symbol outlives its exporter.
- `LibrariesCloseLast`: the order of `Close` at shutdown and after a sweep.
- `CallsReturnToLoadedCode`: agreement between the stack and the freeing by a sweep
  that ran higher up, or by `BreakApp`.
- `SweepStaysInList`: the stale cursor of `DynLdTCP`.
- `ClosedAppsAreFreed`, `QuitHalts`: the promises in the comments of `CloseApp` and of
  `GSExit`.
- `TreeOK`, `SetsItsPath`, `SavedIsLoaded` of `Registry`: the registry as its clients
  see it. That other paths keep their values is stated for siblings that differ by
  more than their case; `RenameKey` and the two comparisons can break that, and then
  creating a key does change what another path finds. It is stated for another path: one that
  differs from the path set in nothing but the case of names before the last leads to the
  same key (`SamePath`) and finds the new value there.
- `WidgetsOK`, `ScreenIsTop`, `HitIsDrawn`: a repaint too small, a
  stored coordinate not refreshed, a picture under the mouse that is not the widget
  the click goes to, a hidden page that shows through.
- `ListsAreExact`, `CallsEnd`: a round too many or too few in a walk over a list that grows and
  shrinks; two rectangles that overlap.
- `InputOnce`, `UsesLive`, `ReleaseEndsAll`, `KeyArrives`: globals read after a handler
  that polled or disposed of a widget; a key swallowed by a drag.
- `CallsLiveTimers`, `DueIsServed`: a timer killed under the walk, a program's callback after
  the program, a `Last` that moves away from the end test.
- `OrderSpec`, `RunsOnce`: a pointer of `tasks.c` left behind; a task skipped, run twice
  or read after it is freed by a walk that others interrupt.
- `TreeOK`, `SelectedOnTop`, `EndsWhole` of `Widgets`: a ring broken at its last child, a
  submenu freed under its menu, a walk that goes on in a widget it has freed; a widget of an
  ended application left in the tree.
- `InText`, `MovesOneLine`, `CaretInSight`, `ClipboardIsText`, `DragMoves`: a pointer into the
  text of before, a caret past the end of a line, a letter lost between two boxes.
- `InBuffer`, `IsFile`: a buffer grown too little; bytes that differ from what was written.

### Fairness

`DynLd`'s `FairSpec` assumes what the single stack gives: a call that does not poll
comes to its end (weak fairness of the loader's own steps and of boot and shutdown),
a handler makes a finite number of calls and returns, and every poll runs the tasks
and the main loop's test again and again. The last three are strong, because dialogs
and what a poll lets the user do disable them for a while and re-enable them. Nothing is assumed of the user. `AnsweredSpec` adds that a dialog is
answered in the end. Both liveness properties have the premise `UserRests`: someone
who starts and ends a program within every poll, for ever, keeps the sweep from the
item before the last for ever, since a sweep that frees the last item does not look
at the new last one.

The loops of `list.c`, `metrics.c` and `_DisposeAllAppWidgets` do not poll, so that each
runs to its end: weak fairness of their steps, of nothing the callers do. In `Events` the
program goes on while it can (weak fairness of `Program`); the user need not do anything.
In `Timers` the main loop polls for ever and a walk goes on (weak); a callback that may
poll for a while returns (strong, since the walks within it disable the return).

`CHECK_DEADLOCK` is left on everywhere; a halted system stutters by `Halted`.

## 4. What is proved

`RingProofs`, for every finite set of items with `NULL` outside it (`NullAssumption`,
`ItemsAssumption`: an item is a block of memory), every length of list, set of contents and ranking
(`ComparatorAssumption`, `LengthAssumption`):

- `RingTypeCorrect`: `Spec => []TypeOK`; `RingCorrect`: `Spec => []RingInv`. The inductive
  invariant `IInv` is `TypeOK /\ RingInv`: the links alone say too little (a ring through
  the wrong items is a ring), so the invariant relates them to `order`. The lemmas
  `LinkLastRep`, `LinkBeforeRep` and `UnlinkRep` are about a ring and a sequence given as
  values: if the ring represents the sequence before, the assignments make one that
  represents the sequence with the item inserted or removed. Each compares the old and new
  positions around the place that changes. `DropBehind` is the composition of two of them;
  when the item pointed at is the last one, the ring it makes equals that of an append,
  which is why the early assignment of `Last` in the list view is right.
- `FreeListOnce`: `Spec => FreesAllOnce`, from `FreeListCorrect` and `FreeListComplete`. Only
  because the ring is closed backwards does the walk return to `Last` exactly at the first
  item (`BackAtLast`).
- `WalkCorrect` (`Spec => [](Walk = order)`), `LookupsCorrect` and the refinement `RingImplements`:
  `Spec => ImplementsItemList`. `Walk` is a recursive function of the links; that there is one
  (`MetFollows`) and that it meets `order[k]` at every place `k` and the first item after the last
  (`MetIsOrder`) goes by induction, for which `Links` has a form that needs no operator. Then each
  operation's step maps to one of `ItemList`: a drop to a `Move`, the end of `FreeList` to `Free`,
  an append to an `Insert` behind the last.
- Of the sort alone, `OrderTypeCorrect` and `OrderSorts`: `OrderSpec => []SortsInPlace`. The invariant
  `OrderInv` adds to the types `Partly` - what lies before `a` is in its place, and `a` holds
  the least of what it has met - and that `a` is `n` when it is done. The step of an exchange
  has four cases, by whether the two contents are ranked, since what is not ranked must stay.
- Of the two together, for `ListSpec`, which the run `ring` checks: `ListIsRing` (`ListSpec => Spec`),
  hence `ListImplements` (`RingInv`, `ImplementsItemList`, `FreesAllOnce`); `WalksCorrect`
  (`WalksAgree`) and `ListSorts` (`SortsInPlace`). `SortInv` says that the sort's variables are at
  rest between calls and that during one `n` is the length of the list and the pointers are at the
  places counted: `Next` of the item at place `k` is the first item exactly when `k` is the last
  place (`OnPlaces`), so that the loops and the counts end together.

`PollingProofs`, of the tasks, for any number of them and any depth, with `RemoveSelf = FALSE`:

- `TasksRunOnce`: `Spec => RunsOnce`, from `TasksTypeCorrect` and `TasksOnceCorrect`. The
  pointers alone do not say that the tasks form one list: a ring of two tasks apart from it
  would satisfy every equation between neighbours. The invariant says that the tasks can be
  given ranks such that `Next` leads to the next higher one, and a walk has run what lies
  before it and owes what lies behind.
- `TasksKeepOrder`: `Spec => OrderSpec`, and this for `RemoveSelf = TRUE` as well. `Holding` says that
  there is a sequence which `TaskList`, `LastTask`, `Next` and `Prev` hold; installing appends to it,
  removing takes one out, and by induction `Chain` is that sequence.

and of the timers, for any timers and programs, a finite set of waiting timers and any depth, with
`KillSaved = FALSE` and `Overwrites = FALSE`:

- `TimersLiveCorrect`: `TimersSpec => []CallsLiveTimers`; `TimersServedCorrect`:
  `TimersSpec => AllServed`. The invariant says of every walk, not of the innermost only, that
  the timer it goes on with - its cursor, the one read ahead while a callback runs - is in the
  list, and that what it owes lies ahead of it: behind its place and no further
  than `Last`, unless the walk has just begun at `Last`.
  Killing and inserting move these places, so that each step is shown to keep the order of what
  stays. A program's timers are those its variable names, which is why a program that is
  unloaded leaves none.

`DynLdProofs`, for any programs and libraries, any finite number of them in memory, and polls
within polls to any depth, under `Sound`:

- `Safe`: `Spec => [](Inv /\ SweepOK)`. `App->Users` alone is no invariant: it is too high after a
  failed load, and the user it counts may be in no list yet. `Inv` relates the stack to the
  tables: above a load in progress lies only what it depends on (`NestingOK`), the libraries it
  has taken stay in memory (`NeedsRun`), a library that runs has at least as many users as hold
  it, one more while RegistryLoadLibraries has named it (`UsersOK`, `BootsOK`), a host outlives
  what it hosts (`HostsOK`, `HostBelow`), and what a program is linked to runs and stands before
  it in the list (`LinksOK`). One lemma for each way a step can change this: a load begins, goes
  on, fails; `Main` starts and returns; a program retires (`RetiresStep`, for a failed `Main`,
  `BreakApp` and `DynLdTCP`); the stack is cut back.
- From it `TablesAgree`, `ImportsStayLive`, `UsersStayCounted`, `LibrariesStayOpen`, each
  `Spec => []` the property the run `dynld` checks.
- `SweepStays`, where the boot list names a library, as AUTOLIB does.
- `HandlersSafe` and `CallsReturn`, with `CloseUnderCall = FALSE`: a program whose handler waits,
  in a dialog or below a program it has started, stays in memory; hence no call returns into a
  program that is freed. The condition is one on the user, which the code does not enforce, and is
  about `CloseApp` alone. That `BreakApp`, failed loads, the sweep and the ends of other programs
  leave the calls in progress alone, or end them all, is what the theorem shows.

`Sound` is `SoundlyLinked` and `MaxHosted <= 1`. `SoundlyLinked` says that no library depends on
itself, that what imports from a library depends on it, that each library named is also imported
from, that programs export nothing, and that a library which registers symbols for ever
(`SYSEXPORT`) is in AUTOLIB, as fms2 is. The loader tests none of this; section 5 tells what it
does outside. Applications that hold a library they import nothing from, and conlib, are outside.

`DesktopProofs`, for any widgets, any number of keys and clicks, and polls within polls to any depth,
under `NoBoundary` (`PollUnhandled`, `BusyHover`, `CloseInDrag` and `DropPolls` are `FALSE`):

- `PollsSafe`: `Spec => []Inv`. The polls share `Event`, `Mouse` and `TopWidget`, so that nothing holds
  of them in every frame. `Inv` says that all frames but the innermost wait for an answer, in a
  stage of a click or a key (`BelowOK`); that the innermost one, until its own handler polls, finds
  what it read itself (`Own`, `OwnInput`: the branch it took, the widget under the mouse, an input
  nobody has had); and that, once its handler has polled, it only returns (`FrameOK`).
- From it `InputsOnce` and `OnlyLiveUsed`: `Spec => []InputOnce`, `Spec => []UsesLive`, for a mouse and
  a keyboard that may change together.
- `ReleaseEnds`: `Spec => []ReleaseEndsAll`, with `Together = FALSE`. A grab or a drag outlives the
  button only while the innermost poll still has the release before it (`UpComes`, `DropComes`).

and of the screen, for any finite tree of widgets (`LayoutAssumption`: each has one place in it, and a
depth), any sizes, resize flags, tab books and screen, under `NoScreenBoundary` (`TinyWidgets`,
`ScrolledOut` and `MoveHidden` are `FALSE`):

- `CoordinatesAreFresh`, `PartialPaintsAddUp`, `MouseGoesToWhatIsSeen`: `ScreenSpec => []` of `WidgetsOK`,
  `ScreenIsTop` and `HitIsDrawn`. `ScreenInv` is `Sound` and `Pictured`: the stored coordinates are
  those computed anew, and each pixel shows the widget that is `OnTop` there, one that is drawn and visible
  with all above it, beside which nothing visible in front is drawn, on any level (`Clear`), and none of its
  children.
  - `TopOne`, `TopExists`: exactly one widget is on top at each pixel. `SearchFinds` says that the search
    from the desktop down ends at it, which makes `Shown` and the mouse agree with the picture (`ShownIs`,
    `UnderIs`).
  - `PaintedIs`: a pass that comes to whatever is on top in its zone (`InSight`) leaves that on the screen
    and nothing else, because a widget's cache is what is on top of it. From it what each of
    the three kinds of repaint leaves: `DrawAllIs`, `DrawOnListIs`, `DrawOnRectIs`. The latter two give up
    below a widget that does not meet the zone; that misses nothing, as a widget is drawn inside
    its parent only (`SoundDraws`, which needs `ScrolledOut = FALSE`).
  - Each operation then has to show that where it does not paint, the widget on top is the one
    it was (`StaysShown`). For `Place` that is the case of a pixel the widget has been at: the parent
    has painted it (`bare`).
  - `RefreshedIs`, `ResizedIs`: only what is below the widget gets other coordinates, and all of it
    does: a child area is never empty where there are children, so no widget is `lost`.
  The recursive functions (`Line`, `Refreshed`, `Resized`, `Descend`, the repaints after a removal) are shown
  to exist along the depths of the tree (`DownExists`, `UpExists`).

`DataProofs`, for all integer rectangles that are not empty:

- `OverlayIsCommonPixel`: `RectOverlay` tells whether two have a pixel in common.
- `HPrefExact`, `VPrefExact`: the pieces the two subtractions add are not empty, lie in the first
  rectangle and apart from the second, have no pixel in common, and cover what is left.

and for lists of any length:

- `ListsExact`: `ListSpec => []ListsAreExact`, under `InputsOnScreen`: a caller passes rectangles
  that are not empty, or one that meets none of the others. That is how the widgets call: what
  is shown of one is clipped to the desktop, which begins at 0, 0, or is `Nowhere`
  (0, 0, -1, -1). It has to be asked for: `RectIntersept` of `Nowhere` and a rectangle over
  -1, -1 and 0, 0 is not empty. `ListsAreExact` is not inductive; `ListInv` adds that the items a
  removal has passed, counted from its cursor, do not meet its rectangle (`Passed`), and that
  all that is in the list or still to add is clear of the empty inputs (`OfInputs`).
  `ItemReplaced` is what a round does: `RemoveAt` after the pieces were appended is the list
  without the item, and the pieces. `_AddRectInList` leaves out what is empty; that
  `Chosen`, a recursive function, does so is shown by induction (`ChosenItems`).

and of the files in memory, for every step, length and alphabet, with "behind" not in `Odd`:

- `MemFileInBuffer`, `MemFileTypeCorrect`, and the refinement `MemFileIsFile`: `FileSpec => IsFile`.
  The invariant is the types, `InBuffer`, that what lies behind the file in the buffer is
  unset, and the bound on the size. Each operation's step maps to one of `ByteFile`: opening what
  was closed or extracted, by either of the two ways, gives the same bytes.

and of the registry, for any finite number of keys, any names, folding of names, types and data,
any length of path and any default paths for which memory suffices (`RegistryAssumption`):

- `RegistryIsTree`: `Spec => []TreeOK`. The rings of children alone say neither that a key reaches the
  root nor that nothing is lost. `RegInv` says that the registry in memory and the lines of the file
  each have a `Shape`: ranks that rise along every ring (`Ringed`, as of the widgets), a root without
  neighbours, and a depth that is one more than the parent's, so that nothing is its own ancestor. A
  file is taken as such a tree over the numbers of its lines, with 0 for `NULL`.
  - `NewKeyShaped`, `DeleteShaped`: a new last child, and a key unlinked and freed with all that is
    below it. `BelowIs` characterises the recursion of `FreeKey` as the least set closed under
    children; `AllBelow` is that nothing in use is out of reach.
  - `PathHolds`: `GetOrCreateKeyEx` takes at most one free key for each component (`Holds`), so that
    `Room` suffices and every key it goes on with is in the tree.
  - `ResolveIs`: a path of at least one name never leads to the root, so that `DeleteKeyEx` always has
    a parent to unlink from.
  - `WrittenShaped`, `LoadedShaped`: `WriteKey` comes to each key once (`VisitIs`; `BelowKids` says that
    the subtrees of two children have no key in common), and so the numbers `GenerateTmpId` gives
    name lines of the file, one each. A tree keeps its shape when its elements get other addresses
    (`ShapeMoves`), from keys to lines and from lines to keys.
- `SetIsGotAlone`: `Spec => SetsItsPath`. `Walked` is the way of keys a path leads along, each a child
  of the one before, of a name that the comparison takes and before all others that it takes.
  - What `KeySetData` creates is found again: a new key is the last of its ring, which is the first
    that every loop looks at, and it is only made when no sibling has its very name, so that the way
    is `Led` to it (`NewKeyGets`, `GetsLed`, `FirstIsLast`). Creating the rest of the path changes
    the ring at the end of the way only; in the others every loop finds what it found (`KidsSame`).
  - Another path comes to the key it came to: the keys of its way stay, and where siblings differ by
    more than their case there is one child it can go to (`WayStays`). If that is the key just set,
    the two ways go up through the same parents, and the paths are the same (`OnePath`).
- `SavingKeepsTheTree`: `Spec => SavedIsLoaded`. Each key has its line (`WrittenLines`) and each line
  its place in the array (`LoadedLines`), so that what is loaded is a copy of what was saved, link by
  link (`Copies`). Then the loops visit the copies of the children in the children's order
  (`CopiedKids`), and the trees are the same from depth to depth (`CopiedTree`).

The recursive functions of the model (`ResolveKeyEx`, `GetOrCreateKeyEx`, `Below`, `Visit`) are shown to
exist, step by step, by `StepsExist`, what their steps keep holds of their results (`StepsStay`); `Tree`
is shown to exist from depth to depth (`TreeGrows`). `Shape` quantifies over all ranks and depths, which TLC cannot
enumerate; the run `registry` checks its consequence `TreeOK` instead, of which the rings, the root and
reachability are parts.

`WidgetsProofs`, for every finite set of widgets, any number of windows, popups and applications,
with `NoShell = FALSE` and `OpenMenus = FALSE`:

- `TreeIsWhole`: `Spec => []TreeOK`. Equations between neighbours do not say that the children of a
  widget form one ring. `Sound` says that the widgets have ranks (`Ranks`): along `Next` the ranks
  of the children rise from the highest on the screen to the last, and from the last it goes back to the
  least. A removal leaves the ranks as they are, one that comes to the top gets a rank below all others,
  and one inserted into an empty ring any rank; `Links` has these three as `RingLoses` and `RingGains`,
  and `RingWalk`, that the walk of a ring meets each child once. The same ranks order a popup and the
  submenu opened from it, which is younger and is never raised: hence `MenuViewFreeEx`, which
  disposes of a submenu that disposes of its own, ends (`OpenedIs`), and what it frees is what it has
  unlinked (`DisposedSound`).
  Of the walk of `_DisposeAllAppWidgets`, which disposes of widgets on the ring it follows, the
  invariant says that the widget each level has read ahead is still in the tree (`FramesOK`).
- `SelectionIsOnTop`: `Spec => []SelectedOnTop`, with `Behind = FALSE`. No window ranks below one that
  is selected.
- `ApplicationLeavesNone`: `Spec => AllDisposed`, with `UnderMenus = FALSE`. What the application still
  has on the desktop lies ahead of the walk, from its cursor down to the panel (`Ahead`, `PanelLow`); the
  panel is the last and stays, so that the end test holds when nothing is ahead. Disposing of the selected
  window selects and raises the highest that is left, which must not take it from ahead of the walk to
  behind: while a menu is open no window is selected (`MenusFirst`), so that it is the highest child already.

`TextBoxProofs`, for any boxes, letters, texts of any length and areas of any size, under `Bounded`
("reversed", "ragged" and "unmoved" not in `Odd`, the three boundaries at which a position leaves
the text or a text is lost):

- `StaysInText`: `Spec => []InText`. `InText` is not inductive by itself: what a drop inserts must be
  a text and be put at a place that exists, so `Inv` adds that what is dragged or on the clipboard
  is a text and that the box the mouse is over has a `DragPos` that was not freed
  (`DropsKnowWhere`). One lemma for each operation says that its result has its positions inside
  (`Inside`), is scrolled no further than before, and has not lost `DragPos` (`Follows`).
- `ClipboardPassesText`, `DragsMoveText`: `Spec => ClipboardIsText`, `Spec => DragMoves`. Texts are
  cut and joined (`Adjacent`, `Apart`, `Together`); a drop in the box it came from has two cases, before
  and behind the selection (`PutBefore`, `PutBehind`), and needs that the deletion moves
  `DragPos` with the letter it was at.
- `KeysShowCaret`: `Spec => CaretInSight`. The ranges of the scroll bars (`MaxOf`) let every column and
  every line be reached, and `Into` goes far enough (`IntoIs`, `MeasuredIs`).
- `ArrowsMoveOneLine`: `Spec => MovesOneLine`, for `Odd = {}`. In a text that does not begin with a
  line break `ReachStartOfLine` finds the last break before the caret (`ReachesStart`), and exactly one
  break lies between the old place and the new one (`LineBelow`).

Model-checked only: what is stated under fairness, since neither `ENABLED` nor fairness is within the
prover's reach. That is `ListCallsEnd`, `CallsEnd`, `EndsWhole`'s part that the walk ends
(`WalkEnds`), `ClosedAppsAreFreed` and `QuitHalts`, `KeyArrives`, and of `DueIsServed` that what is due is called
in the end (`DueIsCalled`).
Everything else that a passing run checks is proved, most of it outside the boundaries of section 5.

## 5. Findings and boundaries

Shown by runs:

1. conlib's symbols stay in the table after conlib is freed, and block those of the next
   conlib (`src/xlib/conlib.c:481-483`, `src/dynld.c:77,642`).
2. A 64-bit registry value keeps its lower half (`src/registry.c:17-30`): two type names
   share one number and the table of sizes is one entry ahead of it.

What the boundaries leave out. Those that are constants were each found by setting them and
running TLC; the others are cases the models do not have:

| Boundary | What the code does there |
|---|---|
| `CloseUnderCall` (`DynLd`) | `CallsReturnToLoadedCode` fails in two ways. Nothing makes a dialog modal: close the window under it, let the sweep run, answer the dialog. And a program that starts a console waits below it: `src/xapps/nav.c:70` (by `src/xlib/fms2.c:253` and 290), `run.c:69` and `xbatch.c:71` come to `DynLdRunEx` from a handler, and the console's `Main` polls (`src/xlib/conlib.c:219`); close the launcher's window, let the sweep free it (`src/dynld.c:677`), leave the console by "exit", and `DynLdRunEx` returns into the freed launcher |
| `MaxHosted` > 1 | the walk of `FreeHostedApp` misses the program before the last (`src/dynld.c:266`): it keeps its freed host's address, and `CallsReturnToLoadedCode` fails |
| a library named and not imported from (`SoundlyLinked`) | a program can be loaded while the library waits to be freed and goes with the next sweep: `UsersCoverHolders` fails, and no import shows it |
| `SYSEXPORT` by a library not in AUTOLIB | finding 1 |
| `App->State` after the free (`TcpItem`) | if the memory were overwritten in between, the sweep could take a freed program for a starting one and break it (`src/dynld.c:680`) |
| `FairSpec` instead of `AnsweredSpec` | MSG_QUIT does not end the main loop while a dialog is open: `WidgetExecute` never looks at `GSExit` (`widget.c:1474`; `main.c:55` "Setting this variable to true ends the main program loop") |
| `TinyWidgets` (`Screen`) | a widget of which 2 by 2 pixels are in sight is not drawn: `a.x - b.x + 1` is 0 (`widget.c:281`) |
| `ScrolledOut` | when nothing of a child area is in sight, its intersection still leaves the children a column to paint in (`widget.c:782`; `metrics.c:174` "MUST have a common part") |
| `MoveHidden` | a widget moved on a hidden tab page lets the page paint over the one in front: `WidgetDrawOnRectListEx` asks for the parent's own `WFVisible` only (`widget.c:470`) |
| `Together` (`Events`) | a key and a change of the mouse in one poll are OR-ed into one type that no branch tests for: both are lost, and with a release a grab or a drag goes on (`events.c:143`) |
| `PollUnhandled` | a handler that polled and then returns FALSE lets the outer poll hand on the inner one's event: `InputOnce` fails |
| `BusyHover` | handlers of hovering and focus that dispose of widgets leave `TopWidget` NULL before line 1274 tests it |
| `CloseInDrag` | `DragCaller` is not cleared by disposal: `DragAfterDrop` goes to a widget that is gone (`widget.c:1224`) |
| `DropPolls` | a `DropData` that polls leaves the inner poll's event to the rest of the outer one, which hands it out again |
| `KillSaved` (`Timers`) | a timer is killed that an outer walk has read ahead to, and the walk goes on in freed memory (`timer.c:34`) |
| `Overwrites` | a program that keeps one of its two timers leaves the other to call into freed code (`src/xapps/mbox.c:824`) |
| `RemoveSelf` (`Tasks`) | `p->Next` of a task that removed itself is read from freed memory (`tasks.c:67`) |
| `NoShell` (`Widgets`) | without the panel of desktop.app `_DisposeAllAppWidgets` ends at the new `Last` and leaves a window of the application (`widget.c:1433`) |
| `UnderMenus`, `Behind` | a window inserted or changed below another, or under an open menu, is selected and not on top (`widget.c:674`) |
| `OpenMenus` | an application that ends with a submenu open has it disposed of by its menu and by the walk (`menu.c:689`) |
| "reversed" in `Odd` (`TextBox`) | with Shift and Left the length of a copy is negative (`textbox.c:159`) |
| "ragged", "leading", "empty", "unmoved" | Up and Down go past the end of a shorter line, to the wrong line in a text that begins with a break or over an empty line; a drop without a move of the mouse uses a stale `DragPos` |
| "behind" in `Odd` (`MemFile`) | `MemFileSeek` resizes by the distance and not by the new position (`memfile.c:156`) |
| "over" | `MemFileRead` copies what was asked for, from behind the buffer (`memfile.c:109`) |
| a drop over no item (`Ring`) | the item pointed at is NULL (`src/xlib/listview.c:821`): with the mark above it the drop is an append, with the mark below the `Next` of NULL is read |
| a double click (`Events`) | `WEvMouseLDClk` is sent before `WEvMouseLDown`, which follows only if it is refused (`src/xlib/widget.c:1280`); the model has one "down" for both |
| lists that are not empty (`ListOrder`) | the sort's guard joins its tests with `&&` and never refuses an empty list (`list.c:240`) |

Two more disagree with their comments without a state being wrong: `ListFoundIndex` of an
empty list is 0 where -1 is promised (`list.c:222,227`), and `MemFileEOF` answers the opposite
of what `FileEOF` promises (`memfile.c:174`, `vfile.c:393`).

## 6. Not modelled

- Drawing itself, fonts, devices, codecs and sound: data transformed without state that
  others rely on.
- The byte-level relocation of `dynld.c` and the off-line linker; the export table always
  resolves.
- The virtual file system's drivers and table of drives, which hand their arguments to the C
  library; string handling; `ini.c`.
- Tree views, list boxes, combo boxes, buttons and the file dialogs: layout on top of the
  widgets that are modelled. The tooltip appears as the timer whose callback polls.
- A registry file cut short by a crash: nothing in the code says what should then be read.
- Consoles in the STARTUP entries, and programs that keep a `PRegKey` over a reload.
- Applications and the form designer, except for the calls they make.
- Vendored code: the C library, the compiler's tree under `DJGPP`, libpng and zlib.
