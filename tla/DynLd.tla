------------------------------- MODULE DynLd -------------------------------
(***************************************************************************)
(* The dynamic loader (dynld.c): applications and libraries are loaded,    *)
(* started, closed and freed while the kernel polls.                       *)
(*                                                                         *)
(* Everything runs on one C stack.  SysPoll is called by the main loop, by *)
(* WidgetExecute (a dialog) and by the Main of a console program, and it   *)
(* calls the handlers of the programs, which open dialogs and start other  *)
(* programs and are returned into.  So what is modelled is that stack:     *)
(* "stack" holds the activations in progress, the last one runs.  A call   *)
(* that polls nothing is one step.                                         *)
(*                                                                         *)
(* A TApplication is known by its address; a freed address may be handed   *)
(* out again.  A library is known by its UID, here its program.  The       *)
(* kernel's own symbols always resolve and are left out.                   *)
(***************************************************************************)
EXTENDS Integers, Sequences, FiniteSets

CONSTANTS
  Addr,         \* where malloc may put a TApplication
  NULL,
  Programs,     \* the .app and .dl files
  Libraries,    \* those of them that are libraries
  Consoles,     \* the programs whose Main polls (GetKey of conlib.c)
  NeededLibs,   \* NeededLibs[p]: the sequence App->Libs
  Imports,      \* Imports[p]: the external symbols of p
  AppExports,   \* AppExports[p]: what its LibMain registers with APPEXPORT
  SysExports,   \* SysExports[p]: what its LibMain registers with SYSEXPORT
  BootList,     \* the entries of AUTOLIB and STARTUP, in order
  CloseUnderCall,  \* TRUE: a window may be closed while a handler of its program waits
  MaxHosted,    \* how many programs a console may have running
  MaxUsers,     \* bound on App->Users
  MaxDepth      \* bound on the activations in progress

SeqRange(s) == {s[k] : k \in 1..Len(s)}

ASSUME ProgramsAssumption ==
  /\ IsFiniteSet(Addr)
  /\ NULL \notin Addr /\ NULL \notin Programs
  /\ Libraries \subseteq Programs /\ Consoles \subseteq Programs \ Libraries
  /\ NeededLibs \in [Programs -> Seq(Libraries)]
  /\ BootList \in Seq(Programs)
  /\ CloseUnderCall \in BOOLEAN
  /\ MaxHosted \in Nat /\ MaxUsers \in Nat /\ MaxDepth \in Nat

(***************************************************************************)
(* How the programs are linked.  Direct holds the libraries a program      *)
(* names, Depends is the least transitive relation with those.             *)
(***************************************************************************)
Direct == {pq \in Programs \X Libraries : pq[2] \in SeqRange(NeededLibs[pq[1]])}

Depends ==
  {pq \in Programs \X Libraries :
     \A R \in SUBSET (Programs \X Libraries) :
       /\ Direct \subseteq R
       /\ \A p \in Programs, q, r \in Libraries : <<p, q>> \in R /\ <<q, r>> \in R => <<p, r>> \in R
       => pq \in R}

Exports(p) == AppExports[p] \cup SysExports[p]

SoundlyLinked ==
  /\ \A p \in Programs : <<p, p>> \notin Depends
  /\ \A p \in Programs \ Libraries : Exports(p) = {}
  /\ \A p \in Programs : SysExports[p] # {} => p \in SeqRange(BootList)
  /\ \A p, q \in Programs : Imports[p] \cap Exports(q) # {} => <<p, q>> \in Depends
  /\ \A p \in Programs : \A q \in SeqRange(NeededLibs[p]) :
       \E n \in Imports[p] : \A r \in Programs : n \in Exports(r) => r = q

VARIABLES
  app,       \* the TApplication at each address
  apps,      \* Applications, first to last
  symbols,   \* Symbols: [name, home (whose code), owner (Symbol->App)]
  stack,     \* the activations in progress
  ret,       \* what the call that has just returned gave: "ok", "fail", or "none"
  phase,     \* "boot", "up" (past setjmp), "down" (ShutDownDynLd), "halted"
  pos,       \* how far RegistryLoadLibraries / ShutDownDynLd has come
  GSExit

tables == <<app, apps, symbols>>
vars == <<app, apps, symbols, stack, ret, phase, pos, GSExit>>

Blank == [prog |-> NULL, st |-> "free", users |-> 0, close |-> FALSE,
          host |-> NULL, bound |-> {}]

Init ==
  /\ app = [a \in Addr |-> Blank]
  /\ apps = << >> /\ symbols = {}
  /\ stack = << >> /\ ret = "none"
  /\ phase = "boot" /\ pos = 1
  /\ GSExit = FALSE
-----------------------------------------------------------------------------
(***************************************************************************)
(* The loader's tables, s = [app, apps, symbols], and what its functions   *)
(* do to them.                                                             *)
(***************************************************************************)
Tables == [app |-> app, apps |-> apps, symbols |-> symbols]
Becomes(s) == app' = s.app /\ apps' = s.apps /\ symbols' = s.symbols

\* The items of q that are not in A, in their order.
Without(q, A) ==
  LET kept == {k \in 1..Len(q) : q[k] \notin A}
  IN [i \in 1..Cardinality(kept) |->
        q[CHOOSE k \in kept : Cardinality({j \in kept : j <= k}) = i]]

\* FreeApplication of every item of A, and ListRemoveItem.
Freed(s, A) ==
  [s EXCEPT !.app = [x \in Addr |-> IF x \in A THEN Blank ELSE s.app[x]],
            !.apps = Without(s.apps, A)]

\* GetLibrary: the walk starts at the last item and goes on from the first.
GetLibrary(s, u) ==
  LET n == Len(s.apps)
      at == {k \in 1..n : s.app[s.apps[k]].prog = u}
  IN IF at = {} THEN NULL
     ELSE IF n \in at THEN s.apps[n]
     ELSE s.apps[CHOOSE k \in at : \A j \in at : k <= j]

(***************************************************************************)
(* FreeHostedApp frees what a console has launched, without unloading its  *)
(* libraries.  The walk starts at the last item and ends when it meets the *)
(* item that is last by then: when the last one goes, the new last one is  *)
(* not looked at.                                                          *)
(***************************************************************************)
FreeHostedApp(s, a) ==
  LET n == Len(s.apps)
      hosted == {b \in SeqRange(s.apps) : s.app[b].host = a}
      missed == IF n > 1 /\ s.apps[n] \in hosted THEN {s.apps[n - 1]} ELSE {}
  IN Freed(s, hosted \ missed)

\* Mutant of Closed: the symbols stay.
ClosedKeepsSymbols(s, A) ==
  [s EXCEPT !.app = [x \in Addr |-> IF x \in A
                       THEN [s.app[x] EXCEPT !.close = FALSE, !.st = "tofree"]
                       ELSE s.app[x]]]

\* What CloseApp does to the applications A themselves.
Closed(s, A) ==
  [s EXCEPT !.app = [x \in Addr |-> IF x \in A
                       THEN [s.app[x] EXCEPT !.close = FALSE, !.st = "tofree"]
                       ELSE s.app[x]],
            !.symbols = {y \in s.symbols : y.owner \notin A}]

CloseApp(s, a) == Closed(FreeHostedApp(s, a), {a})

\* Mutant of UnLoadLibraries: a library is closed while it has a user left.
UnLoadLibrariesEarly(s, a) ==
  LET libs == {GetLibrary(s, u) : u \in SeqRange(NeededLibs[s.app[a].prog])} \ {NULL}
      less == [s EXCEPT !.app = [x \in Addr |-> IF x \in libs
                                   THEN [s.app[x] EXCEPT !.users = @ - 1] ELSE s.app[x]]]
  IN Closed(less, {x \in libs : less.app[x].users <= 1})

\* UnLoadLibraries(a->Libs): a library without users left is closed (it hosts nothing).
UnLoadLibraries(s, a) ==
  LET libs == {GetLibrary(s, u) : u \in SeqRange(NeededLibs[s.app[a].prog])} \ {NULL}
      less == [s EXCEPT !.app = [x \in Addr |-> IF x \in libs
                                   THEN [s.app[x] EXCEPT !.users = @ - 1] ELSE s.app[x]]]
  IN Closed(less, {x \in libs : less.app[x].users = 0})

(***************************************************************************)
(* CloseApp, UnLoadLibraries, ListRemoveItem: the end of a failed Main and *)
(* of BreakApp.  (The tables after each call are bound, so that TLC works  *)
(* them out once.)                                                         *)
(***************************************************************************)
Discarded(s, a) ==
  LET unloaded == {UnLoadLibraries(c, a) : c \in {CloseApp(s, a)}}
  IN CHOOSE d \in {Freed(u, {a}) : u \in unloaded} : TRUE

\* AddSymbol, for all that a's LibMain exports: a name already there stays as it is.
Exported(s, a) ==
  LET p == s.app[a].prog
      New(N, o) == {[name |-> n, home |-> a, owner |-> o] :
                      n \in {m \in N : \A y \in s.symbols : y.name # m}}
  IN [s EXCEPT !.symbols = @ \cup New(AppExports[p], a) \cup New(SysExports[p], NULL)]
-----------------------------------------------------------------------------
(***************************************************************************)
(* The stack.                                                              *)
(***************************************************************************)
Top == stack[Len(stack)]
Below == SubSeq(stack, 1, Len(stack) - 1)
Running(k) == stack # << >> /\ Top.kind = k

\* Who is inside SysPoll: the main loop, a dialog, a console program.
Polling ==
  /\ phase = "up"
  /\ \/ stack = << >>
     \/ Running("dialog")
     \/ Running("main") /\ app[Top.app].prog \in Consoles

\* The call at the top returns r; only the lib loop of DynLdRunEx looks at it.
Returns(r) ==
  /\ stack' = Below
  /\ ret' = IF Below # << >> /\ Below[Len(Below)].kind = "load" THEN r ELSE "none"

\* Mutant of LongJmp: a plain return.
LongJmpNot == UNCHANGED <<stack, ret>>

\* The handler at the top calls WidgetExecute, or has been returned into.
Turns(kind) ==
  /\ stack' = [stack EXCEPT ![Len(stack)].kind = kind]
  /\ UNCHANGED <<tables, ret>>

\* longjmp to MainPoint: every activation is gone.
LongJmp == stack' = << >> /\ ret' = "none"

Env == UNCHANGED <<phase, pos, GSExit>>

\* DynLdRunEx up to its lib loop: the TApplication is there, and in no list yet.
Allocates(a, p, h) ==
  /\ app[a].st = "free"
  /\ app' = [app EXCEPT ![a] = [Blank EXCEPT !.prog = p, !.st = "loading",
                                             !.close = TRUE, !.host = h]]
  /\ stack' = Append(stack, [kind |-> "load", app |-> a, next |-> 1])
  /\ ret' = "none"
  /\ UNCHANGED <<apps, symbols>>
-----------------------------------------------------------------------------
(***************************************************************************)
(* Starting the system: RegistryLoadLibraries and RegistryRunEntries.      *)
(***************************************************************************)
Boot ==
  /\ phase = "boot" /\ stack = << >> /\ pos <= Len(BootList)
  /\ LET p == BootList[pos]
         l == IF p \in Libraries THEN GetLibrary(Tables, p) ELSE NULL
     IN IF l = NULL
        THEN \E a \in Addr : Allocates(a, p, NULL)
        ELSE app' = [app EXCEPT ![l].users = @ + 1] /\ UNCHANGED <<apps, symbols, stack, ret>>
  /\ pos' = pos + 1
  /\ UNCHANGED <<phase, GSExit>>

BootEnds ==
  /\ phase = "boot" /\ stack = << >> /\ pos > Len(BootList)
  /\ phase' = "up"
  /\ UNCHANGED <<tables, stack, ret, pos, GSExit>>
-----------------------------------------------------------------------------
(***************************************************************************)
(* DynLdRunEx.                                                             *)
(***************************************************************************)
\* LoadLibraries, LoadLibrary of the next library: it is in the list, or is run.
LoadNextLibrary ==
  /\ Running("load") /\ ret = "none"
  /\ LET a == Top.app
         libs == NeededLibs[app[a].prog]
     IN /\ Top.next <= Len(libs)
        /\ LET l == GetLibrary(Tables, libs[Top.next])
           IN \/ /\ l # NULL
                 /\ app' = [app EXCEPT ![l].users = @ + 1]
                 /\ stack' = [stack EXCEPT ![Len(stack)].next = @ + 1]
                 /\ UNCHANGED <<apps, symbols, ret>>
              \/ /\ l = NULL
                 /\ \E b \in Addr : Allocates(b, libs[Top.next], NULL)
  /\ Env

\* The library's file is not there or is none of ours, or there is no memory.
LibraryNotRun ==
  /\ Running("load") /\ ret = "none" /\ phase = "up"
  /\ LET libs == NeededLibs[app[Top.app].prog]
     IN Top.next <= Len(libs) /\ GetLibrary(Tables, libs[Top.next]) = NULL
  /\ ret' = "fail"
  /\ UNCHANGED <<tables, stack>> /\ Env

LibraryLoaded ==
  /\ Running("load") /\ ret = "ok"
  /\ stack' = [stack EXCEPT ![Len(stack)].next = @ + 1]
  /\ ret' = "none"
  /\ UNCHANGED tables /\ Env

\* LoadLibraries has failed: App is freed, the libraries loaded so far stay loaded.
LibraryMissing ==
  /\ Running("load") /\ ret = "fail"
  /\ app' = [app EXCEPT ![Top.app] = Blank]
  /\ Returns("fail")
  /\ UNCHANGED <<apps, symbols>> /\ Env

AllLoaded == Running("load") /\ ret = "none" /\ Top.next > Len(NeededLibs[app[Top.app].prog])
Found(p) == {y \in symbols : y.name \in Imports[p]}

\* An unresolved external, an unknown relocation, no memory for argv.
NotStarted ==
  /\ AllLoaded /\ phase = "up"
  /\ app' = [app EXCEPT ![Top.app] = Blank]
  /\ Returns("fail")
  /\ UNCHANGED <<apps, symbols>> /\ Env

\* Every external resolves: App joins the list and its Main is called.
Starts ==
  /\ AllLoaded
  /\ LET a == Top.app
         p == app[a].prog
     IN /\ \A n \in Imports[p] : \E y \in symbols : y.name = n
        /\ app' = [app EXCEPT ![a].st = "starting", ![a].bound = {y.home : y \in Found(p)}]
        /\ apps' = Append(apps, a)
        /\ stack' = Append(Below, [kind |-> "main", app |-> a, next |-> 0])
  /\ UNCHANGED <<symbols, ret>> /\ Env

\* Mutant of MainTrue: the user that has loaded the library is not counted.
MainTrueUncounted ==
  /\ Running("main")
  /\ LET s == Exported(Tables, Top.app)
     IN Becomes([s EXCEPT !.app[Top.app].st = "running"])
  /\ Returns("ok") /\ Env

\* Main has returned true; it has registered what it exports before.
MainTrue ==
  /\ Running("main")
  /\ LET s == Exported(Tables, Top.app)
     IN Becomes([s EXCEPT !.app[Top.app].st = "running", !.app[Top.app].users = 1])
  /\ Returns("ok") /\ Env

\* Main has returned false: the console's "exit", a library that could not start.
MainFalse ==
  /\ Running("main") /\ phase = "up"
  /\ Becomes(Discarded(Tables, Top.app))
  /\ Returns("fail") /\ Env
-----------------------------------------------------------------------------
(***************************************************************************)
(* What the user does, through the events a poll delivers.                 *)
(***************************************************************************)
Listed(a) == a \in SeqRange(apps)
Program(a) == Listed(a) /\ app[a].prog \notin Libraries
Bounded == Len(stack) < MaxDepth /\ \A x \in Addr : app[x].users < MaxUsers

\* An event for a program that runs: a poll calls the handler of its window.
HandleEvent(a) ==
  /\ Polling /\ Bounded
  /\ Program(a) /\ app[a].st = "running"
  /\ stack' = Append(stack, [kind |-> "handler", app |-> a, next |-> 0])
  /\ UNCHANGED <<tables, ret>> /\ Env

HandlerReturns ==
  /\ Running("handler")
  /\ Returns("none")
  /\ UNCHANGED tables /\ Env

(***************************************************************************)
(* DynLdRun, by the kernel itself (ALT-F) or by the handler of a program   *)
(* (a file chosen in nav, run's OK), into which it then returns.           *)
(***************************************************************************)
Run(p) ==
  /\ Polling \/ Running("handler")
  /\ Bounded
  /\ \E a \in Addr : Allocates(a, p, NULL)
  /\ Env

\* The command loop of a console runs a file, with itself as the host.
RunHosted(p) ==
  /\ Polling /\ Bounded
  /\ Running("main") /\ app[Top.app].host = NULL
  /\ Cardinality({b \in Addr : app[b].host = Top.app}) < MaxHosted
  /\ \E a \in Addr : Allocates(a, p, Top.app)
  /\ Env

\* A handler opens a dialog: WidgetExecute polls until it is answered.
OpenDialog == Running("handler") /\ Turns("dialog") /\ Env
AnswerDialog == Running("dialog") /\ Turns("handler") /\ Env

\* A call of a lies below the one at the top.
WaitsBelow(a) == \E k \in 1..(Len(stack) - 1) : stack[k].app = a

\* WM_CLOSE, or run's OK: the handler calls CloseApp(&Me) and returns.
CloseWindow ==
  /\ Running("handler") /\ Program(Top.app)
  /\ app[Top.app].st = "running" /\ app[Top.app].prog \notin Consoles
  /\ CloseUnderCall \/ ~WaitsBelow(Top.app)
  /\ Becomes(CloseApp(Tables, Top.app))
  /\ Returns("none") /\ Env

\* WM_CLOSE of a console's window: conlib calls BreakApp.
CloseConsoleWindow(a) ==
  /\ Polling
  /\ Listed(a) /\ app[a].st \in {"starting", "running"}
  /\ app[a].prog \in Consoles /\ app[a].host = NULL
  /\ Becomes(Discarded(Tables, a))
  /\ LongJmp /\ Env

\* xSystem's Kill button: BreakApp of the item chosen.
Kill(a) ==
  /\ Polling /\ Program(a)
  /\ Becomes(Discarded(Tables, a))
  /\ LongJmp /\ Env

\* MSG_QUIT
Quit ==
  /\ Polling /\ ~GSExit
  /\ GSExit' = TRUE
  /\ UNCHANGED <<tables, stack, ret, phase, pos>>

-----------------------------------------------------------------------------
(***************************************************************************)
(* DynLdTCP, the task that frees what CloseApp has closed.  It walks from  *)
(* the last item round to the item that is last by then.                   *)
(***************************************************************************)
\* Mutant of TcpStart: the walk starts at the first item.
TcpStartFirst ==
  /\ Polling /\ apps # << >>
  /\ stack' = Append(stack, [kind |-> "tcp", app |-> apps[1], next |-> 0])
  /\ UNCHANGED <<tables, ret>> /\ Env

TcpStart ==
  /\ Polling /\ apps # << >>
  /\ stack' = Append(stack, [kind |-> "tcp", app |-> apps[Len(apps)], next |-> 0])
  /\ UNCHANGED <<tables, ret>> /\ Env

Following(a) ==
  LET k == CHOOSE j \in 1..Len(apps) : apps[j] = a
  IN IF k = Len(apps) THEN apps[1] ELSE apps[k + 1]

\* a = n, and the loop's test against the last item, s being the tables by then.
TcpGoesOn(s) ==
  LET n == Following(Top.app)
  IN IF s.apps # << >> /\ n # s.apps[Len(s.apps)]
     THEN stack' = [stack EXCEPT ![Len(stack)].app = n]
     ELSE stack' = Below

\* Mutant of TcpItem: a console program is not broken when the system quits.
TcpItemNoBreak ==
  /\ Running("tcp")
  /\ LET a == Top.app
         s == Freed(UnLoadLibraries(Tables, a), {a})
     IN IF app[a].st = "tofree" THEN Becomes(s) /\ TcpGoesOn(s) /\ UNCHANGED ret
        ELSE TcpGoesOn(Tables) /\ UNCHANGED <<tables, ret>>
  /\ Env

(***************************************************************************)
(* One round of the loop.  After the free it still reads App->State for    *)
(* its second test; free() is taken to leave that byte (StateToFree) as it *)
(* was, so that this test fails.                                           *)
(***************************************************************************)
TcpItem ==
  /\ Running("tcp")
  /\ LET a == Top.app
         s == Freed(UnLoadLibraries(Tables, a), {a})
     IN CASE app[a].st = "tofree" -> Becomes(s) /\ TcpGoesOn(s) /\ UNCHANGED ret
          [] app[a].st = "starting" /\ GSExit -> Becomes(Discarded(Tables, a)) /\ LongJmp
          [] OTHER -> TcpGoesOn(Tables) /\ UNCHANGED <<tables, ret>>
  /\ Env
-----------------------------------------------------------------------------
(***************************************************************************)
(* The end of main: ShutDownDynLd closes from the last item to the first,  *)
(* then frees the lists.                                                   *)
(***************************************************************************)
LeaveLoop ==
  /\ phase = "up" /\ stack = << >> /\ GSExit
  /\ phase' = "down" /\ pos' = Len(apps)
  /\ UNCHANGED <<tables, stack, ret, GSExit>>

\* Mutant of ShutDownClose: from the first item to the last.
ShutDownCloseAscending ==
  /\ phase = "down" /\ pos > 0
  /\ app' = [app EXCEPT ![apps[Len(apps) + 1 - pos]].close = FALSE]
  /\ pos' = pos - 1
  /\ UNCHANGED <<apps, symbols, stack, ret, phase, GSExit>>

ShutDownClose ==
  /\ phase = "down" /\ pos > 0
  /\ app' = [app EXCEPT ![apps[pos]].close = FALSE]
  /\ pos' = pos - 1
  /\ UNCHANGED <<apps, symbols, stack, ret, phase, GSExit>>

ShutDownFree ==
  /\ phase = "down" /\ pos = 0
  /\ Becomes([app |-> [a \in Addr |-> Blank], apps |-> << >>, symbols |-> {}])
  /\ phase' = "halted"
  /\ UNCHANGED <<stack, ret, pos, GSExit>>

Halted == phase = "halted" /\ UNCHANGED vars

Loader == LoadNextLibrary \/ LibraryNotRun \/ LibraryLoaded \/ LibraryMissing
          \/ NotStarted \/ Starts \/ MainTrue \/ MainFalse

Next ==
  \/ Boot \/ BootEnds
  \/ Loader
  \/ \E p \in Programs \ Libraries : Run(p)
  \/ \E p \in Programs \ Libraries : RunHosted(p)
  \/ \E a \in Addr : HandleEvent(a)
  \/ HandlerReturns \/ OpenDialog \/ AnswerDialog \/ CloseWindow
  \/ \E a \in Addr : CloseConsoleWindow(a)
  \/ \E a \in Addr : Kill(a)
  \/ Quit \/ TcpStart \/ TcpItem
  \/ LeaveLoop \/ ShutDownClose \/ ShutDownFree \/ Halted

Spec == Init /\ [][Next]_vars
(***************************************************************************)
(* Fairness.  A call that does not poll comes to its end; every loop of    *)
(* SysPoll runs PollTasks again and again, and so DynLdTCP; the main loop  *)
(* tests GSExit again and again; a handler makes a finite number of calls. *)
(* Nothing is assumed of the user, but in AnsweredSpec that a dialog is    *)
(* answered.                                                               *)
(***************************************************************************)
FairSpec ==
  /\ Spec
  /\ WF_vars(Boot \/ BootEnds)
  /\ WF_vars(~Polling /\ Loader)
  /\ SF_vars(HandlerReturns \/ CloseWindow)
  /\ SF_vars(TcpStart) /\ WF_vars(TcpItem)
  /\ SF_vars(LeaveLoop) /\ WF_vars(ShutDownClose \/ ShutDownFree)

AnsweredSpec == FairSpec /\ SF_vars(AnswerDialog)

(***************************************************************************)
(* The user comes to rest.  Who starts a program in every poll for ever,   *)
(* one that is last in the list and gone by the next sweep, keeps DynLdTCP *)
(* from the item before it for ever.                                       *)
(***************************************************************************)
UserStarts ==
  /\ Polling /\ Len(stack') > Len(stack)
  /\ stack'[Len(stack')].kind \in {"load", "handler"}
UserRests == <>[][~UserStarts]_vars
-----------------------------------------------------------------------------
(***************************************************************************)
(* Properties.                                                             *)
(***************************************************************************)
\* Every variable has its type; App->Users (unsigned) never passes below 0.
TypeOK ==
  /\ app \in [Addr -> [prog : Programs \cup {NULL},
                       st : {"free", "loading", "starting", "running", "tofree"},
                       users : Nat, close : BOOLEAN, host : Addr \cup {NULL},
                       bound : SUBSET Addr]]
  /\ apps \in Seq(Addr)
  /\ \A y \in symbols : y.home \in Addr /\ y.owner \in Addr \cup {NULL}
  /\ \A k \in 1..Len(stack) : /\ stack[k].kind \in {"load", "main", "handler", "dialog", "tcp"}
                              /\ stack[k].app \in Addr /\ stack[k].next \in Nat
  /\ ret \in {"ok", "fail", "none"}
  /\ phase \in {"boot", "up", "down", "halted"}
  /\ pos \in Nat
  /\ GSExit \in BOOLEAN

Lib(l) == Listed(l) /\ app[l].prog \in Libraries

\* A library is in memory once, so that GetLibrary can only find the one its users hold.
OneInstance ==
  \A l, m \in Addr : Lib(l) /\ Lib(m) /\ app[l].prog = app[m].prog => l = m

(***************************************************************************)
(* CloseApp leaves no symbol of an application that is closed or freed: an *)
(* application loaded later cannot be linked to it.                        *)
(***************************************************************************)
OwnersAreOpen ==
  \A y \in symbols : y.owner # NULL =>
    Listed(y.owner) /\ app[y.owner].st \in {"starting", "running"}

\* The tables of the loader agree: the list of applications and that of symbols.
TablesOK == TypeOK /\ OneInstance /\ OwnersAreOpen

(***************************************************************************)
(* The code an application has been linked to is that of libraries that    *)
(* run, as long as the application is in the list: App->Users, the failed  *)
(* loads that leave it too high, DynLdTCP and BreakApp never free a        *)
(* library below its users.                                                *)
(***************************************************************************)
ImportsLive ==
  \A a \in Addr : Listed(a) =>
    \A h \in app[a].bound : Listed(h) /\ app[h].st = "running"

\* Who has taken hold of library l: all that is in the list, and what is being loaded.
Holds(a, l) ==
  \/ Listed(a) /\ app[l].prog \in SeqRange(NeededLibs[app[a].prog])
  \/ \E k \in 1..Len(stack) : /\ stack[k].kind = "load" /\ stack[k].app = a
                              /\ \E j \in 1..(stack[k].next - 1) :
                                   NeededLibs[app[a].prog][j] = app[l].prog
\* App->Users counts at least the applications that hold a library that runs.
UsersCoverHolders ==
  \A l \in Addr : Lib(l) /\ app[l].st = "running" =>
    app[l].users >= Cardinality({a \in Addr : Holds(a, l)})

(***************************************************************************)
(* Close of a library is not called while a program linked to it is open:  *)
(* neither by CloseApp nor by ShutDownDynLd, which closes in the order of  *)
(* the list.                                                               *)
(***************************************************************************)
LibrariesCloseLast ==
  \A a \in Addr : Listed(a) /\ app[a].close => \A h \in app[a].bound : app[h].close

(***************************************************************************)
(* No call returns into a program that is freed: DynLdTCP frees a program  *)
(* only when none of its calls is in progress, and BreakApp leaves no call *)
(* in progress at all.                                                     *)
(***************************************************************************)
CallsReturnToLoadedCode ==
  \A k \in 1..Len(stack) :
    stack[k].kind # "tcp" =>
      app[stack[k].app].st = CASE stack[k].kind = "load" -> "loading"
                               [] stack[k].kind = "main" -> "starting"
                               [] OTHER -> "running"

\* DynLdTCP stands on an item of the list, and never frees the only one.
SweepStaysInList ==
  Running("tcp") =>
    Listed(Top.app) /\ (app[Top.app].st = "tofree" => Len(apps) > 1)

(***************************************************************************)
(* CloseApp (dynld.c): "App will be free by DYNLDTCP Thread".              *)
(***************************************************************************)
ClosedAppsAreFreed ==
  UserRests => \A a \in Addr : app[a].st = "tofree" ~> app[a].st = "free"

(***************************************************************************)
(* MSG_QUIT ends the system: the loop of main is left, all is closed and   *)
(* freed (main.c: setting GSExit "ends the main program loop").            *)
(***************************************************************************)
QuitHalts == UserRests => (GSExit ~> phase = "halted")

(***************************************************************************)
(* ResolveSymbol (dynld.c) "Resolves the symbol in a DynLD app", and       *)
(* returns "The address of the symbol": it is in an application that is    *)
(* loaded.                                                                 *)
(***************************************************************************)
SymbolsResolveToLoadedCode ==
  \A y \in symbols : Listed(y.home)
=============================================================================
