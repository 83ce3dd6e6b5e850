------------------------------- MODULE Timers -------------------------------
(***************************************************************************)
(* TimersPoll walks the ring of timers and calls those that are due.  A    *)
(* callback runs in the middle of the walk: it may make and kill timers,   *)
(* and the tooltip's callback (WidgetTimer) polls until the mouse moves,   *)
(* which walks the same ring again from within and lets programs open and  *)
(* close their windows.  The walk has read n = a->Next before the call and *)
(* tests its end against the Timers->Last of the moment after it.          *)
(*                                                                         *)
(* "list" is the ring from Last->Next to Last.  Time appears as the set of *)
(* the timers whose Period has passed since their LastCall.                *)
(***************************************************************************)
EXTENDS Polling, SequencesExt, FiniteSets

CONSTANTS
  Timer,
  Waits,       \* the timers whose callbacks poll: the one of the tooltips, always there
  Always,      \* the timers with Period 0: due at any time
  Programs,    \* the programs that keep a timer; System is never unloaded
  System,
  MaxKills,    \* bound: timers killed
  KillSaved,   \* boundary: a timer is killed that a walk has read ahead to
  Overwrites   \* boundary: a program makes a second timer and forgets the first

ASSUME TimersAssumption ==
  /\ Waits \subseteq Timer /\ Waits # {} /\ IsFiniteSet(Waits) /\ Always \subseteq Timer /\ NULL \notin Timer
  /\ System \notin Programs /\ NULL \notin Programs
ASSUME KillsAssumption == MaxKills \in Nat

VARIABLES
  list,     \* Timers
  due,      \* ATime - LastCall >= Period
  owner,    \* TTimer.App: whose code Poll is
  loaded,   \* the programs that are loaded
  tim,      \* each program's variable for its timer
  stack,    \* the walks under way, the innermost last
  kills     \* counts the timers killed

timersVars == <<list, due, owner, loaded, tim, stack, kills>>

Top == Last(stack)
Here(f) == stack' = [stack EXCEPT ![Len(stack)] = f]

\* The program's own code runs: between two walks, or in a callback.
Free == stack # << >> => Top.busy

Place(t) == CHOOSE i \in DOMAIN list : list[i] = t

\* a->Next, in the ring.
After(t) == IF Place(t) = Len(list) THEN Head(list) ELSE list[Place(t) + 1]
-----------------------------------------------------------------------------
\* AClock: time passes, and a Period with it.
Elapse ==
  \E t \in ToSet(list) \ due :
    /\ due' = due \cup {t}
    /\ UNCHANGED <<list, owner, loaded, tim, stack, kills>>

\* NewTimer: ListAdd puts it behind Last; LastCall is now.
NewTimer(p, t) ==
  /\ Free /\ t \notin ToSet(list)
  /\ \A i \in DOMAIN stack : t \notin {stack[i].a, stack[i].n}
  /\ list' = Append(list, t)
  /\ due' = IF t \in Always THEN due \cup {t} ELSE due
  /\ owner' = [owner EXCEPT ![t] = p]
  /\ UNCHANGED <<loaded, stack, kills>>

\* A text box makes its timer.
WidgetMakesTimer(t) == NewTimer(System, t) /\ UNCHANGED tim

\* A program makes one, and keeps it in a variable.
ProgramMakesTimer(p, t) ==
  /\ p \in loaded /\ (tim[p] = NULL \/ Overwrites)
  /\ NewTimer(p, t)
  /\ tim' = [tim EXCEPT ![p] = t]

\* What the walks under way still have to call; nothing is sure once Last goes.
Relieved(t) ==
  [i \in DOMAIN stack |->
     [stack[i] EXCEPT !.owed = IF t = Last(list) THEN {} ELSE @ \ {t}]]

Killed(t) == RemoveAt(list, Place(t))

Saved(t) == \E i \in DOMAIN stack : stack[i].n = t

KillTimer(t) ==
  /\ Saved(t) => KillSaved
  /\ list' = Killed(t)
  /\ due' = due \ {t}
  /\ stack' = Relieved(t)

\* A text box goes, and its timer with it (TextBoxFreeEx).
WidgetKillsTimer(t) ==
  /\ Free /\ kills < MaxKills
  /\ t \in ToSet(list) \ Waits /\ owner[t] = System
  /\ KillTimer(t)
  /\ kills' = kills + 1
  /\ UNCHANGED <<owner, loaded, tim>>

\* Close of a program kills the timer of its variable; then its code is freed.
CloseProgram(p) ==
  /\ Free /\ kills < MaxKills
  /\ p \in loaded
  /\ \A i \in DOMAIN stack : stack[i].busy => owner[stack[i].a] # p
  /\ IF tim[p] = NULL THEN UNCHANGED <<list, due, stack>> ELSE KillTimer(tim[p])
  /\ tim' = [tim EXCEPT ![p] = NULL]
  /\ loaded' = loaded \ {p}
  /\ kills' = kills + 1
  /\ UNCHANGED owner

LoadProgram(p) ==
  /\ Free /\ p \notin loaded
  /\ loaded' = loaded \cup {p}
  /\ UNCHANGED <<list, due, owner, tim, stack, kills>>
-----------------------------------------------------------------------------
WalkFrom(t) == [a |-> t, n |-> NULL, busy |-> FALSE, owed |-> due]

\* Mutant of TimersPoll: the walk begins at the first timer.
TimersPollFirst ==
  /\ stack # << >> => Top.busy /\ Top.a \in Waits
  /\ Len(stack) < MaxDepth
  /\ stack' = Append(stack, WalkFrom(Head(list)))
  /\ UNCHANGED <<list, due, owner, loaded, tim, kills>>

\* TimersPoll, from the main loop or from a callback that waits.
TimersPoll ==
  /\ stack # << >> => Top.busy /\ Top.a \in Waits
  /\ Len(stack) < MaxDepth
  /\ stack' = Append(stack, WalkFrom(Last(list)))
  /\ UNCHANGED <<list, due, owner, loaded, tim, kills>>

\* a = n, and the loop's test.
GoOn(s, n) ==
  IF n = Last(list) THEN Front(s)
  ELSE [s EXCEPT ![Len(s)].a = n, ![Len(s)].n = NULL, ![Len(s)].busy = FALSE]

Calling == stack # << >> /\ ~Top.busy /\ Top.a \in ToSet(list)

\* The walk calls a->Poll.
Call ==
  /\ Calling /\ Top.a \in due
  /\ due' = IF Top.a \in Always THEN due ELSE due \ {Top.a}
  /\ stack' = [i \in DOMAIN stack |->
                 LET f == [stack[i] EXCEPT !.owed = @ \ {Top.a}]
                 IN IF i = Len(stack) THEN [f EXCEPT !.n = After(Top.a), !.busy = TRUE] ELSE f]
  /\ UNCHANGED <<list, owner, loaded, tim, kills>>

\* The timer is not due.
Skip ==
  /\ Calling /\ Top.a \notin due
  /\ stack' = GoOn(stack, After(Top.a))
  /\ UNCHANGED <<list, due, owner, loaded, tim, kills>>

\* Mutant of Return: the next timer is read from a after the call.
ReturnReadsLate ==
  /\ stack # << >> /\ Top.busy
  /\ stack' = GoOn(stack, IF Top.a \in ToSet(list) THEN After(Top.a) ELSE Top.a)
  /\ UNCHANGED <<list, due, owner, loaded, tim, kills>>

\* The callback returns to the walk.
Return ==
  /\ stack # << >> /\ Top.busy
  /\ stack' = GoOn(stack, Top.n)
  /\ UNCHANGED <<list, due, owner, loaded, tim, kills>>
-----------------------------------------------------------------------------
TimersInit ==
  /\ list = SetToSeq(Waits) /\ due = {} /\ loaded = {}
  /\ owner = [t \in Timer |-> System]
  /\ tim = [p \in Programs |-> NULL]
  /\ stack = << >> /\ kills = 0

Program ==
  \/ \E t \in Timer : WidgetMakesTimer(t) \/ WidgetKillsTimer(t)
  \/ \E p \in Programs, t \in Timer : ProgramMakesTimer(p, t)
  \/ \E p \in Programs : CloseProgram(p) \/ LoadProgram(p)

TimersNext == Elapse \/ Program \/ TimersPoll \/ Call \/ Skip \/ Return

TimersSpec == TimersInit /\ [][TimersNext]_timersVars

(***************************************************************************)
(* The main loop polls for ever; a walk goes on; and a callback that may   *)
(* poll for a while does return.                                           *)
(***************************************************************************)
TimersFairSpec ==
  /\ TimersSpec
  /\ WF_timersVars(stack = << >> /\ TimersPoll) /\ WF_timersVars(Call) /\ WF_timersVars(Skip)
  /\ SF_timersVars(Return)
-----------------------------------------------------------------------------
\* Types; a program's variable names a timer of the list that is its own.
TimersTypeOK ==
  /\ list \in Seq(Timer) /\ IsInjective(list)
  /\ due \subseteq ToSet(list)
  /\ owner \in [Timer -> Programs \cup {System}] /\ loaded \subseteq Programs
  /\ \A p \in Programs : tim[p] # NULL => tim[p] \in ToSet(list) /\ owner[tim[p]] = p
  /\ \A i \in DOMAIN stack :
       /\ stack[i].a \in Timer /\ stack[i].n \in Timer \cup {NULL}
       /\ i < Len(stack) => stack[i].busy
  /\ kills \in 0..MaxKills

(***************************************************************************)
(* The timer a walk goes on with is still in the list: TimersPoll reads no *)
(* freed memory, whatever the callbacks and the walks in them killed       *)
(* (timer.c:34-45).                                                        *)
(***************************************************************************)
WalksInList == stack # << >> /\ ~Top.busy => Top.a \in ToSet(list)

(***************************************************************************)
(* A walk that ends has called every timer that was due when it began      *)
(* (timer.c:34-46), though callbacks added timers and moved Last, unless   *)
(* Last itself was killed meanwhile.                                       *)
(***************************************************************************)
AllServed == [][Len(stack') < Len(stack) => Top.owed = {}]_timersVars

\* No timer calls into a program that has been unloaded (KillTimer in the programs' Close).
OwnersLoaded == \A t \in ToSet(list) : owner[t] \in loaded \cup {System}

\* A timer that is due is called in the end, or killed (TimersPoll).
DueIsCalled == \A t \in Timer \ Always : t \in due ~> t \notin due

\* Whatever a walk calls is a timer of the list, of a program that is loaded.
CallsLiveTimers == TimersTypeOK /\ WalksInList /\ OwnersLoaded

\* A timer that is due is called, by the walk that finds it due and in the end.
DueIsServed == AllServed /\ DueIsCalled
=============================================================================
