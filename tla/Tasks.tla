------------------------------- MODULE Tasks --------------------------------
(***************************************************************************)
(* The tasks of tasks.c: a list linked both ways, walked by PollTasks once *)
(* in each SysPoll.  A task may poll, so that the list is walked again     *)
(* from within, and may install and remove tasks: the loader's own task    *)
(* (DynLdTCP) loads and unloads the sound library, whose task comes and    *)
(* goes with it.  PollTasks reads p->Next after the call.                  *)
(*                                                                         *)
(* A task is the address of its TTask; malloc gives out freed addresses    *)
(* again.                                                                  *)
(***************************************************************************)
EXTENDS Polling, FiniteSets, SequencesExt

CONSTANTS
  Task,
  RemoveSelf   \* boundary: a task is removed while it runs

ASSUME TaskAssumption == NULL \notin Task /\ IsFiniteSet(Task)

VARIABLES
  TaskList, LastTask,
  Next, Prev,   \* the pointers of each TTask; what they hold in freed ones is not read
  live,         \* the addresses that are allocated
  walks         \* the PollTasks under way: p; history: the tasks it ran and owes a run

vars == <<TaskList, LastTask, Next, Prev, live, walks>>
-----------------------------------------------------------------------------
\* InstallTask.
InstallTask(t) ==
  /\ t \notin live
  /\ live' = live \cup {t}
  /\ Prev' = [Prev EXCEPT ![t] = LastTask]
  /\ Next' = IF TaskList = NULL THEN [Next EXCEPT ![t] = NULL]
             ELSE [Next EXCEPT ![t] = NULL, ![LastTask] = t]
  /\ TaskList' = IF TaskList = NULL THEN t ELSE TaskList
  /\ LastTask' = t
  /\ UNCHANGED walks

Walk(p, ran, owed) == [p |-> p, ran |-> ran, owed |-> owed]

\* What the walks ran and still owe, for all but a task that goes.
Forgotten(t) ==
  [i \in DOMAIN walks |-> Walk(walks[i].p, walks[i].ran \ {t}, walks[i].owed \ {t})]

\* The pointers around t, without t.
NextWithout(t) == IF Prev[t] # NULL THEN [Next EXCEPT ![Prev[t]] = Next[t]] ELSE Next
PrevWithout(t) == IF Next[t] # NULL THEN [Prev EXCEPT ![Next[t]] = Prev[t]] ELSE Prev

\* Mutant of LastWithout: LastTask keeps its value.
LastAsBefore(t) == LastTask

LastWithout(t) == IF Next[t] # NULL THEN LastTask ELSE Prev[t]

\* RemoveTask.
RemoveTask(t) ==
  /\ t \in live
  /\ RemoveSelf \/ \A i \in DOMAIN walks : walks[i].p # t
  /\ live' = live \ {t}
  /\ Next' = NextWithout(t)
  /\ Prev' = PrevWithout(t)
  /\ TaskList' = IF Prev[t] # NULL THEN TaskList ELSE Next[t]
  /\ LastTask' = LastWithout(t)
  /\ walks' = Forgotten(t)
-----------------------------------------------------------------------------
\* PollTasks, from the main loop or from a task that polls.
PollTasks ==
  /\ Len(walks) < MaxDepth /\ TaskList # NULL
  /\ walks' = Append(walks, Walk(TaskList, {TaskList}, live \ {TaskList}))
  /\ UNCHANGED <<TaskList, LastTask, Next, Prev, live>>

\* Mutant of Onward: the walk goes on behind the next task.
OnwardTwo(p) == IF Next[p] # NULL THEN Next[Next[p]] ELSE NULL

Onward(p) == Next[p]

\* The task returns, and p = p->Next.
TaskReturns ==
  /\ walks # << >>
  /\ LET w == Last(walks)
         n == Onward(w.p)
     IN walks' = IF n = NULL THEN Front(walks)
                 ELSE Append(Front(walks), Walk(n, w.ran \cup {n}, w.owed \ {n}))
  /\ UNCHANGED <<TaskList, LastTask, Next, Prev, live>>
-----------------------------------------------------------------------------
Init ==
  /\ TaskList = NULL /\ LastTask = NULL
  /\ Next = [t \in Task |-> NULL] /\ Prev = [t \in Task |-> NULL]
  /\ live = {} /\ walks = << >>

Step ==
  \/ \E t \in Task : InstallTask(t) \/ RemoveTask(t)
  \/ PollTasks
  \/ TaskReturns

Spec == Init /\ [][Step]_vars
-----------------------------------------------------------------------------
\* Types, and no task of a walk that has been freed (tasks.c:63-68 reads p->Next).
TypeOK ==
  /\ {TaskList, LastTask} \subseteq live \cup {NULL}
  /\ Next \in [Task -> Task \cup {NULL}] /\ Prev \in [Task -> Task \cup {NULL}]
  /\ live \subseteq Task
  /\ \A i \in DOMAIN walks : walks[i].p \in live /\ walks[i].owed \subseteq live

(***************************************************************************)
(* The tasks from TaskList on, along Next.  They are what the abstract     *)
(* list holds: InstallTask and RemoveTask keep the pointers of both        *)
(* directions, TaskList and LastTask in step (tasks.c:27-57).              *)
(***************************************************************************)
At ==
  LET at[i \in 1..Cardinality(Task)] ==
        IF i = 1 THEN TaskList ELSE IF at[i - 1] = NULL THEN NULL ELSE Next[at[i - 1]]
  IN at

Chain == [i \in 1..Cardinality({j \in 1..Cardinality(Task) : At[j] # NULL}) |-> At[i]]

Order == INSTANCE TaskOrder WITH Items <- Task, order <- Chain
OrderSpec == Order!TaskSpec

(***************************************************************************)
(* A walk runs each task that stays installed for as long as it lasts      *)
(* once, and no task twice, though tasks come and go in the middle         *)
(* (tasks.c:59-69).                                                        *)
(***************************************************************************)
EachOnce ==
  [][/\ Len(walks') < Len(walks) => Last(walks).owed = {}
     /\ Len(walks') = Len(walks) /\ walks # << >> /\ Last(walks').p # Last(walks).p =>
          Last(walks').p \notin Last(walks).ran]_vars

\* PollTasks reads the Next of tasks that are allocated, and runs each once (tasks.c:59-69).
RunsOnce == []TypeOK /\ EachOnce
=============================================================================
