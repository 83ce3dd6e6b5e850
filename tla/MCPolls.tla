------------------------------ MODULE MCPolls -------------------------------
(***************************************************************************)
(* The two lists SysPoll walks, the timers and then the tasks: the         *)
(* tooltips' timer tip, a text box, a program p and a timer of Period 0,   *)
(* z; and the addresses of three tasks.                                    *)
(*                                                                         *)
(* The walks share no variable: every behaviour is one of the timers' or   *)
(* one of the tasks', and the other list stays as it began.                *)
(***************************************************************************)
EXTENDS Tasks, Timers

CONSTANTS tip, x, y, z, p, t1, t2, t3

VARIABLE subject   \* what the behaviour is about

allVars == <<vars, timersVars, subject>>

MCTimer == {tip, x, y, z}
MCWaits == {tip}
MCAlways == {z}
MCPrograms == {p}
MCTask == {t1, t2, t3}

MCInit == Init /\ TimersInit /\ subject \in {"timers", "tasks"}

ATimers(A) == subject = "timers" /\ A /\ UNCHANGED <<vars, subject>>

OfTimers == ATimers(TimersNext)
OfTasks  == subject = "tasks" /\ Step /\ UNCHANGED <<timersVars, subject>>

MCNext == OfTimers \/ OfTasks

\* The fairness of TimersFairSpec.
MCSpec ==
  /\ MCInit /\ [][MCNext]_allVars
  /\ WF_allVars(ATimers(stack = << >> /\ TimersPoll))
  /\ WF_allVars(ATimers(Call)) /\ WF_allVars(ATimers(Skip)) /\ SF_allVars(ATimers(Return))
=============================================================================
