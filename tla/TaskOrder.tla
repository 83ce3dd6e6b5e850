----------------------------- MODULE TaskOrder ------------------------------
(***************************************************************************)
(* What InstallTask and RemoveTask promise: the tasks in the order of      *)
(* their installation.  It is a list that is extended at its end only.     *)
(***************************************************************************)
EXTENDS ItemList

TaskNext ==
  \/ \E t \in Items : Insert(Len(order) + 1, t)
  \/ \E k \in 1..Len(order) : Remove(k)

TaskSpec == Init /\ [][TaskNext]_order
=============================================================================
