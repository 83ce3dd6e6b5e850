----------------------------- MODULE MCRegistry -----------------------------
(***************************************************************************)
(* Small registries of keys whose names differ by their case: with values, *)
(* or without, and then saved at any size.  MCFold makes "A" and "a" one   *)
(* name to the comparisons that do not mind the case.                      *)
(***************************************************************************)
EXTENDS Registry, TLC

VARIABLE subject   \* what the behaviour is about

MCFold    == "a" :> "a" @@ "A" :> "a"
MCDefault == <<<<"a">>>>

Values == INSTANCE Registry WITH MaxSaved <- 2
Shapes == INSTANCE Registry WITH Type <- {}

MCInit == Init /\ subject \in {"values", "shapes"}

MCNext ==
  /\ \/ subject = "values" /\ Values!Next
     \/ subject = "shapes" /\ Shapes!Next
  /\ UNCHANGED subject

MCSpec == MCInit /\ [][MCNext]_<<vars, subject>>
=============================================================================
