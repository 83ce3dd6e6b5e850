----------------------------- MODULE MCTextBox ------------------------------
(***************************************************************************)
(* A box m of several lines, in which one letter is written, and two boxes *)
(* p and q of one line, between which u and v are copied and dragged.  A   *)
(* behaviour is about m or about p and q; the others stay empty.           *)
(***************************************************************************)
EXTENDS TextBox

CONSTANTS m, p, q, u, v, z

VARIABLE subject   \* the boxes the behaviour is about

MCTexts == {<< >>, <<z, NL>>}

Lines == INSTANCE TextBox WITH
  Box <- {m}, Letters <- {z}, MaxCopy <- 0
Drags == INSTANCE TextBox WITH
  Box <- {p, q}, MultiLine <- {}, Letters <- {u, v}, Texts <- {<< >>}, MaxText <- 2

MCInit == Init /\ subject \in {{m}, {p, q}} /\ focus \in subject

MCNext ==
  /\ \/ subject = {m} /\ Lines!Next
     \/ subject = {p, q} /\ Drags!Next
  /\ UNCHANGED subject

MCSpec == MCInit /\ [][MCNext]_<<vars, subject>>

Symmetry == Permutations({u, v}) \cup Permutations({p, q})
=============================================================================
