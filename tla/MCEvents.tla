------------------------------ MODULE MCEvents ------------------------------
(***************************************************************************)
(* The desktop and a window; the handlers dispose of the window and open   *)
(* dialogs.                                                                *)
(***************************************************************************)
EXTENDS Events

CONSTANTS d, a

MCWidgets == {d, a}

=============================================================================
