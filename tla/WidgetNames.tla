---------------------------- MODULE WidgetNames ----------------------------
(***************************************************************************)
(* The widgets of widget.h as Events and Screen see them: DeskTop is one   *)
(* of them, and NULL is none.                                              *)
(***************************************************************************)
CONSTANTS Widgets, DeskTop, NULL

ASSUME DeskTopAssumption == DeskTop \in Widgets /\ NULL \notin Widgets
=============================================================================
