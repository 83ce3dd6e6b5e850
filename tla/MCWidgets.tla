----------------------------- MODULE MCWidgets ------------------------------
(***************************************************************************)
(* The desktop and its panel, two windows and three menus of an application*)
(* and a window of another with a widget in it.                            *)
(***************************************************************************)
EXTENDS Widgets

CONSTANTS desk, panel, w1, w2, w3, c3, m1, m2, m3, system, shell, one, two

MCWidget == {desk, panel, w1, w2, w3, c3, m1, m2, m3}
MCWindows == {w1, w2, w3}
MCPopups == {m1, m2, m3}
MCOwner == [w \in MCWidget |-> CASE w = desk -> system [] w = panel -> shell
                                 [] w \in {w3, c3} -> two [] OTHER -> one]
=============================================================================
