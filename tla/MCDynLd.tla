------------------------------ MODULE MCDynLd ------------------------------
(***************************************************************************)
(* A small instance of the loader: a library that is always loaded and     *)
(* exports in both ways (widget; fms2 is the AUTOLIB entry that uses       *)
(* SYSEXPORT), one that is loaded on demand (colsel), a program that uses  *)
(* both (setwall) and a console program.                                   *)
(***************************************************************************)
EXTENDS DynLd, TLC

MCPrograms   == {"widget", "colsel", "setwall", "console"}
MCLibraries  == {"widget", "colsel"}
MCConsoles   == {"console"}
MCNeededLibs == "widget" :> << >> @@ "colsel" :> <<"widget">>
                @@ "setwall" :> <<"widget", "colsel">> @@ "console" :> <<"widget">>
MCAppExports == "widget" :> {"Draw"} @@ "colsel" :> {"Pick"} @@ "setwall" :> {} @@ "console" :> {}
MCSysExports == "widget" :> {"Run"} @@ "colsel" :> {} @@ "setwall" :> {} @@ "console" :> {}
MCImports    == "widget" :> {} @@ "colsel" :> {"Draw"}
                @@ "setwall" :> {"Draw", "Pick"} @@ "console" :> {"Draw", "Run"}
MCBootList   == <<"widget">>

Symmetry == Permutations(Addr)
=============================================================================
