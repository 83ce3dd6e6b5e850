------------------------------ MODULE MCConLib ------------------------------
(***************************************************************************)
(* The loader with conlib, a library that no AUTOLIB entry loads and that  *)
(* registers what it exports with SYSEXPORT, and a console program.        *)
(***************************************************************************)
EXTENDS DynLd, TLC

MCPrograms   == {"widget", "conlib", "console"}
MCLibraries  == {"widget", "conlib"}
MCConsoles   == {"console"}
MCNeededLibs == "widget" :> << >> @@ "conlib" :> <<"widget">> @@ "console" :> <<"conlib">>
MCAppExports == "widget" :> {"Draw"} @@ "conlib" :> {} @@ "console" :> {}
MCSysExports == "widget" :> {} @@ "conlib" :> {"GetKey"} @@ "console" :> {}
MCImports    == "widget" :> {} @@ "conlib" :> {"Draw"} @@ "console" :> {"GetKey"}
MCBootList   == <<"widget">>
=============================================================================
