SPECIFICATION Spec
CONSTANTS
  Addr = {a1, a2, a3, a4, a5}
  NULL = NULL
  Programs <- MCPrograms
  Libraries <- MCLibraries
  Consoles <- MCConsoles
  NeededLibs <- MCNeededLibs
  Imports <- MCImports
  AppExports <- MCAppExports
  SysExports <- MCSysExports
  BootList <- MCBootList
  CloseUnderCall = FALSE
  MaxHosted = 1
  MaxUsers = 5
  MaxDepth = 5
SYMMETRY Symmetry
INVARIANTS
  TablesOK
  ImportsLive
  UsersCoverHolders
  LibrariesCloseLast
  CallsReturnToLoadedCode
  SweepStaysInList
