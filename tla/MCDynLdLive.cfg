SPECIFICATION AnsweredSpec
CONSTANTS
  Addr = {a1, a2, a3}
  NULL = NULL
  Programs <- MCPrograms
  Libraries <- MCLibraries
  Consoles <- MCConsoles
  NeededLibs <- MCNeededLibs
  Imports <- MCImports
  AppExports <- MCAppExports
  SysExports <- MCSysExports
  BootList <- MCBootList
  CloseUnderCall = FALSE
  MaxHosted = 1
  MaxUsers = 4
  MaxDepth = 3
PROPERTIES
  ClosedAppsAreFreed
  QuitHalts
