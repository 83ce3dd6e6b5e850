SPECIFICATION FairSpec
CONSTANTS
  desk = desk
  panel = panel
  w1 = w1
  w2 = w2
  w3 = w3
  c3 = c3
  m1 = m1
  m2 = m2
  m3 = m3
  system = system
  shell = shell
  one = one
  two = two
  NULL = NULL
  DeskTop = desk
  Panel = panel
  Widget <- MCWidget
  Windows <- MCWindows
  Popups <- MCPopups
  Owner <- MCOwner
  NoShell = FALSE
  UnderMenus = FALSE
  OpenMenus = FALSE
  Behind = FALSE
INVARIANTS
  TreeOK
  SelectedOnTop
PROPERTIES
  EndsWhole
