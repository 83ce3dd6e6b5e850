SPECIFICATION FairSpec
CONSTANTS
  d = d
  a = a
  NULL = NULL
  Widgets <- MCWidgets
  DeskTop = d
  MaxKeys = 1
  MaxClicks = 2
  MaxTurns = 1
  MaxDepth = 2
  Together = FALSE
  PollUnhandled = FALSE
  BusyHover = FALSE
  CloseInDrag = FALSE
  DropPolls = FALSE
INVARIANTS
  InputOnce
  UsesLive
  ReleaseEndsAll
PROPERTIES
  KeyArrives
