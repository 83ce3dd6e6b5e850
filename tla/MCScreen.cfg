SPECIFICATION MCSpec
CONSTANTS
  NULL = NULL
  DeskTop = "desk"
  Widgets <- MCWidgets
  Pixels <- MCPixels
  Layout <- MCLayout
  Rel0 <- MCRel0
  Area0 <- MCArea0
  Hidden0 <- MCHidden0
  Magnets <- MCMagnets
  Books <- MCBooks
  Moves <- MCMoves
  Sizes <- MCSizes
  Places <- MCPlaces
  Room <- MCRoom
  TinyWidgets = FALSE
  ScrolledOut = FALSE
  MoveHidden = FALSE
  Plane <- ListPlane
  Inputs <- ListInputs
  MaxLen = 3
INVARIANTS
  WidgetsOK
  ScreenIsTop
  HitIsDrawn
  ListsAreExact
PROPERTIES
  CallsEnd
