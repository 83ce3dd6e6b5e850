SPECIFICATION MCSpec
CONSTANTS
  m = m
  p = p
  q = q
  u = u
  v = v
  z = z
  NL = NL
  NULL = NULL
  Stale = Stale
  Box = {m, p, q}
  MultiLine = {m}
  Letters = {u, v, z}
  Texts <- MCTexts
  MaxText = 4
  MaxCopy = 2
  Width = 2
  Height = 4
  Odd = {}
SYMMETRY Symmetry
INVARIANTS
  InText
PROPERTIES
  MovesOneLine
  CaretInSight
  ClipboardIsText
  DragMoves
