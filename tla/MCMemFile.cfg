SPECIFICATION FileSpec
CONSTANTS
  Byte = {x, y}
  Unset = Unset
  Step = 2
  Length = 3
  Odd = {}
SYMMETRY Symmetry
INVARIANTS
  InBuffer
PROPERTIES
  IsFile
