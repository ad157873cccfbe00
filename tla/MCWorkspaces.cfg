SPECIFICATION Spec
CONSTANTS
  a = a
  b = b
  x = x
  Tasks = {a, b}
  NFiles = 2
  Values = {x}
  Slots = 2
  MaxWrites = 2
  MaxAsks = 1
  MaxTrouble = 2
SYMMETRY Alike
CHECK_DEADLOCK FALSE
PROPERTIES NothingLost AcceptedIsPublished
