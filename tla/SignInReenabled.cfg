SPECIFICATION Spec
CONSTANTS
  a = a
  b = b
  c = c
  d = d
  f = f
  g = g
  User = {a, b, c, d}
  Held = {}
  DeviceUser = {d}
  Family = {f, g}
  Code = {k}
  Start <- MCStart
  MaxToken <- MCMaxToken
  MaxRows <- MCMaxRows
  MaxVersion = 2
  MaxChanges = 2
  None = None
SYMMETRY Symmetry
PROPERTIES SignsInAgain
CHECK_DEADLOCK FALSE
