SPECIFICATION Spec
CONSTANTS
  a = a
  b = b
  c = c
  d = d
  f = f
  g = g
  User = {a, b, c, d}
  Held = {}
  DeviceUser = {d}
  Family = {f, g}
  Code = {k}
  Start <- MCStart
  MaxToken <- MCMaxToken
  MaxRows <- MCMaxRows
  MaxVersion = 2
  MaxChanges = 2
  None = None
SYMMETRY Symmetry
INVARIANTS TypeOK LockedOut PasswordBound FamilyEnds
PROPERTIES AdminRemains
CHECK_DEADLOCK FALSE
