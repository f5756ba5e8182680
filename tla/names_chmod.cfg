SPECIFICATION Spec
CONSTANTS
  Client = {c1, c2}
  Dir = {d1}
  Name = {n1}
  Id = {i1, i2}
  Mode = {Full, Own}
  Place <- MCPlace
  c1 = c1  c2 = c2
  d1 = d1  d2 = d2  d3 = d3
  n1 = n1  n2 = n2
  i1 = i1  i2 = i2
  Full = Full
  Own = Own
  None = None
  Faults = {}
PROPERTIES PermissionsKept
