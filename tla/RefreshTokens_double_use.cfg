\* Two requests in flight on one family.
CONSTANTS
  Ids = {i1, i2, i3}
  Families = {f1}
  Requests = {r1, r2}
  NoId = NoId
  NoFamily = NoFamily
SPECIFICATION Spec
SYMMETRY Symmetry
CHECK_DEADLOCK FALSE
INVARIANTS SingleUse
