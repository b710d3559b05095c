\* Three users, two requests in flight.
CONSTANTS
  Users = {u1, u2, u3}
  Requests = {r1, r2}
  NoUser = NoUser
CHECK_DEADLOCK FALSE
SPECIFICATION Spec
SYMMETRY Symmetry
INVARIANTS UncrossedOneOwner
PROPERTIES LoneRemovalRespectsRank LoneOwnerReplaced ImplementsRoster
