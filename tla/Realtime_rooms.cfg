\* Two users, two workspaces, two sockets, one writer at a time.
CONSTANTS
  Users = {u1, u2}
  Workspaces = {w1, w2}
  Sockets = {s1, s2}
  Requests = {r1}
  None = None
SPECIFICATION Spec
SYMMETRY Symmetry
INVARIANTS HeardByInsiders HeardAreCommitted
