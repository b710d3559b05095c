\* Two requests in flight, one address, two workspaces, failures.
CONSTANTS
  Ids = {i1, i2}
  Users = {u1, u2}
  Workspaces = {w1, w2}
  Emails = {e1}
  Requests = {r1, r2}
  None = None
SPECIFICATION Spec
SYMMETRY Symmetry
CHECK_DEADLOCK FALSE
INVARIANTS AcceptedWasJoined UninterruptedAcceptIsAtomic OneMemberPerInvitation
PROPERTIES JoinMatchesLink DecisionIsFinal
