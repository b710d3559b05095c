\* Two users, two requests in flight, fair handlers.
CONSTANTS
  Users = {u1, u2}
  Requests = {r1, r2}
  NoUser = NoUser
CHECK_DEADLOCK FALSE
SPECIFICATION FairSpec
PROPERTIES Answered
