\* Two connections, two accepting requests among three.
CONSTANTS
  Connections = {c1, c2}
  Requests = {r1, r2, r3}
  Accepting = {r1, r2}
  NoConnection = NoConnection
CHECK_DEADLOCK FALSE
SPECIFICATION FairPoolSpec
PROPERTIES Answered
