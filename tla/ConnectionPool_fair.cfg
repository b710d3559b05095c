\* Three connections, two accepting requests among four.
CONSTANTS
  Connections = {c1, c2, c3}
  Requests = {r1, r2, r3, r4}
  Accepting = {r1, r2}
  NoConnection = NoConnection
SPECIFICATION FairPoolSpec
INVARIANTS LeasesFit NeverStarved
PROPERTIES Answered
