\* Two requests in flight, two workspaces, one project, one task, failures.
CONSTANTS
  Workspaces = {w1, w2}
  Projects = {p1}
  Tasks = {t1}
  Texts = {a, b}
  Requests = {r1, r2}
  None = None
SPECIFICATION Spec
SYMMETRY Symmetry
INVARIANTS NoOrphans NothingUnsaid DeletionsAreTrue
PROPERTIES StaysInWorkspace
CHECK_DEADLOCK FALSE
