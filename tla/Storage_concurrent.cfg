\* Two tasks, two uploads, two requests in flight.
CONSTANTS
  Tasks = {t1, t2}
  Files = {f1, f2}
  Objects = {o1, o2, blank}
  Incomplete = {blank}
  Requests = {r1, r2}
  None = None
CHECK_DEADLOCK FALSE
SPECIFICATION Spec
SYMMETRY Symmetry
INVARIANTS RowTellsObject NoFileOutlivesTask ConfirmsAgree ConfirmationLasts
